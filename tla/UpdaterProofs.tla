---------------------------- MODULE UpdaterProofs ----------------------------
(***************************************************************************)
(* Theorems about Updater: what an update leaves installed and what it     *)
(* leaves to go back to, for every set of builds, goroutines, commands and *)
(* bounds, in every world.  The applier takes no lock: what an update      *)
(* keeps, it keeps until two appliers are at work at once.                 *)
(***************************************************************************)
EXTENDS Updater, SequenceTheorems, TLAPS

-----------------------------------------------------------------------------
(* Backups are a sequence without repetitions.  What the operators on it do. *)

LEMMA RemoveAtIs ==
  ASSUME NEW S, NEW s \in Seq(S), NEW i \in 1..Len(s)
  PROVE  /\ RemoveAt(s, i) \in Seq(S)
         /\ Len(RemoveAt(s, i)) = Len(s) - 1
         /\ \A j \in 1..Len(s) - 1 : RemoveAt(s, i)[j] = IF j < i THEN s[j] ELSE s[j + 1]
<1> DEFINE A == SubSeq(s, 1, i - 1)
           B == SubSeq(s, i + 1, Len(s))
<1>1. A \in Seq(S) /\ Len(A) = i - 1 /\ \A j \in 1..i - 1 : A[j] = s[j]
  OBVIOUS
<1>2. B \in Seq(S) /\ Len(B) = Len(s) - i /\ \A j \in 1..Len(s) - i : B[j] = s[i + j]
  OBVIOUS
<1>3. RemoveAt(s, i) = A \o B
  BY DEF RemoveAt
<1> HIDE DEF A, B
<1>4. A \o B \in Seq(S) /\ Len(A \o B) = Len(A) + Len(B)
  BY <1>1, <1>2, ConcatProperties
<1>5. \A j \in 1..Len(s) - 1 : (A \o B)[j] = IF j < i THEN A[j] ELSE B[j - (i - 1)]
  BY <1>1, <1>2, ConcatProperties
<1>6. \A j \in 1..Len(s) - 1 : j >= i => B[j - (i - 1)] = s[j + 1]
  <2> SUFFICES ASSUME NEW j \in 1..Len(s) - 1, j >= i PROVE B[j - (i - 1)] = s[j + 1]
    OBVIOUS
  <2>1. j - (i - 1) \in 1..Len(s) - i /\ i + (j - (i - 1)) = j + 1
    OBVIOUS
  <2>2. QED BY <1>2, <2>1
<1>7. QED BY <1>1, <1>2, <1>3, <1>4, <1>5, <1>6

LEMMA AppendIs ==
  ASSUME NEW S, NEW s \in Seq(S), NEW e \in S
  PROVE  /\ Append(s, e) \in Seq(S)
         /\ Len(Append(s, e)) = Len(s) + 1
         /\ \A j \in 1..Len(s) : Append(s, e)[j] = s[j]
         /\ Append(s, e)[Len(s) + 1] = e
OBVIOUS

\* The two newest, or all there are.
LEMMA prunedIs ==
  ASSUME NEW S, rollback \in Seq(S)
  PROVE  /\ pruned \in Seq(S)
         /\ Len(rollback) <= 2 => pruned = rollback
         /\ Len(rollback) > 2 => /\ Len(pruned) = 2
                                /\ pruned[1] = rollback[Len(rollback) - 1]
                                /\ pruned[2] = rollback[Len(rollback)]
<1>1. CASE Len(rollback) <= 2
  <2>0. (IF Len(rollback) > 2 THEN Len(rollback) - 1 ELSE 1) = 1
    BY <1>1
  <2>1. pruned = SubSeq(rollback, 1, Len(rollback))
    BY <2>0, Zenon DEF pruned
  <2>2. pruned = rollback
    BY <2>1, SubSeqFull
  <2>3. QED BY <1>1, <2>2
<1>2. CASE Len(rollback) > 2
  <2> DEFINE n == Len(rollback)
  <2>1. n \in Nat /\ \A i \in n - 1 .. n : rollback[i] \in S
    BY <1>2
  <2>2. pruned = SubSeq(rollback, n - 1, n)
    BY <1>2 DEF pruned
  <2> HIDE DEF n
  <2>3. /\ pruned \in Seq(S) /\ Len(pruned) = n - (n - 1) + 1
        /\ \A i \in 1 .. n - (n - 1) + 1 : pruned[i] = rollback[(n - 1) + i - 1]
    BY <2>1, <2>2, SubSeqProperties
  <2>4. n - (n - 1) + 1 = 2 /\ (n - 1) + 1 - 1 = n - 1 /\ (n - 1) + 2 - 1 = n
    BY <2>1
  <2>5. Len(pruned) = 2 /\ pruned[1] = rollback[n - 1] /\ pruned[2] = rollback[n]
    BY <2>3, <2>4
  <2>6. QED BY <1>2, <2>3, <2>5 DEF n
<1>3. QED BY <1>1, <1>2

-----------------------------------------------------------------------------
(* Types. *)

Result == [ok : BOOLEAN, rolledBack : BOOLEAN]
Backup == [name : Builds \cup {Unknown}, file : File]
ManagerState == [phase : {"idle", "checking", "downloading", "staged", "applying", "failed"},
                 staged : Release \cup {None}]
JobState == [pc : {"idle", "checking", "downloading", "extracting", "extracted", "staged",
                   "asking", "asked"},
             what : Release \cup {None}]
ApplierState ==
  [pc : {"idle", "requests", "begin", "verify", "backup", "backing", "copy", "rename",
         "restart", "wait", "clean", "report", "clear"},
   mode : {"apply", "rollback", "restore", "restart"},
   req : Release \cup {None}, from : Builds \cup {Unknown}, src : File \cup {None},
   outcome : {"none", "ok", "failed", "rolled_back"}]
World == [sound : SUBSET Builds, jobs : SUBSET Jobs, pathUnit : BOOLEAN, stages : Nat,
          crashes : Nat, restarts : Nat, restores : Nat, crashed : BOOLEAN,
         overlapped : BOOLEAN]

FilesOK ==
  /\ stagedBin \in File \cup {None} /\ manifest \in Release \cup {None}
  /\ request \in Release \cup {None} /\ restartRequest \in BOOLEAN
  /\ result \in Result \cup {None}

ProgramOK ==
  /\ rollback \in Seq(Backup)
  /\ binary \in File /\ tmp \in File \cup {None} /\ running \in File
  /\ good \in File /\ before \in File \cup {None}

\* A goroutine past the download knows what it downloads.
JobsOK ==
  /\ mem \in [Managers -> ManagerState] /\ saved \in ManagerState
  /\ job \in [Jobs -> JobState]
  /\ \A j \in Jobs : job[j].pc \notin {"idle", "checking"} => job[j].what \in Release

\* rollback() trusts the old binary: nobody watches it come up.  Who copies a
\* backup has the binary open.
AppliersOK ==
  /\ app \in [Appliers -> ApplierState]
  /\ \A a \in Appliers : /\ app[a].pc = "wait" => app[a].mode # "rollback"
                         /\ app[a].pc = "backing" => app[a].src \in File

TInv == FilesOK /\ ProgramOK /\ JobsOK /\ AppliersOK /\ left \in World

LEMMA TInvImpliesTypeOK == TInv => TypeOK
BY DEF TInv, FilesOK, ProgramOK, JobsOK, AppliersOK, World, TypeOK, Result, Backup,
       ManagerState, JobState, ApplierState

LEMMA Apart == /\ Torn \notin Builds /\ None \notin Builds /\ Unknown \notin Builds
               /\ None \notin File
               /\ "unit" \notin Commands /\ "unit" \notin ServiceJobs
               /\ "service" \notin Commands /\ First \in Builds
BY UpdaterAssumption DEF File

LEMMA VersionTyped == ASSUME NEW f \in File PROVE Version(f) \in Builds \cup {Unknown}
BY DEF Version

LEMMA ManagersTyped ==
  ASSUME FilesOK, JobsOK
  PROVE  /\ loadState \in ManagerState
         /\ \A st \in ManagerState : Absorbed(st) \in ManagerState
<1>1. loadState \in ManagerState
  BY DEF JobsOK, loadState, ManagerState
<1>2. ASSUME NEW st \in ManagerState PROVE Absorbed(st) \in ManagerState
  <2>1. \A p \in {"idle", "failed"} : [phase |-> p, staged |-> None] \in ManagerState
    BY DEF ManagerState
  <2>2. QED BY <1>2, <2>1 DEF Absorbed
<1>3. QED BY <1>1, <1>2

LEMMA SaveTyped ==
  ASSUME JobsOK, NEW m \in Managers, NEW st \in ManagerState, Save(m, st)
  PROVE  mem' \in [Managers -> ManagerState] /\ saved' \in ManagerState
BY DEF JobsOK, Save

LEMMA ManagerTyped == \A j \in Jobs : Manager(j) \in Managers /\ "service" \in Managers
BY DEF Manager, Managers

\* The states a Manager saves differ from one it had in the phase alone.
LEMMA PhaseTyped ==
  ASSUME NEW st \in ManagerState,
         NEW p \in {"idle", "checking", "downloading", "staged", "applying", "failed"}
  PROVE  [st EXCEPT !.phase = p] \in ManagerState
BY DEF ManagerState

LEMMA StepTyped ==
  ASSUME JobsOK, NEW j \in Jobs, NEW p, Step(j, p),
         p \in {"idle", "checking", "downloading", "extracting", "extracted", "staged",
                "asking", "asked"},
         p \in {"idle", "checking"} \/ job[j].pc \notin {"idle", "checking"}
  PROVE  /\ job' \in [Jobs -> JobState]
         /\ \A k \in Jobs : job'[k].pc \notin {"idle", "checking"} => job'[k].what \in Release
BY DEF JobsOK, Step, JobState

LEMMA JobTyped ==
  ASSUME JobsOK, NEW j \in Jobs, NEW t \in JobState, job' = [job EXCEPT ![j] = t],
         t.pc \notin {"idle", "checking"} => t.what \in Release
  PROVE  /\ job' \in [Jobs -> JobState]
         /\ \A k \in Jobs : job'[k].pc \notin {"idle", "checking"} => job'[k].what \in Release
BY DEF JobsOK

LEMMA IdlesTyped == IdleJob \in JobState /\ IdleApplier \in ApplierState /\ Fresh \in ManagerState
BY DEF IdleJob, IdleApplier, Fresh, JobState, ApplierState, ManagerState

\* A step of one applier.
Turns(a) == app'[a] \in ApplierState /\ app' = [app EXCEPT ![a] = app'[a]]

ApplierPC == {"idle", "requests", "begin", "verify", "backup", "backing", "copy", "rename",
              "restart", "wait", "clean", "report", "clear"}

LEMMA TurnIs ==
  ASSUME AppliersOK, NEW a \in Appliers, NEW s \in ApplierState, app' = [app EXCEPT ![a] = s]
  PROVE  Turns(a) /\ app'[a] = s
BY DEF AppliersOK, Turns

LEMMA TurnsTyped ==
  ASSUME AppliersOK, NEW a \in Appliers, Turns(a),
         app'[a].pc = "wait" => app'[a].mode # "rollback",
         app'[a].pc = "backing" => app'[a].src \in File
  PROVE  AppliersOK'
BY DEF AppliersOK, Turns

LEMMA Moves ==
  ASSUME AppliersOK, NEW a \in Appliers, Turns(a)
  PROVE  \A b \in Appliers \ {a} : app'[b] = app[b]
<1> DEFINE s == app'[a]
<1>1. app' = [app EXCEPT ![a] = s] /\ app \in [Appliers -> ApplierState]
  BY DEF Turns, AppliersOK
<1> HIDE DEF s
<1>2. QED BY <1>1

LEMMA GotoIs ==
  ASSUME AppliersOK, NEW a \in Appliers, NEW p \in ApplierPC, Goto(a, p)
  PROVE  /\ Turns(a) /\ app'[a].pc = p
         /\ app'[a].mode = app[a].mode /\ app'[a].from = app[a].from
<1>0. app[a] \in ApplierState
  BY DEF AppliersOK
<1> DEFINE s == [app[a] EXCEPT !.pc = p]
<1>1. /\ s \in ApplierState /\ s.pc = p /\ s.mode = app[a].mode /\ s.from = app[a].from
      /\ s.outcome = app[a].outcome
  BY <1>0 DEF ApplierState, ApplierPC
<1>2. app' = [app EXCEPT ![a] = s]
  BY DEF Goto
<1> HIDE DEF s
<1>3. QED BY <1>1, <1>2, TurnIs

LEMMA EndsIs ==
  ASSUME AppliersOK, NEW a \in Appliers, NEW o \in {"ok", "failed", "rolled_back"}, Ends(a, o)
  PROVE  Turns(a) /\ app'[a].pc = "report" /\ app'[a].outcome = o
<1> DEFINE s == [app[a] EXCEPT !.pc = "report", !.outcome = o]
<1>0. app[a] \in ApplierState
  BY DEF AppliersOK
<1>1. s \in ApplierState /\ s.pc = "report" /\ s.outcome = o
  <2>1. o \in {"none", "ok", "failed", "rolled_back"}
    OBVIOUS
  <2>2. s \in ApplierState
    BY <1>0, <2>1 DEF ApplierState
  <2>3. "pc" \in DOMAIN app[a] /\ "outcome" \in DOMAIN app[a]
    BY <1>0 DEF ApplierState
  <2>4. QED BY <2>2, <2>3
<1>2. app' = [app EXCEPT ![a] = s]
  BY DEF Ends
<1> HIDE DEF s
<1>3. QED BY <1>1, <1>2, TurnIs

LEMMA IdleIs ==
  ASSUME AppliersOK, NEW a \in Appliers, app' = [app EXCEPT ![a] = IdleApplier]
  PROVE  Turns(a) /\ app'[a].pc = "idle"
<1>1. IdleApplier.pc = "idle"
  BY DEF IdleApplier
<1>2. Turns(a) /\ app'[a] = IdleApplier
  BY IdlesTyped, TurnIs
<1>3. QED BY <1>1, <1>2

LEMMA InitTyped == Init => TInv
<1> SUFFICES ASSUME Init PROVE TInv
  OBVIOUS
<1>1. FilesOK
  BY DEF Init, FilesOK
<1>2. ProgramOK
  BY Apart DEF Init, ProgramOK, File
<1>3. JobsOK
  BY IdlesTyped DEF Init, JobsOK, IdleJob
<1>4. AppliersOK
  BY IdlesTyped DEF Init, AppliersOK, IdleApplier
<1>5. left \in World
  BY UpdaterAssumption DEF Init, World, Jobs
<1>6. QED BY <1>1, <1>2, <1>3, <1>4, <1>5 DEF TInv

\* left with a counter used up, and with a crash on record.
LEMMA CountersTyped ==
  ASSUME left \in World
  PROVE  /\ left.stages > 0 => [left EXCEPT !.stages = @ - 1] \in World
         /\ left.restarts > 0 => [left EXCEPT !.restarts = @ - 1] \in World
         /\ \A a : Started(a) \in World
         /\ \A a : left.restores > 0 => [Started(a) EXCEPT !.restores = @ - 1] \in World
         /\ left.crashes > 0 => [left EXCEPT !.crashes = @ - 1, !.crashed = TRUE] \in World
<1>1. ASSUME NEW n \in Nat PROVE [left EXCEPT !.stages = n] \in World
  BY <1>1 DEF World
<1>2. ASSUME NEW n \in Nat PROVE [left EXCEPT !.restarts = n] \in World
  BY <1>2 DEF World
<1>3. ASSUME NEW a
      PROVE  /\ Started(a) \in World /\ Started(a).restores = left.restores
             /\ \A n \in Nat : [Started(a) EXCEPT !.restores = n] \in World
  <2>1. PICK o \in BOOLEAN : Started(a) = [left EXCEPT !.overlapped = o]
    BY DEF Started, World
  <2>2. QED BY <2>1 DEF World
<1>4. ASSUME NEW n \in Nat PROVE [left EXCEPT !.crashes = n, !.crashed = TRUE] \in World
  BY <1>4 DEF World
<1>5. /\ left.stages \in Nat /\ left.restarts \in Nat /\ left.restores \in Nat
      /\ left.crashes \in Nat
  BY DEF World
<1>6. \A n \in Nat : n > 0 => n - 1 \in Nat
  OBVIOUS
<1>7. QED BY <1>1, <1>2, <1>3, <1>4, <1>5, <1>6

LEMMA ManagersStepTyped ==
  ASSUME TInv, State \/ RequestRestart
  PROVE  TInv'
<1> USE DEF TInv
<1>1. CASE State
  <2>1. mem' \in [Managers -> ManagerState] /\ saved' \in ManagerState
    <3>1. mem["service"] \in ManagerState
      BY ManagerTyped DEF JobsOK, Managers
    <3>2. Absorbed(mem["service"]) \in ManagerState
      BY <3>1, ManagersTyped
    <3>3. QED BY <1>1, <3>2, SaveTyped DEF State, Managers
  <2>2. JobsOK'
    BY <1>1, <2>1 DEF State, JobsOK
  <2>3. FilesOK' /\ ProgramOK' /\ AppliersOK' /\ left' \in World
    BY <1>1 DEF State, FilesOK, ProgramOK, AppliersOK, staging, program, history
  <2>4. QED BY <2>2, <2>3
<1>2. CASE RequestRestart
  <2>1. left' \in World
    BY <1>2, CountersTyped DEF RequestRestart
  <2>2. FilesOK' /\ ProgramOK' /\ AppliersOK' /\ JobsOK'
    BY <1>2 DEF RequestRestart, FilesOK, ProgramOK, AppliersOK, JobsOK, staging, program,
                history, manager
  <2>3. QED BY <2>1, <2>2
<1>3. QED BY <1>1, <1>2

LEMMA StagingTyped ==
  ASSUME TInv, NEW j \in Jobs, NEW b \in Builds, Check(j) \/ NoSuchBuild(j) \/ Stage(j, b)
  PROVE  TInv'
<1> USE DEF TInv
<1>0. /\ \A m \in Managers : mem[m] \in ManagerState
      /\ Manager(j) \in Managers /\ "service" \in Managers
      /\ loadState \in ManagerState
      /\ \A st \in ManagerState : Absorbed(st) \in ManagerState
  BY ManagersTyped, ManagerTyped DEF JobsOK
<1>1. CASE Check(j)
  <2>1. PICK st \in ManagerState : Save("service", st)
    BY <1>0, <1>1, PhaseTyped DEF Check
  <2>2. JobsOK'
    BY <1>0, <1>1, <2>1, SaveTyped, StepTyped DEF Check, JobsOK
  <2>3. left' \in World
    BY <1>1, CountersTyped DEF Check
  <2>4. FilesOK' /\ ProgramOK' /\ AppliersOK'
    BY <1>1 DEF Check, FilesOK, ProgramOK, AppliersOK, staging, program, history
  <2>5. QED BY <2>2, <2>3, <2>4
<1>2. CASE NoSuchBuild(j)
  <2>1. PICK st \in ManagerState : Save(Manager(j), st)
    BY <1>0, <1>2, PhaseTyped DEF NoSuchBuild
  <2>2. JobsOK'
    BY <1>0, <1>2, <2>1, SaveTyped DEF NoSuchBuild, JobsOK
  <2>3. left' \in World
    BY <1>2, CountersTyped DEF NoSuchBuild
  <2>4. FilesOK' /\ ProgramOK' /\ AppliersOK'
    BY <1>2 DEF NoSuchBuild, FilesOK, ProgramOK, AppliersOK, staging, program, history
  <2>5. QED BY <2>2, <2>3, <2>4
<1>3. CASE Stage(j, b)
  <2>1. PICK st \in ManagerState : Save(Manager(j), st)
    BY <1>0, <1>3, PhaseTyped DEF Stage
  <2> DEFINE t == [pc |-> "downloading", what |-> [version |-> b, sha256 |-> b]]
  <2>2. t \in JobState /\ t.what \in Release
    BY DEF JobState, Release
  <2>3. job' = [job EXCEPT ![j] = t]
    BY <1>3 DEF Stage
  <2> HIDE DEF t
  <2>4. JobsOK'
    BY <1>0, <2>1, <2>2, <2>3, SaveTyped, JobTyped DEF JobsOK
  <2>5. left' \in World
    BY <1>3, CountersTyped DEF Stage
  <2>6. FilesOK' /\ ProgramOK' /\ AppliersOK'
    BY <1>3 DEF Stage, FilesOK, ProgramOK, AppliersOK, program, history
  <2>7. QED BY <2>4, <2>5, <2>6
<1>4. QED BY <1>1, <1>2, <1>3

LEMMA JobTypedNext ==
  ASSUME TInv, NEW j \in Jobs, JobNext(j)
  PROVE  TInv'
<1> USE DEF TInv
<1>0. /\ \A m \in Managers : mem[m] \in ManagerState
      /\ Manager(j) \in Managers /\ "service" \in Managers
      /\ \A st \in ManagerState : Absorbed(st) \in ManagerState
      /\ job[j] \in JobState
      /\ job[j].pc \notin {"idle", "checking"} => job[j].what \in Release
  BY ManagersTyped, ManagerTyped DEF JobsOK
<1>1. CASE Checked(j)
  <2>1. PICK st \in ManagerState : Save("service", st)
    BY <1>0, <1>1, PhaseTyped DEF Checked
  <2>2. JobsOK'
    BY <1>0, <1>1, <2>1, SaveTyped, StepTyped DEF Checked, JobsOK
  <2>3. FilesOK' /\ ProgramOK' /\ AppliersOK' /\ left' \in World
    BY <1>1 DEF Checked, FilesOK, ProgramOK, AppliersOK, staging, program, history
  <2>4. QED BY <2>2, <2>3
<1>2. CASE Extract(j)
  <2>1. JobsOK'
    BY <1>2, StepTyped DEF Extract, JobsOK, At, manager
  <2>2. FilesOK' /\ ProgramOK' /\ AppliersOK' /\ left' \in World
    BY <1>2 DEF Extract, FilesOK, ProgramOK, AppliersOK, program, history, File
  <2>3. QED BY <2>1, <2>2
<1>3. CASE Extracted(j)
  <2>1. JobsOK'
    BY <1>3, StepTyped DEF Extracted, JobsOK, At, manager
  <2>2. job[j].what.version \in Builds
    BY <1>0, <1>3 DEF Extracted, At, Release
  <2>3. stagedBin' \in File \cup {None}
    BY <1>3, <2>2 DEF Extracted, File
  <2>4. FilesOK' /\ ProgramOK' /\ AppliersOK' /\ left' \in World
    BY <1>3, <2>3 DEF Extracted, FilesOK, ProgramOK, AppliersOK, program, history
  <2>5. QED BY <2>1, <2>4
<1>4. CASE WriteManifest(j)
  <2> DEFINE what == [job[j].what EXCEPT !.sha256 = stagedBin]
  <2>1. what \in Release
    BY <1>0, <1>4 DEF WriteManifest, At, Release
  <2>2. manifest' = what /\ Save(Manager(j), [phase |-> "staged", staged |-> what])
    BY <1>4 DEF WriteManifest
  <2> HIDE DEF what
  <2>3. [phase |-> "staged", staged |-> what] \in ManagerState
    BY <2>1 DEF ManagerState
  <2>4. JobsOK'
    BY <1>0, <1>4, <2>2, <2>3, SaveTyped, StepTyped DEF WriteManifest, JobsOK, At
  <2>5. FilesOK' /\ ProgramOK' /\ AppliersOK' /\ left' \in World
    BY <1>4, <2>1, <2>2 DEF WriteManifest, FilesOK, ProgramOK, AppliersOK, program, history
  <2>6. QED BY <2>4, <2>5
<1>5. CASE setFailed(j)
  <2>1. PICK st \in ManagerState : Save(Manager(j), st)
    BY <1>0, <1>5, PhaseTyped DEF setFailed
  <2>2. JobsOK'
    BY <1>0, <1>5, <2>1, SaveTyped, JobTyped, IdlesTyped DEF setFailed, JobsOK, IdleJob
  <2>3. FilesOK' /\ ProgramOK' /\ AppliersOK' /\ left' \in World
    BY <1>5 DEF setFailed, FilesOK, ProgramOK, AppliersOK, staging, program, history
  <2>4. QED BY <2>2, <2>3
<1>6. CASE RequestApply(j)
  <2> DEFINE st == Absorbed(mem[Manager(j)])
             t == IF st.staged = None THEN IdleJob ELSE [pc |-> "asking", what |-> st.staged]
  <2>1. st \in ManagerState
    BY <1>0
  <2>2. UNCHANGED manager \/ Save(Manager(j), st)
    BY <1>6 DEF RequestApply
  <2>3. job' = [job EXCEPT ![j] = t]
    BY <1>6 DEF RequestApply
  <2> HIDE DEF st
  <2>4. t \in JobState /\ (t.pc \notin {"idle", "checking"} => t.what \in Release)
    BY <2>1, IdlesTyped DEF ManagerState, JobState, IdleJob
  <2> HIDE DEF t
  <2>5. mem' \in [Managers -> ManagerState] /\ saved' \in ManagerState
    BY <1>0, <2>1, <2>2, SaveTyped DEF manager, JobsOK
  <2>6. JobsOK'
    BY <2>3, <2>4, <2>5, JobTyped DEF JobsOK
  <2>7. FilesOK' /\ ProgramOK' /\ AppliersOK' /\ left' \in World
    BY <1>6 DEF RequestApply, FilesOK, ProgramOK, AppliersOK, staging, program, history
  <2>8. QED BY <2>6, <2>7
<1>7. CASE WriteRequest(j)
  <2>1. JobsOK'
    BY <1>7, StepTyped DEF WriteRequest, JobsOK, At, manager
  <2>2. FilesOK' /\ ProgramOK' /\ AppliersOK' /\ left' \in World
    BY <1>0, <1>7 DEF WriteRequest, At, FilesOK, ProgramOK, AppliersOK, staging, program, history
  <2>3. QED BY <2>1, <2>2
<1>8. CASE Applying(j)
  <2>1. PICK st \in ManagerState : Save(Manager(j), st)
    BY <1>0, <1>8, PhaseTyped DEF Applying
  <2>2. JobsOK'
    BY <1>0, <1>8, <2>1, SaveTyped, JobTyped, IdlesTyped DEF Applying, JobsOK, IdleJob
  <2>3. AppliersOK'
    <3>1. CASE j \in Commands
      <4>1. Goto(j, "begin") /\ j \in Appliers
        BY <1>8, <3>1 DEF Applying, Goto, Appliers
      <4>2. QED BY <4>1, GotoIs, TurnsTyped DEF ApplierPC
    <3>2. CASE j \notin Commands
      BY <1>8, <3>2 DEF Applying, AppliersOK
    <3>3. QED BY <3>1, <3>2
  <2>4. FilesOK' /\ ProgramOK'
    BY <1>8 DEF Applying, FilesOK, ProgramOK, staging, program, history
  <2>6. left' \in World
    BY <1>0, <1>8, CountersTyped DEF Applying
  <2>5. QED BY <2>2, <2>3, <2>4, <2>6
<1>9. QED
  BY <1>1, <1>2, <1>3, <1>4, <1>5, <1>6, <1>7, <1>8 DEF JobNext

LEMMA RestartRequestedIs ==
  ASSUME AppliersOK, RestartRequested
  PROVE  Turns("unit") /\ app'["unit"].pc = "restart" /\ app'["unit"].mode = "restart"
<1> DEFINE s == [IdleApplier EXCEPT !.pc = "restart", !.mode = "restart"]
<1>1. s \in ApplierState /\ s.pc = "restart" /\ s.mode = "restart"
  BY DEF IdleApplier, ApplierState
<1>2. app' = [app EXCEPT !["unit"] = s] /\ "unit" \in Appliers
  BY DEF RestartRequested, Appliers
<1> HIDE DEF s
<1>3. QED BY <1>1, <1>2, TurnIs

LEMMA readRequestIs ==
  ASSUME TInv, NEW a \in Appliers, readRequest(a)
  PROVE  /\ Turns(a)
         /\ app'[a].pc = "idle" \/ (app'[a].pc = "verify" /\ app'[a].mode = "apply")
<1>0. AppliersOK /\ request \in Release \cup {None}
  BY DEF TInv, FilesOK
<1>1. CASE request = None
  BY <1>0, <1>1, IdleIs DEF readRequest
<1>2. CASE request # None
  <2> DEFINE s == [IdleApplier EXCEPT !.pc = "verify", !.req = request]
  <2>1. s \in ApplierState /\ s.pc = "verify" /\ s.mode = "apply"
    BY <1>0 DEF IdleApplier, ApplierState
  <2>2. app' = [app EXCEPT ![a] = s]
    BY <1>2 DEF readRequest
  <2> HIDE DEF s
  <2>3. QED BY <1>0, <2>1, <2>2, TurnIs
<1>3. QED BY <1>1, <1>2

LEMMA VerifyIs ==
  ASSUME TInv, NEW a \in Appliers, Verify(a)
  PROVE  /\ Turns(a)
         /\ \/ app'[a].pc = "report" /\ app'[a].outcome = "failed"
            \/ /\ app'[a].pc = "backup" /\ app'[a].mode = app[a].mode
               /\ app'[a].from = Version(binary)
<1>0. AppliersOK /\ Version(binary) \in Builds \cup {Unknown}
  BY VersionTyped DEF TInv, ProgramOK
<1>1. CASE ~Verified(app[a].req)
  BY <1>0, <1>1, EndsIs DEF Verify
<1>2. CASE Verified(app[a].req)
  <2> DEFINE v == Version(binary)
             s == [app[a] EXCEPT !.pc = "backup", !.from = v]
  <2>1. app' = [app EXCEPT ![a] = s] /\ v \in Builds \cup {Unknown}
    BY <1>0, <1>2 DEF Verify
  <2> HIDE DEF v
  <2>2. s \in ApplierState /\ s.pc = "backup" /\ s.mode = app[a].mode /\ s.from = v
    <3>1. app[a] \in ApplierState
      BY <1>0 DEF AppliersOK
    <3>2. QED BY <2>1, <3>1 DEF ApplierState
  <2> HIDE DEF s
  <2>3. Turns(a) /\ app'[a] = s
    BY <1>0, <2>1, <2>2, TurnIs
  <2>4. QED BY <2>2, <2>3 DEF v
<1>3. QED BY <1>1, <1>2

LEMMA UnhealthyIs ==
  ASSUME TInv, NEW a \in Appliers, Unhealthy(a), app[a].mode # "rollback"
  PROVE  /\ Turns(a)
         /\ \/ app[a].mode = "restart" /\ app'[a].pc = "idle"
            \/ app[a].mode = "restore" /\ app'[a].pc = "report" /\ app'[a].outcome = "failed"
            \/ /\ app[a].mode = "apply" /\ app'[a].pc = "copy" /\ app'[a].mode = "rollback"
               /\ app'[a].from = app[a].from
<1>0. AppliersOK /\ app[a].mode \in {"apply", "restore", "restart"}
  BY DEF TInv, AppliersOK, ApplierState
<1>1. CASE app[a].mode = "apply"
  <2> DEFINE s == [app[a] EXCEPT !.pc = "copy", !.mode = "rollback"]
  <2>1. s \in ApplierState /\ s.pc = "copy" /\ s.mode = "rollback" /\ s.from = app[a].from
    <3>1. app[a] \in ApplierState
      BY <1>0 DEF AppliersOK
    <3>2. QED BY <3>1 DEF ApplierState
  <2>2. app' = [app EXCEPT ![a] = s]
    BY <1>1 DEF Unhealthy
  <2> HIDE DEF s
  <2>3. QED BY <1>0, <1>1, <2>1, <2>2, TurnIs
<1>2. CASE app[a].mode = "restore"
  BY <1>0, <1>2, EndsIs DEF Unhealthy
<1>3. CASE app[a].mode = "restart"
  BY <1>0, <1>3, IdleIs DEF Unhealthy
<1>4. QED BY <1>0, <1>1, <1>2, <1>3

LEMMA HealthyIs ==
  ASSUME TInv, NEW a \in Appliers, Healthy(a), app[a].mode # "rollback"
  PROVE  /\ Turns(a)
         /\ \/ app[a].mode = "apply" /\ app'[a].pc = "clean" /\ app'[a].mode = "apply"
               /\ app'[a].from = app[a].from
            \/ app[a].mode = "restore" /\ app'[a].pc = "report" /\ app'[a].outcome = "ok"
            \/ app[a].mode = "restart" /\ app'[a].pc = "begin"
<1>0. AppliersOK /\ app[a].mode \in {"apply", "restore", "restart"}
  BY DEF TInv, AppliersOK, ApplierState
<1>1. CASE app[a].mode = "apply"
  BY <1>0, <1>1, GotoIs DEF Healthy, ApplierPC
<1>2. CASE app[a].mode = "restore"
  BY <1>0, <1>2, EndsIs DEF Healthy
<1>3. CASE app[a].mode = "restart"
  BY <1>0, <1>3, GotoIs DEF Healthy, ApplierPC
<1>4. QED BY <1>0, <1>1, <1>2, <1>3

LEMMA BackUpIs ==
  ASSUME TInv, NEW a \in Appliers, BackUp(a)
  PROVE  /\ Turns(a) /\ app'[a].pc = "backing" /\ app'[a].mode = app[a].mode
         /\ app'[a].from = app[a].from /\ app'[a].src = binary
<1>0. AppliersOK /\ binary \in File /\ app[a] \in ApplierState
  BY DEF TInv, ProgramOK, AppliersOK
<1> DEFINE s == [app[a] EXCEPT !.pc = "backing", !.src = binary]
<1>1. /\ s \in ApplierState /\ s.pc = "backing" /\ s.mode = app[a].mode
      /\ s.from = app[a].from /\ s.src = binary
  BY <1>0 DEF ApplierState
<1>2. app' = [app EXCEPT ![a] = s]
  BY DEF BackUp
<1> HIDE DEF s
<1>3. QED BY <1>0, <1>1, <1>2, TurnIs

LEMMA KeptFileTyped ==
  ASSUME ProgramOK, NEW name
  PROVE  /\ KeptFile(name) \in File \cup {None}
         /\ Kept(name) # {} => \E i \in Kept(name) : KeptFile(name) = rollback[i].file
<1>1. CASE Kept(name) = {}
  BY <1>1 DEF KeptFile
<1>2. CASE Kept(name) # {}
  <2>1. PICK i \in Kept(name) : KeptFile(name) = rollback[i].file
    BY <1>2 DEF KeptFile
  <2>2. i \in DOMAIN rollback /\ rollback \in Seq(Backup)
    BY DEF Kept, ProgramOK
  <2>3. rollback[i] \in Backup
    BY <2>2
  <2>4. QED BY <2>1, <2>3 DEF Backup
<1>3. QED BY <1>1, <1>2

LEMMA BackupsTyped ==
  ASSUME ProgramOK
  PROVE  /\ \A name : Others(name) \in Seq(Backup)
         /\ \A name, f : name \in Builds \cup {Unknown} /\ f \in File =>
              [name |-> name, file |-> f] \in Backup
         /\ pruned \in Seq(Backup)
<1>1. ASSUME NEW name PROVE Others(name) \in Seq(Backup)
  <2>1. CASE Kept(name) = {}
    BY <2>1 DEF Others, ProgramOK
  <2>2. CASE Kept(name) # {}
    <3>1. PICK i \in Kept(name) : Others(name) = RemoveAt(rollback, i)
      BY <2>2 DEF Others
    <3>2. i \in 1..Len(rollback)
      BY DEF Kept, ProgramOK
    <3>3. QED BY <3>1, <3>2, RemoveAtIs DEF ProgramOK
  <2>3. QED BY <2>1, <2>2
<1>2. pruned \in Seq(Backup)
  BY prunedIs DEF ProgramOK
<1>3. QED BY <1>1, <1>2 DEF Backup

LEMMA UnitStartsIs ==
  ASSUME AppliersOK, UnitStarts
  PROVE  Turns("unit") /\ app'["unit"].pc = "requests" /\ "unit" \in Appliers
BY GotoIs DEF UnitStarts, ApplierPC, Appliers

LEMMA BackedUpIs ==
  ASSUME AppliersOK, NEW a \in Appliers, BackedUp(a)
  PROVE  /\ Turns(a) /\ app'[a].pc = "copy"
         /\ app'[a].mode = app[a].mode /\ app'[a].from = app[a].from
BY GotoIs DEF BackedUp, ApplierPC

LEMMA CopyIs ==
  ASSUME AppliersOK, NEW a \in Appliers, Copy(a)
  PROVE  /\ Turns(a)
         /\ \/ app'[a].pc = "report" /\ app'[a].outcome = "failed" /\ tmp' = None
            \/ /\ app'[a].pc = "rename" /\ app'[a].mode = app[a].mode
               /\ app'[a].from = app[a].from
               /\ tmp' = IF app[a].mode = "apply" THEN stagedBin ELSE KeptFile(app[a].from)
               /\ tmp' # None
<1> DEFINE src == IF app[a].mode = "apply" THEN stagedBin ELSE KeptFile(app[a].from)
<1>1. CASE src = None
  <2>1. Ends(a, "failed") /\ tmp' = None
    BY <1>1 DEF Copy
  <2>2. QED BY <2>1, EndsIs
<1>2. CASE src # None
  <2>1. Goto(a, "rename") /\ tmp' = src
    BY <1>2 DEF Copy
  <2> HIDE DEF src
  <2>2. Turns(a) /\ app'[a].pc = "rename" /\ app'[a].mode = app[a].mode /\ app'[a].from = app[a].from
    BY <2>1, GotoIs DEF ApplierPC
  <2>3. QED BY <1>2, <2>1, <2>2 DEF src
<1>3. QED BY <1>1, <1>2

LEMMA CopyFails ==
  ASSUME AppliersOK, NEW a \in Appliers, Copy(a), app'[a].pc = "report"
  PROVE  (IF app[a].mode = "apply" THEN stagedBin ELSE KeptFile(app[a].from)) = None
<1> DEFINE src == IF app[a].mode = "apply" THEN stagedBin ELSE KeptFile(app[a].from)
<1>1. src # None => Goto(a, "rename")
  BY DEF Copy
<1> HIDE DEF src
<1>2. Goto(a, "rename") => app'[a].pc = "rename"
  BY GotoIs DEF ApplierPC
<1>3. QED BY <1>1, <1>2 DEF src

LEMMA RenameIs ==
  ASSUME AppliersOK, NEW a \in Appliers, Rename(a)
  PROVE  /\ Turns(a)
         /\ \/ /\ tmp = None /\ UNCHANGED <<binary, tmp, good, before>>
               /\ app'[a].pc = "report" /\ app'[a].outcome = "failed"
            \/ /\ tmp # None /\ binary' = tmp /\ tmp' = None
               /\ app'[a].pc = "restart" /\ app'[a].mode = app[a].mode
               /\ app'[a].from = app[a].from
               /\ IF app[a].mode = "restore" THEN good' = tmp /\ before' = None
                                             ELSE good' = good /\ before' = before
<1>1. CASE tmp = None
  BY <1>1, EndsIs DEF Rename, history
<1>2. CASE tmp # None
  BY <1>2, GotoIs DEF Rename, history, ApplierPC
<1>3. QED BY <1>1, <1>2

LEMMA RestartIs ==
  ASSUME AppliersOK, NEW a \in Appliers, Restart(a)
  PROVE  /\ Turns(a)
         /\ \/ /\ app[a].mode = "rollback"
               /\ app'[a].pc = "report" /\ app'[a].outcome = "rolled_back"
            \/ /\ app[a].mode # "rollback" /\ app'[a].pc = "wait"
               /\ app'[a].mode = app[a].mode /\ app'[a].from = app[a].from
<1>1. CASE app[a].mode = "rollback"
  BY <1>1, EndsIs DEF Restart
<1>2. CASE app[a].mode # "rollback"
  BY <1>2, GotoIs DEF Restart, ApplierPC
<1>3. QED BY <1>1, <1>2

LEMMA CleanUpIs ==
  ASSUME AppliersOK, NEW a \in Appliers, CleanUp(a)
  PROVE  Turns(a) /\ app'[a].pc = "report" /\ app'[a].outcome = "ok"
BY EndsIs DEF CleanUp

LEMMA WriteResultIs ==
  ASSUME AppliersOK, NEW a \in Appliers, WriteResult(a)
  PROVE  /\ Turns(a) /\ app'[a].pc = "clear"
         /\ app'[a].mode = app[a].mode /\ app'[a].from = app[a].from
BY GotoIs DEF WriteResult, ApplierPC

LEMMA RestoreIs ==
  ASSUME TInv, NEW c \in Commands, Restore(c)
  PROVE  /\ Turns(c) /\ c \in Appliers
         /\ \/ app'[c].pc = "report" /\ app'[c].outcome = "failed"
            \/ /\ app'[c].pc = "copy" /\ app'[c].mode = "restore"
               /\ Len(rollback) > 0
               /\ app'[c].from = rollback[Len(rollback)].name
               /\ rollback[Len(rollback)].file \in Builds
<1>0. AppliersOK /\ c \in Appliers /\ rollback \in Seq(Backup) /\ Len(rollback) > 0
  BY DEF TInv, Appliers, ProgramOK, Restore
<1> DEFINE k == rollback[Len(rollback)]
<1>1. k \in Backup /\ Last(rollback) = k
  BY <1>0 DEF Last
<1> HIDE DEF k
<1>2. CASE k.file \in Builds
  <2> DEFINE s == [IdleApplier EXCEPT !.pc = "copy", !.mode = "restore", !.from = k.name]
  <2>1. s \in ApplierState /\ s.pc = "copy" /\ s.mode = "restore" /\ s.from = k.name
    BY <1>1 DEF IdleApplier, ApplierState, Backup
  <2>2. app' = [app EXCEPT ![c] = s]
    BY <1>1, <1>2 DEF Restore
  <2> HIDE DEF s
  <2>3. Turns(c) /\ app'[c] = s
    BY <1>0, <2>1, <2>2, TurnIs
  <2>4. QED BY <1>0, <1>2, <2>1, <2>3 DEF k
<1>3. CASE k.file \notin Builds
  <2> DEFINE s == [IdleApplier EXCEPT !.pc = "report", !.outcome = "failed"]
  <2>1. s \in ApplierState /\ s.pc = "report" /\ s.outcome = "failed"
    BY DEF IdleApplier, ApplierState
  <2>2. app' = [app EXCEPT ![c] = s]
    BY <1>1, <1>3 DEF Restore
  <2> HIDE DEF s
  <2>3. Turns(c) /\ app'[c] = s
    BY <1>0, <2>1, <2>2, TurnIs
  <2>4. QED BY <1>0, <2>1, <2>3
<1>4. QED BY <1>2, <1>3

LEMMA BootTyped ==
  ASSUME TInv, Boot
  PROVE  /\ mem' \in [Managers -> ManagerState] /\ saved' \in ManagerState
         /\ running' \in File /\ result' \in Result \cup {None}
<1>1. running' \in File
  BY DEF TInv, ProgramOK, Boot
<1>2. Absorbed(loadState) \in ManagerState /\ "service" \in Managers
  BY ManagersTyped DEF TInv, Managers
<1>3. CASE binary = Torn
  BY <1>1, <1>3 DEF TInv, FilesOK, JobsOK, Boot, manager
<1>4. CASE binary # Torn
  BY <1>1, <1>2, <1>4 DEF TInv, FilesOK, JobsOK, Boot
<1>5. QED BY <1>3, <1>4

LEMMA BackedUpTyped ==
  ASSUME TInv, NEW a \in Appliers, BackedUp(a)
  PROVE  /\ rollback' \in Seq(Backup) /\ Len(rollback') = Len(rollback)
         /\ \A i \in DOMAIN rollback :
              rollback'[i] = IF rollback[i].name = app[a].from
                             THEN [name |-> rollback[i].name, file |-> app[a].src]
                             ELSE rollback[i]
<1>0. rollback \in Seq(Backup) /\ app[a].src \in File /\ AppliersOK
  BY DEF TInv, ProgramOK, AppliersOK, BackedUp
<1>1. rollback' = [i \in DOMAIN rollback |->
                    IF i \in Kept(app[a].from)
                    THEN [rollback[i] EXCEPT !.file = app[a].src]
                    ELSE rollback[i]]
  BY DEF BackedUp
<1>2. ASSUME NEW i \in DOMAIN rollback
      PROVE  /\ rollback[i] \in Backup
             /\ [rollback[i] EXCEPT !.file = app[a].src] \in Backup
             /\ [rollback[i] EXCEPT !.file = app[a].src]
                  = [name |-> rollback[i].name, file |-> app[a].src]
  <2>1. rollback[i] \in Backup
    BY <1>0, <1>2
  <2>2. QED BY <1>0, <2>1 DEF Backup
<1>3. \A i \in DOMAIN rollback : i \in Kept(app[a].from) <=> rollback[i].name = app[a].from
  BY DEF Kept
<1>4. \A i \in DOMAIN rollback :
        rollback'[i] = IF rollback[i].name = app[a].from
                       THEN [name |-> rollback[i].name, file |-> app[a].src]
                       ELSE rollback[i]
  BY <1>1, <1>2, <1>3
<1>5. \A i \in DOMAIN rollback : rollback'[i] \in Backup
  BY <1>1, <1>2
<1>6. DOMAIN rollback = 1..Len(rollback) /\ Len(rollback) \in Nat
  BY <1>0
<1>7. DOMAIN rollback' = 1..Len(rollback)
  BY <1>1, <1>6
<1>8. rollback' \in [1..Len(rollback) -> Backup]
  BY <1>1, <1>5, <1>6
<1>9. rollback' \in Seq(Backup) /\ Len(rollback') = Len(rollback)
  BY <1>6, <1>8
<1>10. QED BY <1>4, <1>9

LEMMA ApplierTypedNext ==
  ASSUME TInv, NEW a \in Appliers, ApplierNext(a)
  PROVE  TInv'
<1>0. FilesOK /\ ProgramOK /\ JobsOK /\ AppliersOK /\ left \in World
  BY DEF TInv
<1>1. CASE readRequest(a)
  <2>1. AppliersOK'
    BY <1>0, <1>1, readRequestIs, TurnsTyped
  <2>2. (FilesOK /\ ProgramOK /\ JobsOK /\ left \in World)'
    BY <1>0, <1>1 DEF readRequest, FilesOK, ProgramOK, JobsOK, staging, program, history, manager
  <2>3. QED BY <2>1, <2>2 DEF TInv
<1>2. CASE Verify(a)
  <2>1. AppliersOK'
    BY <1>0, <1>2, VerifyIs, TurnsTyped
  <2>2. (FilesOK /\ ProgramOK /\ JobsOK /\ left \in World)'
    BY <1>0, <1>2 DEF Verify, FilesOK, ProgramOK, JobsOK, staging, program, history, manager
  <2>3. QED BY <2>1, <2>2 DEF TInv
<1>3. CASE BackUp(a)
  <2>1. AppliersOK'
    BY <1>0, <1>3, BackUpIs, TurnsTyped DEF ProgramOK
  <2>2. (FilesOK /\ JobsOK /\ left \in World)'
    BY <1>0, <1>3 DEF BackUp, FilesOK, JobsOK, staging, manager
  <2>3. app[a].from \in Builds \cup {Unknown} /\ Torn \in File
    BY <1>0 DEF AppliersOK, ApplierState, File
  <2>4. PICK e \in Backup : rollback' = Append(Others(app[a].from), e)
    BY <1>0, <1>3, <2>3, BackupsTyped DEF BackUp
  <2>5. rollback' \in Seq(Backup)
    BY <1>0, <2>4, BackupsTyped, AppendIs
  <2>6. ProgramOK'
    BY <1>0, <1>3, <2>5 DEF BackUp, ProgramOK, program, history
  <2>7. QED BY <2>1, <2>2, <2>6 DEF TInv
<1>4. CASE BackedUp(a)
  <2>1. AppliersOK'
    BY <1>0, <1>4, BackedUpIs, TurnsTyped
  <2>2. (FilesOK /\ JobsOK /\ left \in World)'
    BY <1>0, <1>4 DEF BackedUp, FilesOK, JobsOK, staging, manager
  <2>3. QED BY <1>0, <1>4, <2>1, <2>2, BackedUpTyped DEF TInv, BackedUp, ProgramOK, program, history
<1>5. CASE Copy(a)
  <2>1. AppliersOK'
    BY <1>0, <1>5, CopyIs, TurnsTyped
  <2>2. tmp' \in File \cup {None}
    BY <1>0, <1>5, CopyIs, KeptFileTyped DEF FilesOK
  <2>3. (FilesOK /\ ProgramOK /\ JobsOK /\ left \in World)'
    BY <1>0, <1>5, <2>2 DEF Copy, FilesOK, ProgramOK, JobsOK, staging, history, manager
  <2>4. QED BY <2>1, <2>3 DEF TInv
<1>6. CASE Rename(a)
  <2>1. AppliersOK'
    BY <1>0, <1>6, RenameIs, TurnsTyped
  <2>2. binary' \in File /\ tmp' \in File \cup {None} /\ good' \in File /\ before' \in File \cup {None}
    BY <1>0, <1>6, RenameIs DEF ProgramOK
  <2>3. (FilesOK /\ ProgramOK /\ JobsOK /\ left \in World)'
    BY <1>0, <1>6, <2>2 DEF Rename, FilesOK, ProgramOK, JobsOK, staging, manager
  <2>4. QED BY <2>1, <2>3 DEF TInv
<1>7. CASE Restart(a)
  <2>1. AppliersOK'
    BY <1>0, <1>7, RestartIs, TurnsTyped
  <2>2. /\ mem' \in [Managers -> ManagerState] /\ saved' \in ManagerState
        /\ running' \in File /\ result' \in Result \cup {None}
    BY <1>7, BootTyped DEF Restart
  <2>3. (FilesOK /\ ProgramOK /\ left \in World)'
    BY <1>0, <1>7, <2>2 DEF Restart, FilesOK, ProgramOK, staging, history
  <2>4. JobsOK'
    BY <1>0, <1>7, <2>2, IdlesTyped DEF Restart, JobsOK, IdleJob
  <2>5. QED BY <2>1, <2>3, <2>4 DEF TInv
<1>8. CASE Healthy(a)
  <2>1. AppliersOK'
    BY <1>0, <1>8, HealthyIs, TurnsTyped DEF AppliersOK, Healthy
  <2>2. (FilesOK /\ ProgramOK /\ JobsOK /\ left \in World)'
    BY <1>0, <1>8 DEF Healthy, FilesOK, ProgramOK, JobsOK, staging, program, manager
  <2>3. QED BY <2>1, <2>2 DEF TInv
<1>9. CASE Unhealthy(a)
  <2>1. AppliersOK'
    BY <1>0, <1>9, UnhealthyIs, TurnsTyped DEF AppliersOK, Unhealthy
  <2>2. (FilesOK /\ ProgramOK /\ JobsOK /\ left \in World)'
    BY <1>0, <1>9 DEF Unhealthy, FilesOK, ProgramOK, JobsOK, staging, program, history, manager
  <2>3. QED BY <2>1, <2>2 DEF TInv
<1>10. CASE CleanUp(a)
  <2>1. AppliersOK'
    BY <1>0, <1>10, CleanUpIs, TurnsTyped
  <2>2. rollback' \in Seq(Backup)
    BY <1>0, <1>10, BackupsTyped DEF CleanUp
  <2>3. (FilesOK /\ ProgramOK /\ JobsOK /\ left \in World)'
    BY <1>0, <1>10, <2>2 DEF CleanUp, FilesOK, ProgramOK, JobsOK, program, history, manager
  <2>4. QED BY <2>1, <2>3 DEF TInv
<1>11. CASE WriteResult(a)
  <2>1. AppliersOK'
    BY <1>0, <1>11, WriteResultIs, TurnsTyped
  <2>2. result' \in Result
    BY <1>11 DEF WriteResult, Result
  <2>3. (FilesOK /\ ProgramOK /\ JobsOK /\ left \in World)'
    BY <1>0, <1>11, <2>2 DEF WriteResult, FilesOK, ProgramOK, JobsOK, staging, program, history, manager
  <2>4. QED BY <2>1, <2>3 DEF TInv
<1>12. CASE ClearRequest(a)
  <2>1. AppliersOK'
    BY <1>0, <1>12, IdleIs, TurnsTyped DEF ClearRequest
  <2>2. (FilesOK /\ ProgramOK /\ JobsOK /\ left \in World)'
    BY <1>0, <1>12 DEF ClearRequest, FilesOK, ProgramOK, JobsOK, staging, program, history, manager
  <2>3. QED BY <2>1, <2>2 DEF TInv
<1>13. QED
  BY <1>1, <1>2, <1>3, <1>4, <1>5, <1>6, <1>7, <1>8, <1>9, <1>10, <1>11, <1>12 DEF ApplierNext

LEMMA UnitTyped ==
  ASSUME TInv, UnitStarts \/ RestartRequested
  PROVE  TInv'
<1>0. FilesOK /\ ProgramOK /\ JobsOK /\ AppliersOK /\ left \in World
  BY DEF TInv
<1>1. CASE UnitStarts
  <2>1. AppliersOK'
    BY <1>0, <1>1, UnitStartsIs, TurnsTyped
  <2>2. (FilesOK /\ ProgramOK /\ JobsOK)'
    BY <1>0, <1>1 DEF UnitStarts, FilesOK, ProgramOK, JobsOK, staging, program, history, manager
  <2>4. left' \in World
    BY <1>0, <1>1, CountersTyped DEF UnitStarts
  <2>3. QED BY <2>1, <2>2, <2>4 DEF TInv
<1>2. CASE RestartRequested
  <2>1. AppliersOK'
    BY <1>0, <1>2, RestartRequestedIs, TurnsTyped DEF Appliers
  <2>2. (FilesOK /\ ProgramOK /\ JobsOK /\ left \in World)'
    BY <1>0, <1>2 DEF RestartRequested, FilesOK, ProgramOK, JobsOK, staging, program, history, manager
  <2>3. QED BY <2>1, <2>2 DEF TInv
<1>3. QED BY <1>1, <1>2

LEMMA CutOffTyped ==
  ASSUME TInv, Reboot \/ (\E a \in Appliers : Crash(a)) \/ (\E c \in Commands : Restore(c))
  PROVE  TInv'
<1>0. FilesOK /\ ProgramOK /\ JobsOK /\ AppliersOK /\ left \in World
  BY DEF TInv
<1>1. CASE Reboot
  <2>1. AppliersOK'
    BY <1>1, IdlesTyped DEF Reboot, AppliersOK, IdleApplier
  <2>2. /\ mem' \in [Managers -> ManagerState] /\ saved' \in ManagerState
        /\ running' \in File /\ result' \in Result \cup {None}
    BY <1>1, BootTyped DEF Reboot
  <2>3. left' \in World
    BY <1>0, <1>1, CountersTyped DEF Reboot
  <2>4. (FilesOK /\ ProgramOK)'
    BY <1>0, <1>1, <2>2 DEF Reboot, FilesOK, ProgramOK, staging, history
  <2>5. JobsOK'
    BY <1>0, <1>1, <2>2, IdlesTyped DEF Reboot, JobsOK, IdleJob
  <2>6. QED BY <2>1, <2>3, <2>4, <2>5 DEF TInv
<1>2. ASSUME NEW a \in Appliers, Crash(a) PROVE TInv'
  <2>1. AppliersOK'
    BY <1>0, <1>2, IdleIs, TurnsTyped DEF Crash
  <2>2. left' \in World
    BY <1>0, <1>2, CountersTyped DEF Crash
  <2>3. (FilesOK /\ ProgramOK /\ JobsOK)'
    BY <1>0, <1>2 DEF Crash, FilesOK, ProgramOK, JobsOK, staging, program, history, manager
  <2>4. QED BY <2>1, <2>2, <2>3 DEF TInv
<1>3. ASSUME NEW c \in Commands, Restore(c) PROVE TInv'
  <2>1. AppliersOK'
    BY <1>0, <1>3, RestoreIs, TurnsTyped
  <2>2. left' \in World
    BY <1>0, <1>3, CountersTyped DEF Restore
  <2>3. (FilesOK /\ ProgramOK /\ JobsOK)'
    BY <1>0, <1>3 DEF Restore, FilesOK, ProgramOK, JobsOK, staging, program, history, manager
  <2>4. QED BY <2>1, <2>2, <2>3 DEF TInv
<1>4. QED BY <1>1, <1>2, <1>3

LEMMA StutterTyped == ASSUME TInv, UNCHANGED vars PROVE TInv'
BY DEF TInv, FilesOK, ProgramOK, JobsOK, AppliersOK, vars, staging, program, history, manager

LEMMA NextTyped == ASSUME TInv, [Next]_vars PROVE TInv'
<1>1. First \in Builds
  BY Apart
<1>2. CASE UNCHANGED vars
  BY <1>2, StutterTyped
<1>3. CASE State \/ RequestRestart
  BY <1>3, ManagersStepTyped
<1>4. CASE UnitStarts \/ RestartRequested
  BY <1>4, UnitTyped
<1>5. CASE Reboot \/ (\E a \in Appliers : Crash(a)) \/ (\E c \in Commands : Restore(c))
  BY <1>5, CutOffTyped
<1>6. CASE \E j \in Jobs : Check(j) \/ NoSuchBuild(j) \/ JobNext(j)
  BY <1>1, <1>6, StagingTyped, JobTypedNext
<1>7. CASE \E j \in Jobs : \E b \in Builds : Stage(j, b)
  BY <1>7, StagingTyped
<1>8. CASE \E a \in Appliers : ApplierNext(a)
  BY <1>8, ApplierTypedNext
<1>9. QED
  BY <1>2, <1>3, <1>4, <1>5, <1>6, <1>7, <1>8 DEF Next

\* Whatever goroutines, commands and the path unit do beside each other, and
\* wherever they are killed, every file of the updater is one the code reads
\* back, and every process is at a line it can go on from.
THEOREM TypeCorrect == Spec => []TypeOK
<1>1. Init => TInv
  BY InitTyped
<1>2. TInv /\ [Next]_vars => TInv'
  BY NextTyped
<1>3. Spec => []TInv
  BY <1>1, <1>2, PTL DEF Spec
<1>4. QED BY <1>3, TInvImpliesTypeOK, PTL

-----------------------------------------------------------------------------
(* Who is at work. *)

\* A command applies what it staged only when its own staging is over, and as
\* long as no two appliers met there is one at most.
WorkInv ==
  /\ \A c \in Commands : job[c].pc # "idle" => app[c].pc = "idle"
  /\ ~left.overlapped =>
       \A a, b \in Appliers : app[a].pc # "idle" /\ app[b].pc # "idle" => a = b

\* Nobody else is.
AtWork(a) == \A b \in Appliers \ {a} : app[b].pc = "idle"

\* Who acts as an applier is the one at work.
LEMMA Acts ==
  ASSUME ~left.overlapped, WorkInv, NEW a \in Appliers, app[a].pc # "idle"
  PROVE  AtWork(a)
BY DEF WorkInv, AtWork

\* Who starts without meeting another is alone from then on.
LEMMA StartsAlone ==
  ASSUME left \in World, NEW a \in Appliers, ~Started(a).overlapped
  PROVE  ~left.overlapped /\ AtWork(a)
BY DEF Started, World, AtWork

LEMMA InitWork == ASSUME Init PROVE WorkInv
<1>1. IdleApplier.pc = "idle" /\ IdleJob.pc = "idle"
  BY DEF IdleApplier, IdleJob
<1>2. QED BY <1>1 DEF Init, WorkInv, Appliers, Jobs

\* Which builds stay up is what it was, and two that met have met for good.
WorldKept == /\ left'.sound = left.sound
             /\ left.overlapped => left'.overlapped

LEMMA WorldIsKept ==
  ASSUME TInv, [Next]_vars
  PROVE  WorldKept
<1>0. left \in World
  BY DEF TInv
<1>1. CASE UNCHANGED left
  BY <1>1 DEF WorldKept
<1>2. CASE \/ left' = [left EXCEPT !.stages = @ - 1]
           \/ left' = [left EXCEPT !.restarts = @ - 1]
           \/ left' = [left EXCEPT !.crashes = @ - 1, !.crashed = TRUE]
  BY <1>0, <1>2 DEF WorldKept, World
<1>6. ASSUME NEW a, left' = Started(a) \/ left' = [Started(a) EXCEPT !.restores = @ - 1]
      PROVE  WorldKept
  BY <1>0, <1>6 DEF WorldKept, World, Started
<1>3. UNCHANGED vars => UNCHANGED left
  BY DEF vars
<1>4. ASSUME Next PROVE WorldKept
  <2>1. CASE State \/ RequestRestart \/ UnitStarts \/ RestartRequested \/ Reboot
    BY <1>1, <1>2, <1>6, <2>1 DEF State, RequestRestart, UnitStarts, RestartRequested, Reboot
  <2>2. CASE \E j \in Jobs : Check(j) \/ NoSuchBuild(j) \/ JobNext(j)
    BY <1>1, <1>2, <1>6, <2>2 DEF Check, NoSuchBuild, JobNext, Checked, Extract, Extracted,
       WriteManifest, setFailed, RequestApply, WriteRequest, Applying
  <2>3. CASE \E j \in Jobs : \E b \in Builds : Stage(j, b)
    BY <1>1, <1>2, <2>3 DEF Stage
  <2>4. CASE \E a \in Appliers : ApplierNext(a) \/ Crash(a)
    BY <1>1, <1>2, <2>4 DEF ApplierNext, Crash, readRequest, Verify, BackUp, BackedUp, Copy,
       Rename, Restart, Healthy, Unhealthy, CleanUp, WriteResult, ClearRequest
  <2>5. CASE \E c \in Commands : Restore(c)
    BY <1>6, <2>5 DEF Restore
  <2>6. QED BY <1>4, <2>1, <2>2, <2>3, <2>4, <2>5 DEF Next
<1>5. QED BY <1>1, <1>3, <1>4

LEMMA RestoresAlone ==
  ASSUME left \in World, NEW c \in Appliers, Restore(c), ~left'.overlapped
  PROVE  AtWork(c)
<1>1. Started(c) \in World
  BY CountersTyped
<1>2. left' = [Started(c) EXCEPT !.restores = @ - 1]
  BY DEF Restore
<1>3. ~Started(c).overlapped
  BY <1>1, <1>2 DEF World
<1>4. QED BY <1>3, StartsAlone

\* An applier's step is taken by one that is at work already.
LEMMA ApplierActs ==
  ASSUME NEW a \in Appliers, ApplierNext(a)
  PROVE  app[a].pc # "idle"
BY DEF ApplierNext, readRequest, Verify, BackUp, BackedUp, Copy, Rename, Restart, Healthy,
       Unhealthy, CleanUp, WriteResult, ClearRequest

LEMMA ApplierTurns ==
  ASSUME TInv, NEW a \in Appliers, ApplierNext(a)
  PROVE  Turns(a) /\ \A c \in Commands : job'[c] = job[c]
<1>0. AppliersOK /\ JobsOK
  BY DEF TInv
<1>1. Turns(a)
  <2>1. app[a].pc = "wait" => app[a].mode # "rollback"
    BY <1>0 DEF AppliersOK
  <2>2. CASE readRequest(a) \/ Verify(a) \/ BackUp(a) \/ BackedUp(a) \/ Copy(a) \/ Rename(a)
    BY <1>0, <2>2, readRequestIs, VerifyIs, BackUpIs, BackedUpIs, CopyIs, RenameIs
  <2>3. CASE Restart(a) \/ CleanUp(a) \/ WriteResult(a) \/ ClearRequest(a)
    BY <1>0, <2>3, RestartIs, CleanUpIs, WriteResultIs, IdleIs DEF ClearRequest
  <2>4. CASE Healthy(a) \/ Unhealthy(a)
    <3>1. app[a].mode # "rollback"
      BY <2>1, <2>4 DEF Healthy, Unhealthy
    <3>2. QED BY <2>4, <3>1, HealthyIs, UnhealthyIs
  <2>5. QED BY <2>2, <2>3, <2>4 DEF ApplierNext
<1>2. CASE Restart(a)
  BY <1>0, <1>1, <1>2, UpdaterAssumption DEF Restart, Jobs
<1>3. CASE ~Restart(a)
  BY <1>1, <1>3 DEF ApplierNext, readRequest, Verify, BackUp, BackedUp, Copy, Rename, Healthy,
       Unhealthy, CleanUp, WriteResult, ClearRequest
<1>4. QED BY <1>2, <1>3

LEMMA NextWork ==
  ASSUME TInv, WorkInv, [Next]_vars
  PROVE  WorkInv'
<1>0. FilesOK /\ ProgramOK /\ JobsOK /\ AppliersOK /\ WorldKept /\ left \in World
  BY WorldIsKept DEF TInv
<1>2. CASE /\ UNCHANGED app
           /\ \A c \in Commands : job'[c].pc # "idle" => job[c].pc # "idle"
  BY <1>0, <1>2 DEF WorkInv, WorldKept
<1>3. ASSUME NEW a \in Appliers, Turns(a), ~left'.overlapped => AtWork(a),
             \A c \in Commands : job'[c].pc # "idle" => job[c].pc # "idle" /\ c # a
      PROVE  WorkInv'
  <2>1. \A b \in Appliers \ {a} : app'[b] = app[b]
    BY <1>0, <1>3, Moves
  <2>2. ~left'.overlapped =>
          \A b, d \in Appliers : app'[b].pc # "idle" /\ app'[d].pc # "idle" => b = d
    BY <1>3, <2>1 DEF AtWork
  <2>3. \A c \in Commands : job'[c].pc # "idle" => app'[c].pc = "idle"
    BY <1>3, <2>1 DEF WorkInv, Appliers
  <2>4. QED BY <2>2, <2>3 DEF WorkInv
<1>4. CASE UNCHANGED vars
  BY <1>2, <1>4 DEF vars
<1>5. CASE State \/ RequestRestart
  BY <1>2, <1>5 DEF State, RequestRestart
<1>6. CASE UnitStarts
  <2>1. Turns("unit") /\ "unit" \in Appliers /\ (~left'.overlapped => AtWork("unit"))
    BY <1>0, <1>6, UnitStartsIs, StartsAlone DEF UnitStarts, Appliers
  <2>2. QED BY <1>3, <1>6, <2>1, Apart DEF UnitStarts
<1>7. CASE RestartRequested
  <2>1. "unit" \in Appliers /\ app["unit"].pc = "requests" /\ Turns("unit")
    BY <1>0, <1>7, RestartRequestedIs DEF RestartRequested, Appliers
  <2>2. ~left'.overlapped => AtWork("unit")
    BY <1>0, <2>1, Acts DEF WorldKept
  <2>3. QED BY <1>3, <1>7, <2>1, <2>2, Apart DEF RestartRequested
<1>8. CASE Reboot
  <2>1. /\ \A a \in Appliers : app'[a].pc = "idle"
        /\ \A c \in Commands : job'[c].pc = "idle"
    BY <1>8 DEF Reboot, IdleApplier, IdleJob, Jobs
  <2>2. QED BY <2>1 DEF WorkInv
<1>9. ASSUME NEW j \in Jobs, NEW b \in Builds,
             Check(j) \/ NoSuchBuild(j) \/ Stage(j, b) \/ JobNext(j)
      PROVE  WorkInv'
  <2>1. CASE Check(j)
    BY <1>0, <1>2, <2>1, UpdaterAssumption DEF Check, Step, Jobs, JobsOK
  <2>2. CASE NoSuchBuild(j)
    BY <1>2, <2>2 DEF NoSuchBuild
  <2>3. CASE Stage(j, b)
    <3>1. /\ UNCHANGED app
          /\ j \in Commands => app[j].pc = "idle"
          /\ \A c \in Commands \ {j} : job'[c] = job[c]
      BY <1>0, <2>3 DEF Stage, At, Alive, JobsOK, Jobs
    <3>2. QED BY <1>0, <3>1 DEF WorkInv, WorldKept
  <2>4. CASE Applying(j)
    <3>1. CASE j \in Commands
      <4>1. /\ job[j].pc # "idle" /\ Goto(j, "begin") /\ j \in Appliers
        BY <2>4, <3>1 DEF Applying, Goto, At, Appliers
      <4>2. ~left'.overlapped => AtWork(j)
        BY <1>0, <2>4, <3>1, <4>1, StartsAlone DEF Applying
      <4>3. job'[j].pc = "idle" /\ \A k \in Jobs \ {j} : job'[k] = job[k]
        BY <1>0, <2>4 DEF Applying, JobsOK, IdleJob
      <4>4. Turns(j)
        BY <1>0, <4>1, GotoIs DEF ApplierPC
      <4>5. QED BY <1>3, <4>1, <4>2, <4>3, <4>4 DEF Jobs
    <3>2. CASE j \notin Commands
      BY <1>0, <1>2, <2>4, <3>2 DEF Applying, JobsOK, Jobs
    <3>3. QED BY <3>1, <3>2
  <2>5. CASE JobNext(j) /\ ~Applying(j)
    <3>1. job[j].pc # "idle" /\ UNCHANGED app /\ \A k \in Jobs \ {j} : job'[k] = job[k]
      BY <1>0, <2>5 DEF JobNext, Checked, Extract, Extracted, WriteManifest, setFailed,
         RequestApply, WriteRequest, At, Step, JobsOK
    <3>2. QED BY <1>2, <3>1 DEF Jobs
  <2>6. QED BY <1>9, <2>1, <2>2, <2>3, <2>4, <2>5
<1>10. ASSUME NEW a \in Appliers, ApplierNext(a) PROVE WorkInv'
  <2>1. Turns(a) /\ app[a].pc # "idle" /\ \A c \in Commands : job'[c] = job[c]
    BY <1>10, ApplierTurns, ApplierActs
  <2>2. /\ ~left'.overlapped => AtWork(a)
        /\ \A c \in Commands : job[c].pc # "idle" => c # a
    BY <1>0, <2>1, Acts DEF WorkInv, WorldKept
  <2>3. QED BY <1>3, <2>1, <2>2
<1>11. ASSUME NEW a \in Appliers, Crash(a) PROVE WorkInv'
  <2>1. Turns(a) /\ app[a].pc # "idle" /\ UNCHANGED job
    BY <1>0, <1>11, IdleIs DEF Crash
  <2>2. /\ ~left'.overlapped => AtWork(a)
        /\ \A c \in Commands : job[c].pc # "idle" => c # a
    BY <1>0, <2>1, Acts DEF WorkInv, WorldKept
  <2>3. QED BY <1>3, <2>1, <2>2
<1>12. ASSUME NEW c \in Commands, Restore(c) PROVE WorkInv'
  <2>1. Turns(c) /\ c \in Appliers /\ UNCHANGED job /\ job[c].pc = "idle"
    BY <1>12, RestoreIs DEF Restore
  <2>2. ~left'.overlapped => AtWork(c)
    BY <1>0, <1>12, <2>1, RestoresAlone
  <2>3. QED BY <1>3, <2>1, <2>2
<1>13. First \in Builds
  BY Apart
<1>14. ASSUME Next PROVE WorkInv'
  BY <1>5, <1>6, <1>7, <1>8, <1>9, <1>10, <1>11, <1>12, <1>13, <1>14 DEF Next
<1>15. QED BY <1>4, <1>14

-----------------------------------------------------------------------------
(* What an update has installed and kept at each of its steps.             *)

\* A backup is the build it is named after or half of it, once at most.
Backups ==
  /\ \A i \in DOMAIN rollback : rollback[i].file \in {rollback[i].name, Torn}
  /\ \A i, j \in DOMAIN rollback : rollback[i].name = rollback[j].name => i = j

Newest == rollback[Len(rollback)]
NewestIs(name) == Len(rollback) > 0 /\ Newest.name = name
HasBackup(b) == \E i \in DOMAIN rollback : rollback[i].file = b

\* The binary is backed up and about to be replaced; it has been; and it has
\* been by one that nobody has seen healthy yet.
Replacing(r) == r.mode = "apply" /\ r.pc \in {"copy", "rename"}
Replaced(r) == \/ r.mode = "apply" /\ r.pc \in {"restart", "wait"}
               \/ r.mode = "rollback" /\ r.pc \in {"copy", "rename", "restart"}
Window(r) == \/ r.mode = "apply" /\ r.pc \in {"restart", "wait"}
             \/ r.mode = "rollback" /\ r.pc \in {"copy", "rename"}

\* What the applier with record r knows at its line, crashes or not.
Phase(r) ==
  /\ r.pc \in {"verify", "backup", "backing", "clean"} => r.mode = "apply"
  /\ r.pc \in {"copy", "rename"} => r.mode # "restart"
  /\ r.pc = "wait" => r.mode # "rollback"
  /\ r.pc \in {"backup", "backing"} \/ Replacing(r) => r.from = Version(binary)
  /\ r.pc = "backing" => r.src = binary /\ NewestIs(r.from)
  /\ Replacing(r) => NewestIs(r.from) /\ Newest.file = binary
  /\ Replaced(r) => HasBackup(good)
  /\ r.pc \in {"wait", "clean"} => running = binary
  /\ r.pc = "clean" => binary = good
  /\ r.mode = "restore" /\ r.pc = "copy" =>
       \E i \in DOMAIN rollback : rollback[i].name = r.from /\ rollback[i].file \in Builds
  /\ r.mode = "restore" /\ r.pc = "rename" => tmp \in Builds

\* What it knows besides where nothing has crashed: the newest backup is the
\* way back, and a restored build is one that stays up.
Sound(r) ==
  /\ (r.mode = "apply" /\ r.pc \in {"restart", "wait"}) \/ (r.mode = "rollback" /\ r.pc = "copy")
       => NewestIs(r.from) /\ Newest.file = good
  /\ r.mode = "rollback" /\ r.pc = "rename" => tmp = good
  /\ r.mode = "restore" /\ r.pc = "rename" => tmp \in left.sound

\* Where the build before the good one is.
UndoAt ==
  before # None =>
    /\ before \in Builds /\ before # good
    /\ Len(rollback) > 0
    /\ \/ Newest.file = before
       \/ Newest.name = good /\ Len(rollback) > 1 /\ rollback[Len(rollback) - 1].file = before

Whole(r) == \A i \in DOMAIN rollback :
              rollback[i].file \in left.sound \/ (r.pc = "backing" /\ r.from = rollback[i].name)

Settled(r) == /\ Sound(r) /\ good \in left.sound
              /\ binary = good \/ Window(r)
              /\ Whole(r)
              /\ UndoAt

Consistent(r) == /\ Backups /\ good \in Builds /\ GoodIsThere
                 /\ Phase(r)
                 /\ ~left.crashed => Settled(r)

\* Who is at work, or anybody where nobody is.
UpdateInv == \A a \in Appliers, r \in ApplierState : app[a] = r /\ AtWork(a) => Consistent(r)

LEMMA InitConsistent == ASSUME Init PROVE UpdateInv
<1>1. /\ binary = First /\ good = First /\ First \in Builds /\ rollback = <<>> /\ before = None
      /\ First \in left.sound /\ DOMAIN rollback = {} /\ Len(rollback) = 0
  <2>1. rollback = <<>> /\ left \in Worlds /\ binary = First /\ good = First /\ before = None
    BY DEF Init
  <2>2. First \in Builds /\ \A w \in Worlds : First \in w.sound
    BY UpdaterAssumption
  <2>3. DOMAIN rollback = {} /\ Len(rollback) = 0
    BY <2>1
  <2>4. QED BY <2>1, <2>2, <2>3
<1>2. ASSUME NEW r \in ApplierState, r.pc = "idle" PROVE Consistent(r)
  <2>1. Backups /\ GoodIsThere /\ UndoAt /\ Whole(r)
    BY <1>1 DEF Backups, GoodIsThere, UndoAt, Whole
  <2>2. Phase(r) /\ Sound(r)
    BY <1>2 DEF Phase, Sound, Replacing, Replaced
  <2>3. QED BY <1>1, <2>1, <2>2 DEF Consistent, Settled
<1>3. \A a \in Appliers : app[a].pc = "idle"
  BY DEF Init, IdleApplier
<1>4. QED BY <1>2, <1>3 DEF UpdateInv

\* Nothing that counts is touched.
Still == /\ UNCHANGED <<rollback, binary, tmp, running, good, before>>
         /\ left'.sound = left.sound /\ left'.crashed = left.crashed

LEMMA StillConsistent ==
  ASSUME NEW r, Consistent(r), Still
  PROVE  Consistent(r)'
BY DEF Still, Consistent, Backups, GoodIsThere, Phase, Settled, Sound, Whole, UndoAt, Newest,
       NewestIs, HasBackup, Replacing, Replaced, Window, Version

\* Lines at which nothing is known yet, or nothing matters any more.
Resting(s) == \/ s.pc \in {"idle", "requests", "begin", "report", "clear"}
              \/ s.pc = "verify" /\ s.mode = "apply"
              \/ s.pc = "restart" /\ s.mode = "restart"

LEMMA RestIs ==
  ASSUME NEW r, NEW s, Consistent(r), Resting(s),
         left.crashed \/ (~Window(r) /\ r.pc # "backing")
  PROVE  Consistent(s)
<1>1. Phase(s)
  BY DEF Resting, Phase, Replacing, Replaced
<1>2. ASSUME ~left.crashed PROVE Settled(s)
  <2>1. Settled(r) /\ ~Window(r) /\ r.pc # "backing"
    BY <1>2 DEF Consistent
  <2>2. Sound(s)
    BY DEF Resting, Sound
  <2>3. QED BY <2>1, <2>2 DEF Settled, Whole
<1>3. QED BY <1>1, <1>2 DEF Consistent

LEMMA VerifiedIs ==
  ASSUME NEW r, NEW s, Consistent(r), r.pc = "verify",
         s.pc = "backup", s.mode = "apply", s.from = Version(binary)
  PROVE  Consistent(s)
<1>1. Phase(s)
  BY DEF Phase, Replacing, Replaced
<1>2. ASSUME ~left.crashed PROVE Settled(s)
  <2>1. Settled(r) /\ ~Window(r)
    BY <1>2 DEF Consistent, Window
  <2>2. Sound(s)
    BY DEF Sound
  <2>3. QED BY <2>1, <2>2 DEF Settled, Whole
<1>3. QED BY <1>1, <1>2 DEF Consistent

LEMMA RestoringIs ==
  ASSUME ProgramOK, NEW r, NEW s, Consistent(r), r.pc = "idle",
         s.pc = "copy", s.mode = "restore", Len(rollback) > 0,
         s.from = rollback[Len(rollback)].name, rollback[Len(rollback)].file \in Builds
  PROVE  Consistent(s)
<1>0. Len(rollback) \in DOMAIN rollback
  BY DEF ProgramOK
<1>1. Phase(s)
  BY <1>0 DEF Phase, Replacing, Replaced
<1>2. ASSUME ~left.crashed PROVE Settled(s)
  <2>1. Settled(r) /\ ~Window(r)
    BY <1>2 DEF Consistent, Window
  <2>2. Sound(s)
    BY DEF Sound
  <2>3. QED BY <2>1, <2>2 DEF Settled, Whole
<1>3. QED BY <1>1, <1>2 DEF Consistent

LEMMA GoesBackIs ==
  ASSUME NEW r, NEW s, Consistent(r), r.pc = "wait", r.mode = "apply",
         s.pc = "copy", s.mode = "rollback", s.from = r.from
  PROVE  Consistent(s)
<1>1. Phase(s)
  BY DEF Consistent, Phase, Replacing, Replaced
<1>2. ASSUME ~left.crashed PROVE Settled(s)
  <2>1. Settled(r) /\ Window(s)
    BY <1>2 DEF Consistent, Window
  <2>2. Sound(s)
    BY <2>1 DEF Settled, Sound
  <2>3. QED BY <2>1, <2>2 DEF Settled, Whole
<1>3. QED BY <1>1, <1>2 DEF Consistent

\* The backups of the other names stay in their order.
LEMMA OthersIs ==
  ASSUME ProgramOK, Backups, NEW name
  PROVE  /\ Others(name) \in Seq(Backup)
         /\ \A i \in DOMAIN Others(name) :
              \E j \in DOMAIN rollback : Others(name)[i] = rollback[j] /\ rollback[j].name # name
         /\ \A i, k \in DOMAIN Others(name) : Others(name)[i].name = Others(name)[k].name => i = k
         /\ \A j \in DOMAIN rollback : rollback[j].name # name =>
              \E i \in DOMAIN Others(name) : Others(name)[i] = rollback[j]
         /\ Len(rollback) > 0 /\ rollback[Len(rollback)].name # name =>
              /\ Len(Others(name)) > 0
              /\ Others(name)[Len(Others(name))] = rollback[Len(rollback)]
         /\ Len(rollback) > 1 /\ rollback[Len(rollback)].name = name =>
              /\ Len(Others(name)) > 0
              /\ Others(name)[Len(Others(name))] = rollback[Len(rollback) - 1]
<1>0. rollback \in Seq(Backup) /\ DOMAIN rollback = 1..Len(rollback) /\ Len(rollback) \in Nat
  BY DEF ProgramOK
<1>1. CASE Kept(name) = {}
  <2>1. Others(name) = rollback /\ \A j \in DOMAIN rollback : rollback[j].name # name
    BY <1>1 DEF Others, Kept
  <2>2. Len(rollback) > 0 => Len(rollback) \in DOMAIN rollback
    BY <1>0
  <2>3. \A i, k \in DOMAIN rollback : rollback[i].name = rollback[k].name => i = k
    BY DEF Backups
  <2>4. QED BY <1>0, <2>1, <2>2, <2>3
<1>2. CASE Kept(name) # {}
  <2>1. PICK d \in Kept(name) : Others(name) = RemoveAt(rollback, d)
    BY <1>2 DEF Others
  <2>2. d \in 1..Len(rollback) /\ rollback[d].name = name
    BY <1>0 DEF Kept
  <2>3. \A j \in 1..Len(rollback) : rollback[j].name = name => j = d
    BY <1>0, <2>2 DEF Backups
  <2> DEFINE o == Others(name)
             n == Len(rollback)
  <2>4. /\ o \in Seq(Backup) /\ Len(o) = n - 1
        /\ \A j \in 1..n - 1 : o[j] = IF j < d THEN rollback[j] ELSE rollback[j + 1]
    BY <1>0, <2>1, <2>2, RemoveAtIs
  <2>5. DOMAIN o = 1..n - 1
    BY <2>4
  <2>6. \A i, k \in 1..n : rollback[i].name = rollback[k].name => i = k
    BY <1>0 DEF Backups
  <2>7. n \in Nat /\ DOMAIN rollback = 1..n /\ n = Len(rollback) /\ n >= 1
    BY <1>0, <2>2
  <2> HIDE DEF o, n
  <2>8. \A i \in DOMAIN o : \E j \in DOMAIN rollback : o[i] = rollback[j] /\ rollback[j].name # name
    <3> SUFFICES ASSUME NEW i \in 1..n - 1
                 PROVE  \E j \in 1..n : o[i] = rollback[j] /\ rollback[j].name # name
      BY <2>5, <2>7
    <3>1. CASE i < d
      BY <2>2, <2>3, <2>4, <2>7, <3>1
    <3>2. CASE i >= d
      <4>1. i + 1 \in 1..n /\ i + 1 # d
        BY <2>2, <2>7, <3>2
      <4>2. o[i] = rollback[i + 1]
        BY <2>2, <2>4, <2>7, <3>2
      <4>3. QED BY <2>3, <2>7, <4>1, <4>2
    <3>3. QED BY <2>2, <2>7, <3>1, <3>2
  <2>9. \A i, k \in DOMAIN o : o[i].name = o[k].name => i = k
    <3> SUFFICES ASSUME NEW i \in 1..n - 1, NEW k \in 1..n - 1, o[i].name = o[k].name PROVE i = k
      BY <2>5
    <3> DEFINE at(x) == IF x < d THEN x ELSE x + 1
    <3>1. at(i) \in 1..n /\ at(k) \in 1..n /\ (at(i) = at(k) => i = k)
      BY <2>2, <2>7
    <3>2. o[i] = rollback[at(i)] /\ o[k] = rollback[at(k)]
      BY <2>4
    <3> HIDE DEF at
    <3>3. QED BY <2>6, <3>1, <3>2
  <2>10. \A j \in DOMAIN rollback : rollback[j].name # name => \E i \in DOMAIN o : o[i] = rollback[j]
    <3> SUFFICES ASSUME NEW j \in 1..n, j # d PROVE \E i \in 1..n - 1 : o[i] = rollback[j]
      BY <2>2, <2>5, <2>7
    <3>1. CASE j < d
      <4>1. j \in 1..n - 1
        BY <2>2, <2>7, <3>1
      <4>2. QED BY <2>4, <3>1, <4>1
    <3>2. CASE j > d
      <4>1. j - 1 \in 1..n - 1 /\ ~(j - 1 < d) /\ (j - 1) + 1 = j
        BY <2>2, <2>7, <3>2
      <4>2. o[j - 1] = rollback[j]
        BY <2>4, <4>1
      <4>3. QED BY <4>1, <4>2
    <3>3. QED BY <2>2, <2>7, <3>1, <3>2
  <2>11. rollback[n].name # name => Len(o) > 0 /\ o[Len(o)] = rollback[n]
    <3> SUFFICES ASSUME n # d PROVE Len(o) > 0 /\ o[Len(o)] = rollback[n]
      BY <2>2
    <3>0. n \in Nat /\ d \in 1..n
      BY <2>2, <2>7
    <3>1. n - 1 \in 1..n - 1 /\ ~(n - 1 < d) /\ (n - 1) + 1 = n
      <4>1. n > d /\ d >= 1
        BY <3>0
      <4>2. QED BY <3>0, <4>1
    <3>2. o[n - 1] = rollback[n]
      BY <2>4, <3>1
    <3>3. QED BY <2>4, <3>1, <3>2
  <2>12. n > 1 /\ rollback[n].name = name => Len(o) > 0 /\ o[Len(o)] = rollback[n - 1]
    <3> SUFFICES ASSUME n > 1, n = d PROVE Len(o) > 0 /\ o[Len(o)] = rollback[n - 1]
      BY <2>3, <2>7
    <3>1. n - 1 \in 1..n - 1 /\ n - 1 < d
      BY <2>7
    <3>2. o[n - 1] = rollback[n - 1]
      BY <2>4, <3>1
    <3>3. QED BY <2>4, <3>1, <3>2
  <2>13. QED
    BY <2>4, <2>7, <2>8, <2>9, <2>10, <2>11, <2>12 DEF o
<1>3. QED BY <1>1, <1>2

\* The names and files a backup may have: a build is not a torn file.
LEMMA BackupIs ==
  ASSUME ProgramOK, Backups, NEW i \in DOMAIN rollback
  PROVE  /\ i \in 1..Len(rollback) /\ rollback[i] \in Backup
         /\ rollback[i].file \in Builds => rollback[i].name = rollback[i].file
         /\ rollback[i].file \in {rollback[i].name, Torn}
BY Apart DEF ProgramOK, Backups

\* What copyFile truncates is named after the installed binary: the backup of
\* the known good one goes only where it is itself installed.
LEMMA BackUpConsistent ==
  ASSUME TInv, NEW a \in Appliers, BackUp(a), NEW r \in ApplierState, r = app[a], Consistent(r),
         NEW s \in ApplierState, s.pc = "backing", s.mode = r.mode, s.from = r.from, s.src = binary
  PROVE  Consistent(s)'
<1>0. /\ ProgramOK /\ Backups /\ r.pc = "backup" /\ r.mode = "apply" /\ r.from = Version(binary)
      /\ good \in Builds /\ left \in World
  BY DEF TInv, Consistent, Phase, BackUp
<1> DEFINE o == Others(r.from)
           e == [name |-> r.from, file |-> Torn]
<1>1. /\ rollback' = Append(o, e) /\ UNCHANGED <<binary, tmp, running, good, before, left>>
  BY DEF BackUp, program, history
<1>2. e \in Backup /\ e.name = r.from /\ e.file = Torn
  BY <1>0 DEF ApplierState, Backup, File
<1>3. /\ o \in Seq(Backup)
      /\ \A i \in DOMAIN o :
           \E j \in DOMAIN rollback : o[i] = rollback[j] /\ rollback[j].name # r.from
      /\ \A i, k \in DOMAIN o : o[i].name = o[k].name => i = k
      /\ \A j \in DOMAIN rollback : rollback[j].name # r.from =>
           \E i \in DOMAIN o : o[i] = rollback[j]
      /\ Len(rollback) > 0 /\ rollback[Len(rollback)].name # r.from =>
           Len(o) > 0 /\ o[Len(o)] = rollback[Len(rollback)]
      /\ Len(rollback) > 1 /\ rollback[Len(rollback)].name = r.from =>
           Len(o) > 0 /\ o[Len(o)] = rollback[Len(rollback) - 1]
  BY <1>0, OthersIs
<1> HIDE DEF o, e
<1> DEFINE q == rollback'
           m == Len(o)
<1>4. /\ q \in Seq(Backup) /\ Len(q) = m + 1 /\ \A i \in 1..m : q[i] = o[i]
      /\ q[m + 1] = e
  BY <1>1, <1>2, <1>3, AppendIs
<1>5. m \in Nat /\ DOMAIN o = 1..m /\ DOMAIN q = 1..m + 1
  BY <1>3, <1>4
<1> HIDE DEF q, m
<1>6. \A i, k \in 1..m : q[i].name = q[k].name => i = k
  BY <1>3, <1>4, <1>5
<1>7. ASSUME NEW j \in DOMAIN rollback, rollback[j].name # r.from
       PROVE  \E i \in 1..m : q[i] = rollback[j]
  <2>1. PICK i \in DOMAIN o : o[i] = rollback[j]
    BY <1>3, <1>7
  <2>2. QED BY <1>4, <1>5, <2>1
<1>8. ASSUME NEW i \in 1..m
      PROVE  /\ i # m + 1 /\ i \in 1..m + 1
             /\ \E j \in DOMAIN rollback : q[i] = rollback[j] /\ rollback[j].name # r.from
  <2>1. i # m + 1 /\ i \in 1..m + 1
    BY <1>5
  <2>2. i \in DOMAIN o /\ q[i] = o[i]
    BY <1>4, <1>5
  <2>3. QED BY <1>3, <2>1, <2>2
<1>9. \A i \in 1..m + 1 : i \in 1..m \/ i = m + 1
  BY <1>5
<1>10. \A i \in 1..m + 1 : q[i].file \in {q[i].name, Torn}
  <2>1. \A j \in DOMAIN rollback : rollback[j].file \in {rollback[j].name, Torn}
    BY <1>0 DEF Backups
  <2>2. QED BY <1>2, <1>4, <1>8, <1>9, <2>1
<1>11. \A i, k \in 1..m + 1 : q[i].name = q[k].name => i = k
  <2> SUFFICES ASSUME NEW i \in 1..m + 1, NEW k \in 1..m + 1, q[i].name = q[k].name PROVE i = k
    OBVIOUS
  <2>1. CASE i \in 1..m /\ k \in 1..m
    BY <1>6, <2>1
  <2>2. CASE i = m + 1 /\ k = m + 1
    BY <2>2
  <2>3. CASE i \in 1..m /\ k = m + 1
    BY <1>2, <1>4, <1>8, <2>3
  <2>4. CASE i = m + 1 /\ k \in 1..m
    BY <1>2, <1>4, <1>8, <2>4
  <2>5. QED BY <1>9, <2>1, <2>2, <2>3, <2>4
<1>12. Backups'
  BY <1>5, <1>10, <1>11 DEF q, Backups
<1>13. GoodIsThere'
  <2>1. CASE binary = good
    BY <1>1, <2>1 DEF GoodIsThere
  <2>2. CASE binary # good
    <3>1. PICK j \in DOMAIN rollback : rollback[j].file = good
      BY <2>2 DEF Consistent, GoodIsThere
    <3>2. rollback[j].name = good
      BY <1>0, <3>1, BackupIs
    <3>3. r.from # good
      BY <1>0, <2>2, Apart DEF Version
    <3>4. PICK i \in 1..m : q[i] = rollback[j]
      BY <1>7, <3>1, <3>2, <3>3
    <3>5. i \in DOMAIN q /\ q[i].file = good'
      BY <1>1, <1>5, <1>8, <3>1, <3>4
    <3>6. QED BY <3>5 DEF q, GoodIsThere
  <2>3. QED BY <2>1, <2>2
<1>14. Phase(s)'
  <2>1. Newest'.name = r.from /\ Len(rollback') > 0
    BY <1>2, <1>4, <1>5 DEF q, Newest
  <2>2. s.from = Version(binary)' /\ s.src = binary'
    BY <1>0, <1>1 DEF Version
  <2>3. QED BY <1>0, <2>1, <2>2 DEF Phase, Replacing, Replaced, NewestIs
<1>15. ASSUME ~left.crashed PROVE Settled(s)'
  <2>1. Settled(r) /\ ~Window(r)
    BY <1>0, <1>15 DEF Consistent, Window
  <2>2. binary = good /\ good \in left.sound /\ r.from = good
    BY <1>0, <2>1 DEF Settled, Version
  <2>3. Whole(s)'
    <3>1. \A j \in DOMAIN rollback : rollback[j].file \in left.sound
      BY <1>0, <2>1 DEF Settled, Whole
    <3>2. \A i \in 1..m + 1 : q[i].file \in left.sound \/ s.from = q[i].name
      BY <1>2, <1>4, <1>8, <1>9, <3>1
    <3>3. QED BY <1>1, <1>5, <3>2 DEF q, Whole
  <2>4. UndoAt'
    <3> SUFFICES ASSUME before # None PROVE UndoAt'
      BY <1>1 DEF UndoAt
    <3>1. /\ before \in Builds /\ before # good /\ Len(rollback) > 0
          /\ \/ Newest.file = before
             \/ Newest.name = good /\ Len(rollback) > 1 /\ rollback[Len(rollback) - 1].file = before
      BY <2>1 DEF Settled, UndoAt
    <3>2. m > 0 /\ o[m].file = before
      <4>1. CASE Newest.file = before
        <5>1. Len(rollback) \in DOMAIN rollback
          BY <1>0, <3>1 DEF ProgramOK
        <5>2. Newest.name = before
          BY <1>0, <3>1, <4>1, <5>1, BackupIs DEF Newest
        <5>3. QED BY <1>3, <2>2, <3>1, <4>1, <5>2 DEF Newest, m
      <4>2. CASE Newest.name = good /\ Len(rollback) > 1 /\ rollback[Len(rollback) - 1].file = before
        BY <1>3, <2>2, <4>2 DEF Newest, m
      <4>3. QED BY <3>1, <4>1, <4>2
    <3>3. q[m].file = before /\ q[m + 1].name = good /\ Len(q) = m + 1 /\ (m + 1) - 1 = m
      BY <1>2, <1>4, <1>5, <2>2, <3>2
    <3>4. Len(q) > 1 /\ q[Len(q)].name = good /\ q[Len(q) - 1].file = before
      BY <1>5, <3>2, <3>3
    <3>5. QED BY <1>1, <3>1, <3>4 DEF q, UndoAt, Newest
  <2>5. Sound(s)'
    BY DEF Sound
  <2>6. QED BY <1>1, <2>2, <2>3, <2>4, <2>5 DEF Settled
<1>16. left'.crashed = left.crashed /\ (good \in Builds)'
  BY <1>0, <1>1
<1>17. QED BY <1>12, <1>13, <1>14, <1>15, <1>16 DEF Consistent

LEMMA BackedUpConsistent ==
  ASSUME TInv, NEW a \in Appliers, BackedUp(a), NEW r \in ApplierState, r = app[a], Consistent(r),
         NEW s \in ApplierState, s.pc = "copy", s.mode = r.mode, s.from = r.from
  PROVE  Consistent(s)'
<1>0. /\ ProgramOK /\ Backups /\ r.pc = "backing" /\ r.mode = "apply" /\ r.from = Version(binary)
      /\ r.src = binary /\ NewestIs(r.from) /\ good \in Builds /\ binary \in File
  BY DEF TInv, ProgramOK, Consistent, Phase, BackedUp
<1>1. UNCHANGED <<binary, tmp, running, good, before, left>>
  BY DEF BackedUp, program, history
<1> DEFINE q == rollback'
           n == Len(rollback)
<1>2. /\ q \in Seq(Backup) /\ Len(q) = n
      /\ \A i \in DOMAIN rollback :
           q[i] = IF rollback[i].name = r.from THEN [name |-> r.from, file |-> binary]
                                               ELSE rollback[i]
  BY <1>0, BackedUpTyped
<1>3. /\ n \in Nat /\ DOMAIN rollback = 1..n /\ DOMAIN q = 1..n /\ n > 0
      /\ rollback[n].name = r.from
  BY <1>0, <1>2 DEF ProgramOK, NewestIs, Newest
<1> HIDE DEF q, n
<1>4. \A i \in 1..n : q[i].name = rollback[i].name
  BY <1>2, <1>3
<1>5. \A i \in 1..n : rollback[i].name = r.from => q[i].file = binary
  BY <1>2, <1>3
<1>6. \A i \in 1..n : rollback[i].name # r.from => q[i].file = rollback[i].file
  BY <1>2, <1>3
<1>7. Backups'
  <2>1. binary \in {r.from, Torn}
    BY <1>0 DEF Version, File
  <2>2. \A i \in 1..n : q[i].file \in {q[i].name, Torn}
    BY <1>0, <1>3, <1>4, <1>5, <1>6, <2>1 DEF Backups
  <2>3. \A i, j \in 1..n : q[i].name = q[j].name => i = j
    BY <1>0, <1>3, <1>4 DEF Backups
  <2>4. QED BY <1>3, <2>2, <2>3 DEF q, Backups
<1>8. GoodIsThere'
  <2>1. CASE binary = good
    BY <1>1, <2>1 DEF GoodIsThere
  <2>2. CASE binary # good
    <3>1. PICK j \in DOMAIN rollback : rollback[j].file = good
      BY <2>2 DEF Consistent, GoodIsThere
    <3>2. rollback[j].name = good
      BY <1>0, <3>1, BackupIs
    <3>3. r.from # good
      BY <1>0, <2>2, Apart DEF Version
    <3>4. j \in DOMAIN q /\ q[j].file = good'
      BY <1>1, <1>3, <1>6, <3>1, <3>2, <3>3
    <3>5. QED BY <3>4 DEF q, GoodIsThere
  <2>3. QED BY <2>1, <2>2
<1>9. n \in 1..n /\ q[n].name = r.from /\ q[n].file = binary
  BY <1>3, <1>4, <1>5
<1>10. Phase(s)'
  <2>1. NewestIs(s.from)' /\ Newest'.file = binary'
    BY <1>1, <1>2, <1>3, <1>9 DEF q, NewestIs, Newest
  <2>2. s.from = Version(binary)'
    BY <1>0, <1>1 DEF Version
  <2>3. QED BY <1>0, <2>1, <2>2 DEF Phase, Replaced
<1>11. ASSUME ~left.crashed PROVE Settled(s)'
  <2>1. Settled(r) /\ ~Window(r)
    BY <1>0, <1>11 DEF Consistent, Window
  <2>2. binary = good /\ good \in left.sound /\ r.from = good
    BY <1>0, <2>1 DEF Settled, Version
  <2>3. Whole(s)'
    <3>1. \A i \in 1..n : rollback[i].file \in left.sound \/ r.from = rollback[i].name
      BY <1>3, <2>1 DEF Settled, Whole
    <3>2. \A i \in 1..n : q[i].file \in left.sound
      BY <1>5, <1>6, <2>2, <3>1
    <3>3. QED BY <1>1, <1>3, <3>2 DEF q, Whole
  <2>4. UndoAt'
    <3> SUFFICES ASSUME before # None PROVE UndoAt'
      BY <1>1 DEF UndoAt
    <3>1. /\ before \in Builds /\ before # good
          /\ \/ rollback[n].file = before
             \/ n > 1 /\ rollback[n - 1].file = before
      BY <2>1 DEF Settled, UndoAt, Newest, n
    <3>2. n \in DOMAIN rollback /\ rollback[n].file # before
      BY <1>0, <1>3, <1>9, <2>2, <3>1, BackupIs
    <3>3. n > 1 /\ rollback[n - 1].file = before /\ n - 1 \in 1..n
      BY <1>3, <3>1, <3>2
    <3>4. rollback[n - 1].name = before
      BY <1>0, <1>3, <3>1, <3>3, BackupIs
    <3>5. q[n - 1].file = before /\ q[n].name = good
      BY <1>6, <1>9, <2>2, <3>1, <3>3, <3>4
    <3>6. QED BY <1>1, <1>2, <3>1, <3>3, <3>5 DEF q, UndoAt, Newest
  <2>5. Sound(s)'
    BY <1>0 DEF Sound
  <2>6. QED BY <1>1, <2>2, <2>3, <2>4, <2>5 DEF Settled
<1>12. left'.crashed = left.crashed /\ (good \in Builds)'
  BY <1>0, <1>1
<1>13. QED BY <1>7, <1>8, <1>10, <1>11, <1>12 DEF Consistent

\* A name is kept once, so what is read back is the backup one knows of.
LEMMA KeptFileIs ==
  ASSUME Backups, NEW i \in DOMAIN rollback
  PROVE  KeptFile(rollback[i].name) = rollback[i].file
<1> DEFINE name == rollback[i].name
<1>1. i \in Kept(name) /\ \A j \in Kept(name) : j = i
  BY DEF Kept, Backups
<1> HIDE DEF name
<1>2. PICK j \in Kept(name) : KeptFile(name) = rollback[j].file
  BY <1>1 DEF KeptFile
<1>3. QED BY <1>1, <1>2 DEF name

\* installBinary writes beside the target: the binary and the backups stay.
LEMMA CopyConsistent ==
  ASSUME TInv, NEW a \in Appliers, Copy(a), NEW r \in ApplierState, r = app[a], Consistent(r),
         NEW s \in ApplierState,
         \/ s.pc = "report" /\ tmp' = None
         \/ /\ s.pc = "rename" /\ s.mode = r.mode /\ s.from = r.from
            /\ tmp' = IF r.mode = "apply" THEN stagedBin ELSE KeptFile(r.from),
         s.pc = "report" => (IF r.mode = "apply" THEN stagedBin ELSE KeptFile(r.from)) = None
  PROVE  Consistent(s)'
<1>0. /\ ProgramOK /\ Backups /\ r.pc = "copy" /\ r.mode \in {"apply", "rollback", "restore"}
      /\ good \in Builds /\ Phase(r) /\ GoodIsThere
  BY DEF TInv, Consistent, Phase, Copy, ApplierState
<1>1. UNCHANGED <<rollback, binary, running, good, before, left>>
  BY DEF Copy, history
<1>2. r.mode = "restore" =>
        KeptFile(r.from) \in Builds /\ (~left.crashed => KeptFile(r.from) \in left.sound)
  <2> SUFFICES ASSUME r.mode = "restore"
               PROVE  KeptFile(r.from) \in Builds /\ (~left.crashed => KeptFile(r.from) \in left.sound)
    OBVIOUS
  <2>1. PICK i \in DOMAIN rollback : rollback[i].name = r.from /\ rollback[i].file \in Builds
    BY <1>0 DEF Phase
  <2>2. KeptFile(r.from) = rollback[i].file
    BY <1>0, <2>1, KeptFileIs
  <2>3. ~left.crashed => rollback[i].file \in left.sound
    BY <1>0 DEF Consistent, Settled, Whole
  <2>4. QED BY <2>1, <2>2, <2>3
<1>3. r.mode = "rollback" /\ ~left.crashed => KeptFile(r.from) = good
  <2> SUFFICES ASSUME r.mode = "rollback", ~left.crashed PROVE KeptFile(r.from) = good
    OBVIOUS
  <2>1. NewestIs(r.from) /\ Newest.file = good
    BY <1>0 DEF Consistent, Settled, Sound
  <2>2. Len(rollback) \in DOMAIN rollback
    BY <1>0, <2>1 DEF ProgramOK, NewestIs
  <2>3. QED BY <1>0, <2>1, <2>2, KeptFileIs DEF NewestIs, Newest
<1>4. None \notin Builds
  BY Apart
<1>5. (Backups /\ good \in Builds /\ GoodIsThere)'
  BY <1>0, <1>1 DEF Backups, GoodIsThere
<1>6. CASE s.pc = "report"
  <2>1. Phase(s)'
    BY <1>6 DEF Phase, Replacing, Replaced
  <2>2. ASSUME ~left.crashed PROVE Settled(s)'
    <3>1. r.mode = "apply"
      BY <1>0, <1>2, <1>3, <1>4, <1>6, <2>2
    <3>2. Settled(r) /\ binary = good
      BY <1>0, <2>2, <3>1 DEF Consistent, Settled, Window
    <3>3. Sound(s)'
      BY <1>6 DEF Sound
    <3>4. UndoAt' /\ Whole(s)'
      BY <1>0, <1>1, <3>2 DEF Settled, UndoAt, Newest, Whole
    <3>5. QED BY <1>1, <3>2, <3>3, <3>4 DEF Settled
  <2>3. QED BY <1>1, <1>5, <2>1, <2>2 DEF Consistent
<1>7. CASE s.pc = "rename"
  <2>0. /\ s.mode = r.mode /\ s.from = r.from
        /\ tmp' = IF r.mode = "apply" THEN stagedBin ELSE KeptFile(r.from)
    BY <1>7
  <2>1. Phase(s)'
    BY <1>0, <1>1, <1>2, <1>7, <2>0
       DEF Phase, Replacing, Replaced, NewestIs, Newest, HasBackup, Version
  <2>2. ASSUME ~left.crashed PROVE Settled(s)'
    <3>1. Settled(r)
      BY <2>2 DEF Consistent
    <3>2. Sound(s)'
      BY <1>0, <1>1, <1>2, <1>3, <1>7, <2>0, <2>2 DEF Sound
    <3>3. UndoAt' /\ Whole(s)'
      BY <1>0, <1>1, <3>1 DEF Settled, UndoAt, Newest, Whole
    <3>4. (binary = good)' \/ Window(s)
      BY <1>0, <1>1, <1>7, <2>0, <3>1 DEF Settled, Window
    <3>5. QED BY <1>1, <3>1, <3>2, <3>3, <3>4 DEF Settled, Window
  <2>3. QED BY <1>1, <1>5, <2>1, <2>2 DEF Consistent
<1>8. QED BY <1>6, <1>7

\* The binary is replaced only where a backup is the known good build, or by
\* the one the operator chose.
LEMMA RenameConsistent ==
  ASSUME TInv, NEW a \in Appliers, Rename(a), NEW r \in ApplierState, r = app[a], Consistent(r),
         NEW s \in ApplierState,
         \/ tmp = None /\ UNCHANGED <<binary, tmp, good, before>> /\ s.pc = "report"
         \/ /\ tmp # None /\ binary' = tmp /\ tmp' = None
            /\ s.pc = "restart" /\ s.mode = r.mode /\ s.from = r.from
            /\ IF r.mode = "restore" THEN good' = tmp /\ before' = None
                                     ELSE good' = good /\ before' = before
  PROVE  Consistent(s)'
<1>0. /\ ProgramOK /\ Backups /\ r.pc = "rename" /\ r.mode \in {"apply", "rollback", "restore"}
      /\ good \in Builds /\ Phase(r) /\ GoodIsThere /\ None \notin Builds
  BY Apart DEF TInv, Consistent, Phase, Rename, ApplierState
<1>1. UNCHANGED <<rollback, running, left>>
  BY DEF Rename
<1>2. Backups'
  BY <1>0, <1>1 DEF Backups
<1>3. ~left.crashed => Settled(r)
  BY DEF Consistent
<1>4. CASE tmp = None
  <2>0. UNCHANGED <<binary, tmp, good, before>> /\ s.pc = "report"
    BY <1>4
  <2>1. (good \in Builds /\ GoodIsThere)'
    BY <1>0, <1>1, <2>0 DEF GoodIsThere
  <2>2. Phase(s)'
    BY <2>0 DEF Phase, Replacing, Replaced
  <2>3. ASSUME ~left.crashed PROVE Settled(s)'
    <3>1. Settled(r) /\ ~Window(r)
      BY <1>0, <1>3, <1>4, <2>3 DEF Settled, Sound, Window
    <3>2. Sound(s)'
      BY <2>0 DEF Sound
    <3>3. UndoAt' /\ Whole(s)' /\ (binary = good)' /\ (good \in left.sound)'
      BY <1>0, <1>1, <2>0, <3>1 DEF Settled, UndoAt, Newest, Whole
    <3>4. QED BY <3>2, <3>3 DEF Settled
  <2>4. QED BY <1>1, <1>2, <2>1, <2>2, <2>3 DEF Consistent
<1>5. CASE tmp # None
  <2>0. /\ binary' = tmp /\ tmp' = None /\ s.pc = "restart" /\ s.mode = r.mode /\ s.from = r.from
        /\ IF r.mode = "restore" THEN good' = tmp /\ before' = None
                                 ELSE good' = good /\ before' = before
    BY <1>5
  <2>1. r.mode # "restore" => HasBackup(good)
    <3>1. CASE r.mode = "rollback"
      BY <1>0, <3>1 DEF Phase, Replaced
    <3>2. CASE r.mode = "apply"
      <4>1. NewestIs(r.from) /\ Newest.file = binary
        BY <1>0, <3>2 DEF Phase, Replacing
      <4>2. Len(rollback) \in DOMAIN rollback
        BY <1>0, <4>1 DEF ProgramOK, NewestIs
      <4>3. QED BY <1>0, <4>1, <4>2 DEF GoodIsThere, HasBackup, Newest
    <3>3. QED BY <1>0, <3>1, <3>2
  <2>2. r.mode = "restore" => tmp \in Builds
    BY <1>0 DEF Phase
  <2>3. (good \in Builds /\ GoodIsThere)'
    BY <1>0, <1>1, <2>0, <2>1, <2>2 DEF GoodIsThere, HasBackup
  <2>4. Phase(s)'
    BY <1>1, <2>0, <2>1 DEF Phase, Replacing, Replaced, HasBackup
  <2>5. ASSUME ~left.crashed PROVE Settled(s)'
    <3>1. Settled(r)
      BY <1>3, <2>5
    <3>2. CASE r.mode = "apply"
      <4>1. binary = good /\ NewestIs(r.from) /\ Newest.file = good
        BY <1>0, <3>1, <3>2 DEF Settled, Window, Phase, Replacing
      <4>2. Sound(s)'
        BY <1>1, <2>0, <3>2, <4>1 DEF Sound, NewestIs, Newest
      <4>3. UndoAt' /\ Whole(s)' /\ (good \in left.sound)' /\ Window(s)
        BY <1>0, <1>1, <2>0, <3>1, <3>2 DEF Settled, UndoAt, Newest, Whole, Window
      <4>4. QED BY <4>2, <4>3 DEF Settled, Window
    <3>3. CASE r.mode = "rollback"
      <4>1. tmp = good
        BY <1>0, <3>1, <3>3 DEF Settled, Sound
      <4>2. Sound(s)'
        BY <2>0, <3>3 DEF Sound
      <4>3. UndoAt' /\ Whole(s)' /\ (binary = good)' /\ (good \in left.sound)'
        BY <1>0, <1>1, <2>0, <3>1, <3>3, <4>1 DEF Settled, UndoAt, Newest, Whole
      <4>4. QED BY <4>2, <4>3 DEF Settled
    <3>4. CASE r.mode = "restore"
      <4>1. tmp \in left.sound
        BY <1>0, <3>1, <3>4 DEF Settled, Sound
      <4>2. Sound(s)'
        BY <2>0, <3>4 DEF Sound
      <4>3. UndoAt' /\ Whole(s)' /\ (binary = good)' /\ (good \in left.sound)'
        BY <1>0, <1>1, <2>0, <3>1, <3>4, <4>1 DEF Settled, UndoAt, Whole
      <4>4. QED BY <4>2, <4>3 DEF Settled
    <3>5. QED BY <1>0, <3>2, <3>3, <3>4
  <2>6. QED BY <1>1, <1>2, <2>3, <2>4, <2>5 DEF Consistent
<1>6. QED BY <1>4, <1>5

\* The service runs what is installed.
LEMMA RestartConsistent ==
  ASSUME TInv, NEW a \in Appliers, Restart(a), NEW r \in ApplierState, r = app[a], Consistent(r),
         NEW s \in ApplierState,
         \/ r.mode = "rollback" /\ s.pc = "report"
         \/ r.mode # "rollback" /\ s.pc = "wait" /\ s.mode = r.mode /\ s.from = r.from
  PROVE  Consistent(s)'
<1>0. r.pc = "restart" /\ Backups /\ good \in Builds /\ GoodIsThere /\ Phase(r)
  BY DEF Consistent, Restart
<1>1. /\ UNCHANGED <<rollback, binary, tmp, good, before, left>>
      /\ running' = binary
  BY DEF Restart, Boot, history
<1>2. (Backups /\ good \in Builds /\ GoodIsThere)'
  BY <1>0, <1>1 DEF Backups, GoodIsThere
<1>3. Phase(s)'
  BY <1>0, <1>1 DEF Phase, Replacing, Replaced, HasBackup
<1>4. ASSUME ~left.crashed PROVE Settled(s)'
  <2>1. Settled(r)
    BY <1>4 DEF Consistent
  <2>2. Sound(s)'
    BY <1>0, <1>1, <2>1 DEF Settled, Sound, NewestIs, Newest
  <2>3. UndoAt' /\ Whole(s)' /\ (good \in left.sound)'
    BY <1>0, <1>1, <2>1 DEF Settled, UndoAt, Newest, Whole
  <2>4. (binary = good)' \/ Window(s)
    BY <1>0, <1>1, <2>1 DEF Settled, Window
  <2>5. QED BY <2>2, <2>3, <2>4 DEF Settled, Window
<1>5. QED BY <1>1, <1>2, <1>3, <1>4 DEF Consistent

\* The service has stayed up: that build is the good one now, and after an
\* update the newest backup is the one it replaced.
LEMMA HealthyConsistent ==
  ASSUME TInv, NEW a \in Appliers, Healthy(a), NEW r \in ApplierState, r = app[a], Consistent(r),
         NEW s \in ApplierState,
         \/ r.mode = "apply" /\ s.pc = "clean" /\ s.mode = "apply"
         \/ s.pc \in {"report", "begin"} /\ r.mode \in {"restore", "restart"}
  PROVE  Consistent(s)'
<1>0. /\ r.pc = "wait" /\ Backups /\ good \in Builds /\ Phase(r) /\ running = binary
      /\ running \in left.sound /\ left.sound \subseteq Builds /\ None \notin Builds /\ ProgramOK
  BY Apart DEF Consistent, Healthy, Phase, TInv, World
<1>1. /\ UNCHANGED <<rollback, binary, tmp, running, left>>
      /\ good' = running /\ before' = IF running = good THEN before ELSE good
  BY DEF Healthy, program
<1>2. (Backups /\ good \in Builds /\ GoodIsThere)'
  BY <1>0, <1>1 DEF Backups, GoodIsThere
<1>3. Phase(s)'
  BY <1>0, <1>1 DEF Phase, Replacing, Replaced
<1>4. ASSUME ~left.crashed PROVE Settled(s)'
  <2>1. Settled(r)
    BY <1>4 DEF Consistent
  <2>2. Sound(s)'
    BY DEF Sound
  <2>3. Whole(s)' /\ (good \in left.sound)' /\ (binary = good)'
    BY <1>0, <1>1, <2>1 DEF Settled, Whole
  <2>4. UndoAt'
    <3>1. CASE running = good
      BY <1>1, <2>1, <3>1 DEF Settled, UndoAt, Newest
    <3>2. CASE running # good
      <4>1. r.mode = "apply"
        BY <1>0, <2>1, <3>2 DEF Settled, Window
      <4>2. Len(rollback) > 0 /\ Newest.file = good
        BY <1>0, <2>1, <4>1 DEF Settled, Sound, NewestIs
      <4>3. QED BY <1>0, <1>1, <3>2, <4>2 DEF UndoAt, Newest
    <3>3. QED BY <3>1, <3>2
  <2>5. QED BY <2>2, <2>3, <2>4 DEF Settled
<1>5. QED BY <1>1, <1>2, <1>3, <1>4 DEF Consistent

\* The two newest backups hold what the last update replaced.
LEMMA CleanUpConsistent ==
  ASSUME TInv, NEW a \in Appliers, CleanUp(a), NEW r \in ApplierState, r = app[a], Consistent(r),
         NEW s \in ApplierState, s.pc = "report"
  PROVE  Consistent(s)'
<1>0. /\ r.pc = "clean" /\ Backups /\ good \in Builds /\ binary = good /\ ProgramOK
  BY DEF Consistent, CleanUp, Phase, TInv
<1>1. UNCHANGED <<binary, tmp, running, good, before, left>> /\ rollback' = pruned
  BY DEF CleanUp, program, history
<1> DEFINE q == rollback'
           n == Len(rollback)
<1>2. /\ q \in Seq(Backup)
      /\ n <= 2 => q = rollback
      /\ n > 2 => Len(q) = 2 /\ q[1] = rollback[n - 1] /\ q[2] = rollback[n]
  BY <1>0, <1>1, prunedIs DEF ProgramOK
<1>3. n \in Nat /\ DOMAIN rollback = 1..n /\ n = Len(rollback)
  BY <1>0 DEF ProgramOK
<1> HIDE DEF q, n
<1>4. ASSUME n > 2 PROVE DOMAIN q = {1, 2} /\ n - 1 \in 1..n /\ n \in 1..n /\ n - 1 # n
  <2>1. n \in Nat
    BY <1>3
  <2>2. n - 1 \in 1..n /\ n \in 1..n /\ n - 1 # n
    BY <1>4, <2>1
  <2>3. q \in Seq(Backup) /\ Len(q) = 2
    BY <1>2, <1>4
  <2>4. DOMAIN q = {1, 2}
    BY <2>3
  <2>5. QED BY <2>2, <2>4
<1>5. \A i \in DOMAIN q : \E j \in DOMAIN rollback : q[i] = rollback[j]
  <2>1. CASE n <= 2
    BY <1>2, <2>1
  <2>2. CASE n > 2
    BY <1>2, <1>3, <1>4, <2>2
  <2>3. QED BY <1>3, <2>1, <2>2
<1>6. \A i, j \in DOMAIN q : q[i].name = q[j].name => i = j
  <2>1. CASE n <= 2
    BY <1>0, <1>2, <2>1 DEF Backups
  <2>2. CASE n > 2
    <3>1. rollback[n - 1].name # rollback[n].name
      BY <1>0, <1>3, <1>4, <2>2 DEF Backups
    <3>2. QED BY <1>2, <1>4, <2>2, <3>1
  <2>3. QED BY <1>3, <2>1, <2>2
<1>7. Backups'
  BY <1>0, <1>5, <1>6 DEF q, Backups
<1>8. (good \in Builds /\ GoodIsThere)'
  BY <1>0, <1>1 DEF GoodIsThere
<1>9. Phase(s)'
  BY DEF Phase, Replacing, Replaced
<1>10. ASSUME ~left.crashed PROVE Settled(s)'
  <2>1. Settled(r)
    BY <1>10 DEF Consistent
  <2>2. Sound(s)'
    BY DEF Sound
  <2>3. Whole(s)'
    BY <1>0, <1>1, <1>5, <2>1 DEF q, Settled, Whole
  <2>4. UndoAt'
    <3> SUFFICES ASSUME before # None PROVE UndoAt'
      BY <1>1 DEF UndoAt
    <3>1. /\ before \in Builds /\ before # good /\ n > 0
          /\ \/ rollback[n].file = before
             \/ rollback[n].name = good /\ n > 1 /\ rollback[n - 1].file = before
      BY <1>3, <2>1 DEF Settled, UndoAt, Newest
    <3>2. CASE n <= 2
      BY <1>1, <1>2, <1>3, <3>1, <3>2 DEF q, UndoAt, Newest
    <3>3. CASE n > 2
      <4>1. Len(q) = 2 /\ q[1] = rollback[n - 1] /\ q[2] = rollback[n]
        BY <1>2, <3>3
      <4>2. Len(q) > 1 /\ Len(q) - 1 = 1
        BY <4>1
      <4>3. q[Len(q)] = rollback[n] /\ q[Len(q) - 1] = rollback[n - 1]
        BY <4>1, <4>2, Zenon
      <4>4. QED BY <1>1, <3>1, <4>2, <4>3 DEF q, UndoAt, Newest
    <3>4. QED BY <1>3, <3>2, <3>3
  <2>5. QED BY <1>0, <1>1, <2>1, <2>2, <2>3, <2>4 DEF Settled
<1>11. QED BY <1>1, <1>7, <1>8, <1>9, <1>10 DEF Consistent

\* Nobody is left who knows anything: what must hold then holds at any line.
LEMMA CutOffConsistent ==
  ASSUME NEW r, Consistent(r), NEW s, s.pc = "idle", left'.crashed = TRUE,
         UNCHANGED <<rollback, binary, good>>
  PROVE  Consistent(s)'
<1>1. (Backups /\ good \in Builds /\ GoodIsThere)'
  BY DEF Consistent, Backups, GoodIsThere
<1>2. Phase(s)'
  BY DEF Phase, Replacing, Replaced
<1>3. QED BY <1>1, <1>2 DEF Consistent

-----------------------------------------------------------------------------
(* Every step. *)

\* An idle record says nothing, whoever's it is.
LEMMA IdleAlike ==
  ASSUME NEW r, NEW s, r.pc = "idle", s.pc = "idle"
  PROVE  Consistent(r)' => Consistent(s)'
BY DEF Consistent, Phase, Settled, Sound, Whole, Window, Replacing, Replaced

\* The one at work goes on and everybody else is idle.
LEMMA TurnConsistent ==
  ASSUME AppliersOK, NEW a \in Appliers, AtWork(a), Turns(a),
         NEW s, s = app'[a], Consistent(s)'
  PROVE  UpdateInv'
<1>1. \A b \in Appliers \ {a} : app'[b].pc = "idle"
  BY Moves DEF AtWork
<1>2. ASSUME NEW b \in Appliers, NEW t \in ApplierState, (app[b] = t)', AtWork(b)'
      PROVE  Consistent(t)'
  <2>1. CASE b = a
    <3>1. t = s
      BY <1>2, <2>1
    <3>2. QED BY <3>1
  <2>2. CASE b # a
    <3>1. t.pc = "idle" /\ s.pc = "idle"
      BY <1>1, <1>2, <2>2 DEF AtWork
    <3>2. QED BY <3>1, IdleAlike
  <2>3. QED BY <2>1, <2>2
<1>3. QED BY <1>2 DEF UpdateInv

\* Nobody's turn, and nothing touched.
LEMMA StillInv ==
  ASSUME UpdateInv, Still, UNCHANGED app
  PROVE  UpdateInv'
<1>1. ASSUME NEW b \in Appliers, NEW t \in ApplierState, (app[b] = t)', AtWork(b)'
      PROVE  Consistent(t)'
  <2>1. Consistent(t)
    BY <1>1 DEF UpdateInv, AtWork
  <2>2. QED BY <2>1, StillConsistent
<1>2. QED BY <1>1 DEF UpdateInv

LEMMA ApplierConsistent ==
  ASSUME ~left.overlapped, TInv, WorkInv, UpdateInv, NEW a \in Appliers, ApplierNext(a)
  PROVE  UpdateInv'
<1>0. AppliersOK /\ AtWork(a) /\ Turns(a) /\ app[a] \in ApplierState /\ app'[a] \in ApplierState
  BY ApplierActs, ApplierTurns, Acts DEF TInv, AppliersOK, Turns
<1>1. PICK r \in ApplierState : r = app[a]
  BY <1>0
<1>2. PICK s \in ApplierState : s = app'[a]
  BY <1>0
<1>3. Consistent(r)
  BY <1>0, <1>1 DEF UpdateInv
<1>4. Phase(r) /\ (r.pc = "wait" => r.mode # "rollback") /\ r.mode \in {"apply", "rollback", "restore", "restart"}
  BY <1>3 DEF Consistent, Phase, ApplierState
<1>5. SUFFICES Consistent(s)'
  BY <1>0, <1>2, TurnConsistent
<1>6. CASE readRequest(a)
  <2>1. r.pc \in {"begin", "requests"} /\ Still
    BY <1>1, <1>6 DEF readRequest, Still, program, history
  <2>2. Resting(s)
    BY <1>2, <1>6, readRequestIs DEF Resting
  <2>3. QED BY <1>3, <2>1, <2>2, RestIs, StillConsistent DEF Window
<1>7. CASE Verify(a)
  <2>1. r.pc = "verify" /\ Still /\ r.mode = "apply"
    BY <1>1, <1>4, <1>7 DEF Verify, Still, program, history, Phase
  <2>2. \/ s.pc = "report"
        \/ s.pc = "backup" /\ s.mode = "apply" /\ s.from = Version(binary)
    BY <1>1, <1>2, <1>7, <2>1, VerifyIs
  <2>3. Consistent(s)
    BY <1>3, <2>1, <2>2, RestIs, VerifiedIs DEF Window, Resting
  <2>4. QED BY <2>1, <2>3, StillConsistent
<1>8. CASE BackUp(a)
  <2>1. s.pc = "backing" /\ s.mode = r.mode /\ s.from = r.from /\ s.src = binary
    BY <1>1, <1>2, <1>8, BackUpIs
  <2>2. QED BY <1>1, <1>3, <1>8, <2>1, BackUpConsistent
<1>9. CASE BackedUp(a)
  <2>1. s.pc = "copy" /\ s.mode = r.mode /\ s.from = r.from
    BY <1>0, <1>1, <1>2, <1>9, BackedUpIs
  <2>2. QED BY <1>1, <1>3, <1>9, <2>1, BackedUpConsistent
<1>10. CASE Copy(a)
  <2>1. /\ \/ s.pc = "report" /\ tmp' = None
           \/ /\ s.pc = "rename" /\ s.mode = r.mode /\ s.from = r.from
              /\ tmp' = IF r.mode = "apply" THEN stagedBin ELSE KeptFile(r.from)
    BY <1>0, <1>1, <1>2, <1>10, CopyIs
  <2>2. s.pc = "report" => (IF r.mode = "apply" THEN stagedBin ELSE KeptFile(r.from)) = None
    BY <1>1, <1>2, <1>10, <1>0, CopyFails
  <2>3. QED BY <1>1, <1>3, <1>10, <2>1, <2>2, CopyConsistent
<1>11. CASE Rename(a)
  <2>1. \/ tmp = None /\ UNCHANGED <<binary, tmp, good, before>> /\ s.pc = "report"
        \/ /\ tmp # None /\ binary' = tmp /\ tmp' = None
           /\ s.pc = "restart" /\ s.mode = r.mode /\ s.from = r.from
           /\ IF r.mode = "restore" THEN good' = tmp /\ before' = None
                                    ELSE good' = good /\ before' = before
    BY <1>0, <1>1, <1>2, <1>11, RenameIs
  <2>2. QED BY <1>1, <1>3, <1>11, <2>1, RenameConsistent
<1>12. CASE Restart(a)
  <2>1. \/ r.mode = "rollback" /\ s.pc = "report"
        \/ r.mode # "rollback" /\ s.pc = "wait" /\ s.mode = r.mode /\ s.from = r.from
    BY <1>0, <1>1, <1>2, <1>12, RestartIs
  <2>2. QED BY <1>1, <1>3, <1>12, <2>1, RestartConsistent
<1>13. CASE Healthy(a)
  <2>0. r.mode # "rollback"
    BY <1>1, <1>4, <1>13 DEF Healthy
  <2>1. \/ r.mode = "apply" /\ s.pc = "clean" /\ s.mode = "apply"
        \/ s.pc \in {"report", "begin"} /\ r.mode \in {"restore", "restart"}
    BY <1>1, <1>2, <1>13, <2>0, HealthyIs
  <2>2. QED BY <1>1, <1>3, <1>13, <2>1, HealthyConsistent
<1>14. CASE Unhealthy(a)
  <2>0. r.pc = "wait" /\ r.mode # "rollback" /\ Still
    BY <1>1, <1>4, <1>14 DEF Unhealthy, Still, program, history
  <2>1. \/ r.mode # "apply" /\ s.pc \in {"idle", "report"}
        \/ r.mode = "apply" /\ s.pc = "copy" /\ s.mode = "rollback" /\ s.from = r.from
    BY <1>1, <1>2, <1>14, <2>0, UnhealthyIs
  <2>2. Consistent(s)
    BY <1>3, <2>0, <2>1, RestIs, GoesBackIs DEF Window, Resting
  <2>3. QED BY <2>0, <2>2, StillConsistent
<1>15. CASE CleanUp(a)
  <2>1. s.pc = "report"
    BY <1>0, <1>2, <1>15, CleanUpIs
  <2>2. QED BY <1>1, <1>3, <1>15, <2>1, CleanUpConsistent
<1>16. CASE WriteResult(a)
  <2>1. r.pc = "report" /\ s.pc = "clear" /\ Still
    BY <1>0, <1>1, <1>2, <1>16, WriteResultIs DEF WriteResult, Still, program, history
  <2>2. QED BY <1>3, <2>1, RestIs, StillConsistent DEF Window, Resting
<1>17. CASE ClearRequest(a)
  <2>1. r.pc = "clear" /\ s.pc = "idle" /\ Still
    BY <1>0, <1>1, <1>2, <1>17, IdleIs DEF ClearRequest, Still, program, history
  <2>2. QED BY <1>3, <2>1, RestIs, StillConsistent DEF Window, Resting
<1>18. QED
  BY <1>6, <1>7, <1>8, <1>9, <1>10, <1>11, <1>12, <1>13, <1>14, <1>15, <1>16, <1>17 DEF ApplierNext

\* An applier that starts was idle before.
LEMMA StartConsistent ==
  ASSUME TInv, UpdateInv, NEW a \in Appliers, AtWork(a), Turns(a),
         Still, app[a].pc \in {"idle", "requests"},
         \/ app'[a].pc \in {"requests", "begin", "report"}
         \/ app'[a].pc = "restart" /\ app'[a].mode = "restart"
         \/ /\ app[a].pc = "idle" /\ app'[a].pc = "copy" /\ app'[a].mode = "restore"
            /\ Len(rollback) > 0 /\ app'[a].from = rollback[Len(rollback)].name
            /\ rollback[Len(rollback)].file \in Builds
  PROVE  UpdateInv'
<1>0. AppliersOK /\ ProgramOK /\ AtWork(a) /\ app[a] \in ApplierState /\ app'[a] \in ApplierState
  BY DEF TInv, AppliersOK, Turns
<1>1. PICK r \in ApplierState : r = app[a]
  BY <1>0
<1>2. PICK s \in ApplierState : s = app'[a]
  BY <1>0
<1>3. Consistent(r) /\ ~Window(r) /\ r.pc # "backing"
  BY <1>0, <1>1 DEF UpdateInv, Window
<1>4. \/ Resting(s)
      \/ /\ r.pc = "idle" /\ s.pc = "copy" /\ s.mode = "restore"
         /\ Len(rollback) > 0 /\ s.from = rollback[Len(rollback)].name
         /\ rollback[Len(rollback)].file \in Builds
  BY <1>1, <1>2 DEF Resting
<1>5. Consistent(s)
  BY <1>0, <1>3, <1>4, RestIs, RestoringIs
<1>6. Consistent(s)'
  BY <1>5, StillConsistent
<1>7. QED BY <1>0, <1>2, <1>6, TurnConsistent

LEMMA NextConsistent ==
  ASSUME ~left'.overlapped, TInv, WorkInv, ~left.overlapped => UpdateInv, [Next]_vars
  PROVE  UpdateInv'
<1>0. AppliersOK /\ WorldKept /\ left \in World /\ ~left.overlapped /\ UpdateInv
  BY WorldIsKept DEF TInv, WorldKept
<1>1. CASE UNCHANGED vars
  <2>1. Still /\ UNCHANGED app
    BY <1>1 DEF vars, Still, program, history
  <2>2. QED BY <1>0, <2>1, StillInv
<1>2. CASE State \/ RequestRestart
  <2>1. Still /\ UNCHANGED app
    BY <1>0, <1>2 DEF State, RequestRestart, Still, program, history, WorldKept, World
  <2>2. QED BY <1>0, <2>1, StillInv
<1>3. ASSUME NEW j \in Jobs, NEW b \in Builds,
             Check(j) \/ NoSuchBuild(j) \/ Stage(j, b) \/ JobNext(j)
      PROVE  UpdateInv'
  <2>0. Still
    <3>1. /\ UNCHANGED <<rollback, program, history>>
          /\ \/ UNCHANGED left \/ left' = [left EXCEPT !.stages = @ - 1]
             \/ left' = Started(j)
      BY <1>3 DEF Check, NoSuchBuild, Stage, JobNext, Checked, Extract, Extracted, WriteManifest,
         setFailed, RequestApply, WriteRequest, Applying
    <3>2. QED BY <1>0, <3>1 DEF Still, program, history, World, Started
  <2>1. CASE UNCHANGED app
    BY <1>0, <2>0, <2>1, StillInv
  <2>2. CASE Applying(j) /\ j \in Commands
    <3>1. j \in Appliers /\ Goto(j, "begin") /\ job[j].pc # "idle"
      BY <2>2 DEF Applying, Goto, Appliers, At
    <3>2. app[j].pc = "idle" /\ AtWork(j)
      BY <1>0, <2>2, <3>1, StartsAlone DEF WorkInv, Applying
    <3>3. Turns(j) /\ app'[j].pc = "begin"
      BY <1>0, <3>1, GotoIs DEF ApplierPC
    <3>4. QED BY <1>0, <2>0, <3>1, <3>2, <3>3, StartConsistent
  <2>3. UNCHANGED app \/ (Applying(j) /\ j \in Commands)
    BY <1>3 DEF Check, NoSuchBuild, Stage, JobNext, Checked, Extract, Extracted, WriteManifest,
       setFailed, RequestApply, WriteRequest, Applying
  <2>4. QED BY <2>1, <2>2, <2>3
<1>4. CASE UnitStarts
  <2>1. /\ "unit" \in Appliers /\ Turns("unit")
        /\ app["unit"].pc = "idle" /\ app'["unit"].pc = "requests"
    BY <1>0, <1>4, UnitStartsIs DEF UnitStarts, Appliers
  <2>2. AtWork("unit")
    BY <1>0, <1>4, <2>1, StartsAlone DEF UnitStarts
  <2>3. Still
    BY <1>0, <1>4 DEF UnitStarts, Started, Still, program, history, World
  <2>4. QED BY <1>0, <2>1, <2>2, <2>3, StartConsistent
<1>5. CASE RestartRequested
  <2>1. /\ "unit" \in Appliers /\ Turns("unit") /\ Still /\ app["unit"].pc = "requests"
        /\ app'["unit"].pc = "restart" /\ app'["unit"].mode = "restart"
    BY <1>0, <1>5, RestartRequestedIs DEF RestartRequested, Appliers, Still, program, history
  <2>2. AtWork("unit")
    BY <1>0, <2>1, Acts
  <2>3. QED BY <1>0, <2>1, <2>2, StartConsistent
<1>6. ASSUME NEW c \in Commands, Restore(c) PROVE UpdateInv'
  <2>1. /\ Turns(c) /\ c \in Appliers /\ app[c].pc = "idle"
        /\ \/ app'[c].pc = "report"
           \/ /\ app'[c].pc = "copy" /\ app'[c].mode = "restore"
              /\ Len(rollback) > 0 /\ app'[c].from = rollback[Len(rollback)].name
              /\ rollback[Len(rollback)].file \in Builds
    BY <1>6, RestoreIs DEF Restore
  <2>2. Still
    BY <1>0, <1>6 DEF Restore, Started, Still, program, history, World
  <2>3. AtWork(c)
    BY <1>0, <1>6, <2>1, RestoresAlone
  <2>4. QED BY <1>0, <2>1, <2>2, <2>3, StartConsistent
<1>7. CASE Reboot
  <2>1. /\ left'.crashed = TRUE /\ UNCHANGED <<rollback, binary, good>>
        /\ \A b \in Appliers : app'[b].pc = "idle"
    BY <1>0, <1>7 DEF Reboot, Boot, history, IdleApplier, World
  <2>2. PICK a \in Appliers, r \in ApplierState : Consistent(r)
    <3>1. PICK a \in Appliers : AtWork(a)
      BY <1>0, Acts DEF Appliers, AtWork
    <3>2. QED BY <1>0, <3>1 DEF UpdateInv, AppliersOK
  <2>3. QED BY <2>1, <2>2, CutOffConsistent DEF UpdateInv
<1>8. ASSUME NEW a \in Appliers, Crash(a) PROVE UpdateInv'
  <2>1. /\ app[a].pc # "idle" /\ Turns(a) /\ app'[a].pc = "idle" /\ AtWork(a)
        /\ app[a] \in ApplierState /\ app'[a] \in ApplierState
    BY <1>0, <1>8, IdleIs, Acts DEF Crash, AppliersOK, Turns
  <2>2. left'.crashed = TRUE /\ UNCHANGED <<rollback, binary, good>>
    BY <1>0, <1>8 DEF Crash, program, history, World
  <2>3. PICK r \in ApplierState : r = app[a]
    BY <2>1
  <2>4. PICK s \in ApplierState : s = app'[a]
    BY <2>1
  <2>5. Consistent(r)
    BY <1>0, <2>1, <2>3 DEF UpdateInv
  <2>6. Consistent(s)'
    BY <2>1, <2>2, <2>4, <2>5, CutOffConsistent
  <2>7. QED BY <1>0, <2>1, <2>4, <2>6, TurnConsistent
<1>9. First \in Builds
  BY Apart
<1>10. ASSUME Next PROVE UpdateInv'
  BY <1>0, <1>2, <1>3, <1>4, <1>5, <1>6, <1>7, <1>8, <1>9, <1>10, ApplierConsistent DEF Next
<1>11. QED BY <1>1, <1>10

-----------------------------------------------------------------------------
(* What it is for. *)

UInv == TInv /\ WorkInv /\ (~left.overlapped => UpdateInv)

LEMMA Inductive == Spec => []UInv
<1>1. Init => UInv
  BY InitTyped, InitWork, InitConsistent DEF UInv
<1>2. UInv /\ [Next]_vars => UInv'
  BY NextTyped, NextWork, NextConsistent DEF UInv
<1>3. QED BY <1>1, <1>2, PTL DEF Spec

\* Somebody's record is consistent with the files at every moment.
LEMMA SomebodyIsAtWork ==
  ASSUME ~left.overlapped, UInv
  PROVE  \E a \in Appliers : AtWork(a) /\ app[a] \in ApplierState /\ Consistent(app[a])
<1>1. PICK a \in Appliers : AtWork(a)
  BY Acts DEF UInv, Appliers, AtWork
<1>2. app[a] \in ApplierState
  BY DEF UInv, TInv, AppliersOK
<1>3. QED BY <1>1, <1>2 DEF UInv, UpdateInv

\* Until two appliers meet, the build last seen healthy, or last chosen by the
\* operator, is installed or kept whole at every step of every update, rollback
\* and restore, wherever the applier or the machine is cut off: the order of
\* copyFile and installBinary in Apply never leaves the machine with nothing to
\* go back to.
THEOREM KnownGoodIsKept == Spec => []KnownGoodKept
<1>1. UInv => KnownGoodKept
  BY SomebodyIsAtWork DEF Consistent, KnownGoodKept
<1>2. QED BY <1>1, Inductive, PTL

\* Until something crashes or two appliers meet, an outcome that says the
\* update worked, or that the old version is back, is reported over a binary
\* that stays up (Apply, rollback and Restore), whatever was staged meanwhile.
THEOREM ReportsAreTrue == Spec => []OutcomeIsSound
<1>1. ASSUME UInv, ~left.crashed, ~left.overlapped,
             NEW a \in Appliers, app[a].pc \in {"report", "clear"}
      PROVE  binary \in left.sound
  <2>1. AtWork(a) /\ app[a] \in ApplierState
    BY <1>1, Acts DEF UInv, TInv, AppliersOK
  <2>2. Settled(app[a])
    BY <1>1, <2>1 DEF UInv, UpdateInv, Consistent
  <2>3. QED BY <1>1, <2>2 DEF Settled, Window
<1>2. UInv => OutcomeIsSound
  BY <1>1 DEF OutcomeIsSound, ReportedIsSound
<1>3. QED BY <1>2, Inductive, PTL

\* Until something crashes or two appliers meet, the build that the last
\* successful update replaced is installed or among the backups, also when
\* pruneRollbacks has run and bad releases were tried in between.
THEOREM UndoIsPossible == Spec => []UndoPossible
<1>1. ASSUME UInv, before # None, ~left.crashed, ~left.overlapped
      PROVE  \E i \in DOMAIN rollback : rollback[i].file = before
  <2>1. UndoAt
    BY <1>1, SomebodyIsAtWork DEF Consistent, Settled
  <2>2. rollback \in Seq(Backup)
    BY <1>1 DEF UInv, TInv, ProgramOK
  <2>3. Len(rollback) > 0 => Len(rollback) \in DOMAIN rollback
    BY <2>2
  <2>4. Len(rollback) > 1 => Len(rollback) - 1 \in DOMAIN rollback
    BY <2>2
  <2>5. QED BY <1>1, <2>1, <2>3, <2>4 DEF UndoAt, Newest
<1>2. UInv => UndoPossible
  BY <1>1 DEF UndoPossible
<1>3. QED BY <1>2, Inductive, PTL
=============================================================================
