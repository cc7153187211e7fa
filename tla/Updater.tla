------------------------------ MODULE Updater ------------------------------
(***************************************************************************)
(* The updater (internal/update, cmd/revpd/update.go): two halves that     *)
(* meet in a directory.  A Manager, in the service or in a command, stages *)
(* a verified release and leaves apply.request; the applier, started by a  *)
(* path unit or by the root command that staged, replaces the binary,      *)
(* restarts the service, watches it and keeps or undoes the change.        *)
(* Neither half takes a lock the other sees, and an applier may die        *)
(* between any two of its steps.                                           *)
(*                                                                         *)
(* A build stands for its release tag, its hash and its file.  Sound ones  *)
(* stay up when started; any build may be slow enough to be given up on.   *)
(***************************************************************************)
EXTENDS Sequences, SequencesExt, Naturals

CONSTANTS
    Builds,       \* the releases of this gateway
    First,        \* the one installed at the beginning
    Torn,         \* a file somebody is in the middle of writing
    None,         \* no such file
    Unknown,      \* the version of a binary that does not run
    ServiceJobs,  \* the service's goroutines: install button and timer
    Commands,     \* root `revpd update install` / `rollback` processes
    Worlds        \* which builds stay up once started, who is at work, whether
                  \* revpd-update.path is installed, and how often things may
                  \* happen: the bounds of the run

ASSUME UpdaterAssumption ==
    /\ First \in Builds
    /\ {Torn, None, Unknown} \cap Builds = {}
    /\ Torn # None /\ Torn # Unknown /\ None # Unknown
    /\ ServiceJobs \cap Commands = {}
    /\ {"unit", "service"} \cap (ServiceJobs \cup Commands) = {}
    /\ Worlds \subseteq
         [sound : {s \in SUBSET Builds : First \in s},
          jobs : SUBSET (ServiceJobs \cup Commands), pathUnit : BOOLEAN,
          stages : Nat, crashes : Nat, restarts : Nat, restores : Nat,
          crashed : {FALSE}, overlapped : {FALSE}]

VARIABLES
    stagedBin, manifest,     \* staged/revpd and staged/manifest.json
    request,                 \* apply.request
    restartRequest,          \* restart.request
    result,                  \* result.json
    rollback,                \* rollback/revpd-<version>, oldest first
    binary,                  \* /usr/local/bin/revpd
    tmp,                     \* /usr/local/bin/.revpd.new
    running,                 \* the binary the service was last started from
    mem,                     \* State of every Manager: phase and Staged
    saved,                   \* state.json
    job,                     \* what every staging goroutine or command is doing
    app,                     \* what every applier is doing
    good,                    \* history: the build last seen healthy
    before,                  \* history: the good one the last update replaced
    left                     \* the world, with the bounds that remain;
                             \* history: whether anything crashed, whether two
                             \* appliers were ever at work at once

staging == <<stagedBin, manifest>>
program == <<binary, tmp, running>>
manager == <<mem, saved>>
history == <<good, before>>
vars == <<staging, request, restartRequest, result, rollback, program,
          manager, job, app, history, left>>

Jobs == ServiceJobs \cup Commands
Appliers == {"unit"} \cup Commands
Managers == {"service"} \cup Commands
Manager(j) == IF j \in Commands THEN j ELSE "service"

Release == [version : Builds, sha256 : Builds]
File == Builds \cup {Torn}
Version(f) == IF f \in Builds THEN f ELSE Unknown

IdleJob == [pc |-> "idle", what |-> None]
IdleApplier == [pc |-> "idle", mode |-> "apply", req |-> None,
                from |-> Unknown, src |-> None, outcome |-> "none"]
Fresh == [phase |-> "idle", staged |-> None]

Init ==
    /\ stagedBin = None /\ manifest = None
    /\ request = None /\ restartRequest = FALSE /\ result = None
    /\ rollback = <<>>
    /\ binary = First /\ tmp = None /\ running = First
    /\ mem = [m \in Managers |-> Fresh] /\ saved = Fresh
    /\ job = [j \in Jobs |-> IdleJob]
    /\ app = [a \in Appliers |-> IdleApplier]
    /\ good = First /\ before = None
    /\ left \in Worlds

----------------------------------------------------------------------------
(* The Manager.                                                            *)

\* The service runs its goroutines while its process is up.
Alive(j) == j \in left.jobs /\ (j \in Commands \/ running # Torn)

At(j, pc) == job[j].pc = pc /\ Alive(j)
Step(j, pc) == job' = [job EXCEPT ![j].pc = pc]

\* update(f): change the state under the mutex and save it.
Save(m, st) == mem' = [mem EXCEPT ![m] = st] /\ saved' = st

\* absorbResultLocked: what the applier left behind, picked up once.
Absorbed(st) ==
    IF result = None THEN st
    ELSE [phase |-> IF result.ok THEN "idle" ELSE "failed", staged |-> None]

\* loadState: a phase that died with the old process goes back to idle.
loadState ==
    IF saved.phase \in {"checking", "downloading"}
    THEN [saved EXCEPT !.phase = "idle"] ELSE saved

\* The busy mutex serialises Check and Stage, within one process only.
Busy(m) == \E j \in Jobs : /\ Manager(j) = m
                           /\ job[j].pc \in {"checking", "downloading",
                                             "extracting", "extracted"}

\* State(): somebody looks at the dashboard.
State ==
    /\ running # Torn /\ result # None
    /\ Save("service", Absorbed(mem["service"]))
    /\ result' = None
    /\ UNCHANGED <<staging, request, restartRequest, rollback, program, job,
                   app, history, left>>

Check(j) ==
    /\ j \in ServiceJobs /\ At(j, "idle") /\ ~Busy("service")
    /\ left.stages > 0
    /\ left' = [left EXCEPT !.stages = @ - 1]
    /\ LET st == mem["service"] IN
       Save("service", IF st.phase \in {"idle", "failed"}
                       THEN [st EXCEPT !.phase = "checking"] ELSE st)
    /\ Step(j, "checking")
    /\ UNCHANGED <<staging, request, restartRequest, result, rollback,
                   program, app, history>>

\* The answer, or recordCheckError when there is none.
Checked(j) ==
    /\ At(j, "checking")
    /\ LET st == mem["service"]
           settled == IF st.phase = "checking"
                      THEN [st EXCEPT !.phase = "idle"] ELSE st
       IN  Save("service", settled)
             \/ /\ st.staged # None
                /\ Save("service", [settled EXCEPT !.phase = "staged"])
    /\ Step(j, "idle")
    /\ UNCHANGED <<staging, request, restartRequest, result, rollback,
                   program, app, history, left>>

\* Stage up to the download.  A command is a new process, whose NewManager
\* loads state.json and absorbs a result first.
Stage(j, b) ==
    /\ At(j, "idle") /\ ~Busy(Manager(j)) /\ left.stages > 0
    /\ j \in Commands => app[j].pc = "idle"
    /\ left' = [left EXCEPT !.stages = @ - 1]
    /\ LET st == IF j \in Commands THEN Absorbed(loadState)
                                   ELSE mem["service"]
       IN  Save(Manager(j), [st EXCEPT !.phase = "downloading"])
    /\ result' = IF j \in Commands THEN None ELSE result
    /\ stagedBin' = None /\ manifest' = None
    /\ job' = [job EXCEPT ![j] = [pc |-> "downloading",
                                  what |-> [version |-> b, sha256 |-> b]]]
    /\ UNCHANGED <<request, restartRequest, rollback, program, app, history>>

\* Stage returns before it touches the directory: no such release, or no
\* build of it for this machine.
NoSuchBuild(j) ==
    /\ At(j, "idle") /\ ~Busy(Manager(j)) /\ left.stages > 0
    /\ j \in Commands => app[j].pc = "idle"
    /\ left' = [left EXCEPT !.stages = @ - 1]
    /\ LET st == IF j \in Commands THEN Absorbed(loadState)
                                   ELSE mem["service"]
       IN  Save(Manager(j), [st EXCEPT !.phase = "failed"])
    /\ result' = IF j \in Commands THEN None ELSE result
    /\ UNCHANGED <<staging, request, restartRequest, rollback, program, job,
                   app, history>>

\* extractBinary opens and truncates the file, then fills it.
Extract(j) ==
    /\ At(j, "downloading")
    /\ stagedBin' = Torn
    /\ Step(j, "extracting")
    /\ UNCHANGED <<manifest, request, restartRequest, result, rollback,
                   program, manager, app, history, left>>

\* The file may be unlinked by now, or share its inode with another's.
Extracted(j) ==
    /\ At(j, "extracting")
    /\ stagedBin' \in
          IF stagedBin = None THEN {None}
          ELSE {job[j].what.version}
               \cup {Torn : k \in {k \in Jobs \ {j} : job[k].pc = "extracting"}}
    /\ Step(j, "extracted")
    /\ UNCHANGED <<manifest, request, restartRequest, result, rollback,
                   program, manager, app, history, left>>

\* The end of Stage: hash what is there, write the manifest, remember both.
WriteManifest(j) ==
    /\ At(j, "extracted") /\ stagedBin \in Builds
    /\ LET what == [job[j].what EXCEPT !.sha256 = stagedBin] IN
       /\ manifest' = what
       /\ Save(Manager(j), [phase |-> "staged", staged |-> what])
    /\ Step(j, "staged")
    /\ UNCHANGED <<stagedBin, request, restartRequest, result, rollback,
                   program, app, history, left>>

\* setFailed: a download, a checksum, an archive or a file that is not there.
setFailed(j) ==
    /\ At(j, "downloading") \/ At(j, "extracted")
    /\ LET m == Manager(j) IN Save(m, [mem[m] EXCEPT !.phase = "failed"])
    /\ job' = [job EXCEPT ![j] = IdleJob]
    /\ UNCHANGED <<staging, request, restartRequest, result, rollback,
                   program, app, history, left>>

\* RequestApply, first half: State() absorbs a result and returns Staged.
RequestApply(j) ==
    /\ At(j, "staged")
    /\ LET m == Manager(j)
           st == Absorbed(mem[m])
       IN  /\ IF result = None THEN UNCHANGED manager ELSE Save(m, st)
           /\ job' = [job EXCEPT ![j] =
                IF st.staged = None THEN IdleJob
                ELSE [pc |-> "asking", what |-> st.staged]]
    /\ result' = None
    /\ UNCHANGED <<staging, request, restartRequest, rollback, program, app,
                   history, left>>

WriteRequest(j) ==
    /\ At(j, "asking")
    /\ request' = job[j].what
    /\ Step(j, "asked")
    /\ UNCHANGED <<staging, restartRequest, result, rollback, program,
                   manager, app, history, left>>

\* Nothing keeps one applier from starting while another is at work.
Started(a) ==
    [left EXCEPT !.overlapped =
        @ \/ \E b \in Appliers \ {a} : app[b].pc # "idle"]

\* Its last line; the command goes on with applyStaged in its own process.
Applying(j) ==
    /\ At(j, "asked")
    /\ LET m == Manager(j) IN Save(m, [mem[m] EXCEPT !.phase = "applying"])
    /\ job' = [job EXCEPT ![j] = IdleJob]
    /\ IF j \in Commands
       THEN app' = [app EXCEPT ![j].pc = "begin"] /\ left' = Started(j)
       ELSE UNCHANGED <<app, left>>
    /\ UNCHANGED <<staging, request, restartRequest, result, rollback,
                   program, history>>

RequestRestart ==
    /\ running # Torn /\ left.restarts > 0
    /\ left' = [left EXCEPT !.restarts = @ - 1]
    /\ restartRequest' = TRUE
    /\ UNCHANGED <<staging, request, result, rollback, program, manager, job,
                   app, history>>

----------------------------------------------------------------------------
(* The applier.                                                            *)

Goto(a, pc) == app' = [app EXCEPT ![a].pc = pc]

\* fail, finish and rollback all end in a result and a cleared request.
Ends(a, outcome) ==
    app' = [app EXCEPT ![a] = [@ EXCEPT !.pc = "report", !.outcome = outcome]]

\* PathExistsGlob: a request is there and the unit is not running.  The
\* unit executes the installed binary, which must be whole.
UnitStarts ==
    /\ left.pathUnit /\ app["unit"].pc = "idle"
    /\ request # None \/ restartRequest
    /\ binary # Torn
    /\ Goto("unit", "requests") /\ left' = Started("unit")
    /\ UNCHANGED <<staging, request, restartRequest, result, rollback,
                   program, manager, job, history>>

RestartRequested ==
    /\ app["unit"].pc = "requests" /\ restartRequest
    /\ restartRequest' = FALSE
    /\ app' = [app EXCEPT !["unit"] =
                 [IdleApplier EXCEPT !.pc = "restart", !.mode = "restart"]]
    /\ UNCHANGED <<staging, request, result, rollback, program, manager, job,
                   history, left>>

readRequest(a) ==
    /\ \/ app[a].pc = "begin"
       \/ app[a].pc = "requests" /\ ~restartRequest
    /\ app' = [app EXCEPT ![a] =
                 IF request = None THEN IdleApplier
                 ELSE [IdleApplier EXCEPT !.pc = "verify", !.req = request]]
    /\ UNCHANGED <<staging, request, restartRequest, result, rollback,
                   program, manager, job, history, left>>

\* Manifest, hash and version of what is staged against the request.
Verified(req) ==
    /\ manifest # None
    /\ manifest = req
    /\ stagedBin = req.sha256
    /\ Version(stagedBin) = req.version

\* Mutant: a refusal returns without finish.
VerifyReturns(a) ==
    /\ app[a].pc = "verify"
    /\ app' = [app EXCEPT ![a] =
                 IF Verified(app[a].req)
                 THEN [@ EXCEPT !.pc = "backup", !.from = Version(binary)]
                 ELSE IdleApplier]
    /\ UNCHANGED <<staging, request, restartRequest, result, rollback,
                   program, manager, job, history, left>>

Verify(a) ==
    /\ app[a].pc = "verify"
    /\ IF Verified(app[a].req)
       THEN app' = [app EXCEPT ![a] = [@ EXCEPT !.pc = "backup",
                                                !.from = Version(binary)]]
       ELSE Ends(a, "failed")
    /\ UNCHANGED <<staging, request, restartRequest, result, rollback,
                   program, manager, job, history, left>>

Kept(name) == {i \in DOMAIN rollback : rollback[i].name = name}
KeptFile(name) == IF Kept(name) = {} THEN None
                  ELSE rollback[CHOOSE i \in Kept(name) : TRUE].file

\* Mutant: a backup of that version that is already there is kept.
BackUpOnce(a) ==
    /\ app[a].pc = "backup"
    /\ IF Kept(app[a].from) # {}
       THEN Goto(a, "copy") /\ UNCHANGED rollback
       ELSE /\ rollback' = Append(rollback, [name |-> app[a].from,
                                            file |-> Torn])
            /\ app' = [app EXCEPT ![a] =
                         [@ EXCEPT !.pc = "backing", !.src = binary]]
    /\ UNCHANGED <<staging, request, restartRequest, result, program,
                   manager, job, history, left>>

\* The other backups, by age: a name is there at most once.
Others(name) ==
    IF Kept(name) = {} THEN rollback
    ELSE RemoveAt(rollback, CHOOSE i \in Kept(name) : TRUE)

\* copyFile to rollback/revpd-<previous>: truncated in place, then filled.
BackUp(a) ==
    /\ app[a].pc = "backup"
    /\ rollback' = Append(Others(app[a].from), [name |-> app[a].from, file |-> Torn])
    /\ app' = [app EXCEPT ![a] = [@ EXCEPT !.pc = "backing", !.src = binary]]
    /\ UNCHANGED <<staging, request, restartRequest, result, program,
                   manager, job, history, left>>

BackedUp(a) ==
    /\ app[a].pc = "backing"
    /\ rollback' = [i \in DOMAIN rollback |->
                      IF i \in Kept(app[a].from)
                      THEN [rollback[i] EXCEPT !.file = app[a].src]
                      ELSE rollback[i]]
    /\ Goto(a, "copy")
    /\ UNCHANGED <<staging, request, restartRequest, result, program,
                   manager, job, history, left>>

\* Restore, up to its check that the backup runs: the newest one is chosen.
Restore(c) ==
    /\ c \in left.jobs /\ app[c].pc = "idle" /\ job[c].pc = "idle"
    /\ left.restores > 0 /\ rollback # <<>>
    /\ left' = [Started(c) EXCEPT !.restores = @ - 1]
    /\ LET k == Last(rollback) IN
       app' = [app EXCEPT ![c] =
                 IF k.file \in Builds
                 THEN [IdleApplier EXCEPT !.pc = "copy", !.mode = "restore",
                                          !.from = k.name]
                 ELSE [IdleApplier EXCEPT !.pc = "report",
                                          !.outcome = "failed"]]
    /\ UNCHANGED <<staging, request, restartRequest, result, rollback,
                   program, manager, job, history>>

\* installBinary: a copy beside the target, then a rename over it.
Copy(a) ==
    /\ app[a].pc = "copy"
    /\ LET src == IF app[a].mode = "apply" THEN stagedBin
                                           ELSE KeptFile(app[a].from)
       IN  IF src = None THEN Ends(a, "failed") /\ tmp' = None
                         ELSE Goto(a, "rename") /\ tmp' = src
    /\ UNCHANGED <<staging, request, restartRequest, result, rollback, binary,
                   running, manager, job, history, left>>

Rename(a) ==
    /\ app[a].pc = "rename"
    /\ IF tmp = None
       THEN Ends(a, "failed") /\ UNCHANGED <<binary, tmp, history>>
       ELSE /\ binary' = tmp /\ tmp' = None
            /\ Goto(a, "restart")
            /\ IF app[a].mode = "restore"
               THEN good' = tmp /\ before' = None    \* the operator's choice
               ELSE UNCHANGED history
    /\ UNCHANGED <<staging, request, restartRequest, result, rollback,
                   running, manager, job, left>>

\* A new service process: its Manager reads state.json and a waiting result.
Boot ==
    /\ running' = binary
    /\ IF binary = Torn
       THEN UNCHANGED <<manager, result>>
       ELSE /\ mem' = [mem EXCEPT !["service"] = Absorbed(loadState)]
            /\ saved' = IF result = None THEN saved ELSE Absorbed(loadState)
            /\ result' = None

\* systemctl restart.  rollback() trusts the old binary and does not wait.
Restart(a) ==
    /\ app[a].pc = "restart"
    /\ Boot
    /\ job' = [j \in Jobs |-> IF j \in ServiceJobs THEN IdleJob ELSE job[j]]
    /\ IF app[a].mode = "rollback" THEN Ends(a, "rolled_back")
                                   ELSE Goto(a, "wait")
    /\ UNCHANGED <<staging, request, restartRequest, rollback, binary, tmp,
                   history, left>>

\* Mutant: "active" once is good enough.
ActiveOnce(a) ==
    /\ app[a].pc = "wait" /\ running # Torn
    /\ CASE app[a].mode = "apply"   -> Goto(a, "clean")
         [] app[a].mode = "restore" -> Ends(a, "ok")
         [] app[a].mode = "restart" -> Goto(a, "begin")
    /\ good' = running
    /\ before' = IF running = good THEN before ELSE good
    /\ UNCHANGED <<staging, request, restartRequest, result, rollback,
                   program, manager, job, left>>

\* waitHealthy: up long enough ...
Healthy(a) ==
    /\ app[a].pc = "wait" /\ running \in left.sound
    /\ CASE app[a].mode = "apply"   -> Goto(a, "clean")
         [] app[a].mode = "restore" -> Ends(a, "ok")
         [] app[a].mode = "restart" -> Goto(a, "begin")
    /\ good' = running
    /\ before' = IF running = good THEN before ELSE good
    /\ UNCHANGED <<staging, request, restartRequest, result, rollback,
                   program, manager, job, left>>

\* ... or failed, or not settled by the deadline.
Unhealthy(a) ==
    /\ app[a].pc = "wait"
    /\ CASE app[a].mode = "apply"   -> app' = [app EXCEPT ![a] =
                [@ EXCEPT !.pc = "copy", !.mode = "rollback"]]
         [] app[a].mode = "restore" -> Ends(a, "failed")
         [] app[a].mode = "restart" -> app' = [app EXCEPT ![a] = IdleApplier]
    /\ UNCHANGED <<staging, request, restartRequest, result, rollback,
                   program, manager, job, history, left>>

\* Mutant: the comparison of ages the wrong way round.
prunedWrongWay == SubSeq(rollback, 1, IF Len(rollback) > 2 THEN 2
                                                         ELSE Len(rollback))

\* pruneRollbacks keeps the two newest.
pruned == SubSeq(rollback, IF Len(rollback) > 2 THEN Len(rollback) - 1 ELSE 1,
                 Len(rollback))

CleanUp(a) ==
    /\ app[a].pc = "clean"
    /\ stagedBin' = None /\ manifest' = None
    /\ rollback' = pruned
    /\ Ends(a, "ok")
    /\ UNCHANGED <<request, restartRequest, result, program, manager, job,
                   history, left>>

\* finish: the result first, then the request, whichever it is by now.
WriteResult(a) ==
    /\ app[a].pc = "report"
    /\ result' = [ok |-> app[a].outcome = "ok",
                  rolledBack |-> app[a].outcome = "rolled_back"]
    /\ Goto(a, "clear")
    /\ UNCHANGED <<staging, request, restartRequest, rollback, program,
                   manager, job, history, left>>

ClearRequest(a) ==
    /\ app[a].pc = "clear"
    /\ request' = None
    /\ app' = [app EXCEPT ![a] = IdleApplier]
    /\ UNCHANGED <<staging, restartRequest, result, rollback, program,
                   manager, job, history, left>>

\* The applier is killed, or the machine reboots and the service starts anew.
Crash(a) ==
    /\ app[a].pc # "idle" /\ left.crashes > 0
    /\ left' = [left EXCEPT !.crashes = @ - 1, !.crashed = TRUE]
    /\ app' = [app EXCEPT ![a] = IdleApplier]
    /\ UNCHANGED <<staging, request, restartRequest, result, rollback,
                   program, manager, job, history>>

Reboot ==
    /\ left.crashes > 0
    /\ left' = [left EXCEPT !.crashes = @ - 1, !.crashed = TRUE]
    /\ Boot
    /\ app' = [a \in Appliers |-> IdleApplier]
    /\ job' = [j \in Jobs |-> IdleJob]
    /\ UNCHANGED <<staging, request, restartRequest, rollback, binary, tmp,
                   history>>

----------------------------------------------------------------------------
JobNext(j) ==
    \/ Checked(j) \/ Extract(j) \/ Extracted(j) \/ WriteManifest(j)
    \/ setFailed(j) \/ RequestApply(j) \/ WriteRequest(j) \/ Applying(j)

ApplierNext(a) ==
    \/ readRequest(a) \/ Verify(a) \/ BackUp(a) \/ BackedUp(a) \/ Copy(a)
    \/ Rename(a) \/ Restart(a) \/ Healthy(a) \/ Unhealthy(a) \/ CleanUp(a)
    \/ WriteResult(a) \/ ClearRequest(a)

Next ==
    \/ State \/ RequestRestart \/ UnitStarts \/ RestartRequested \/ Reboot
    \/ \E j \in Jobs : Check(j) \/ NoSuchBuild(j) \/ JobNext(j)
    \/ \E j \in Jobs : \E b \in Builds : Stage(j, b)
    \/ \E a \in Appliers : ApplierNext(a) \/ Crash(a)
    \/ \E c \in Commands : Restore(c)

Spec == Init /\ [][Next]_vars

\* systemd starts the unit while a request is there, processes run on, and a
\* dashboard that is open polls State.
Fairness ==
    /\ WF_vars(UnitStarts) /\ WF_vars(RestartRequested) /\ WF_vars(State)
    /\ \A j \in Jobs : WF_vars(JobNext(j))
    /\ \A a \in Appliers : WF_vars(ApplierNext(a))

FairSpec == Spec /\ Fairness

----------------------------------------------------------------------------
(* Properties.                                                             *)

\* Every variable has its type: files and records of known builds, processes
\* at a known line (State, Result, Staged and applyRequest in the code).
TypeOK ==
    /\ stagedBin \in File \cup {None}
    /\ {manifest, request} \subseteq Release \cup {None}
    /\ restartRequest \in BOOLEAN
    /\ result \in [ok : BOOLEAN, rolledBack : BOOLEAN] \cup {None}
    /\ rollback \in Seq([name : Builds \cup {Unknown}, file : File])
    /\ binary \in File /\ tmp \in File \cup {None} /\ running \in File
    /\ LET Phases == {"idle", "checking", "downloading", "staged",
                      "applying", "failed"}
           States == [phase : Phases, staged : Release \cup {None}]
       IN  mem \in [Managers -> States] /\ saved \in States
    /\ job \in [Jobs -> [pc : {"idle", "checking", "downloading", "extracting",
                               "extracted", "staged", "asking", "asked"},
                         what : Release \cup {None}]]
    /\ app \in [Appliers ->
         [pc : {"idle", "requests", "begin", "verify", "backup", "backing",
                "copy", "rename", "restart", "wait", "clean", "report",
                "clear"},
          mode : {"apply", "rollback", "restore", "restart"},
          req : Release \cup {None}, from : Builds \cup {Unknown},
          src : File \cup {None},
          outcome : {"none", "ok", "failed", "rolled_back"}]]
    /\ good \in File /\ before \in File \cup {None}
    /\ left \in [sound : SUBSET Builds, jobs : SUBSET Jobs, pathUnit : BOOLEAN, stages : Nat,
                  crashes : Nat, restarts : Nat, restores : Nat,
                  crashed : BOOLEAN, overlapped : BOOLEAN]

\* An outcome that says the update worked, or that the old version is back
\* and running, is reported over a binary that stays up: whatever was staged
\* meanwhile, a bad release costs a restart (Apply, rollback, Restore).
ReportedIsSound ==
    \A a \in Appliers :
        /\ app[a].pc \in {"report", "clear"}
        /\ app[a].outcome \in {"ok", "rolled_back"}
        => binary \in left.sound

\* As long as nothing crashed and no two appliers met; with a crash in the
\* middle it does not hold.
OutcomeIsSound == ~left.crashed /\ ~left.overlapped => ReportedIsSound

GoodIsThere == \/ binary = good
               \/ \E i \in DOMAIN rollback : rollback[i].file = good

\* The build last seen healthy, or last chosen by the operator, is installed
\* or kept whole, at every step of an update, crashes included, as long as no two
\* appliers met (the order of copyFile and installBinary in Apply).
KnownGoodKept == ~left.overlapped => GoodIsThere

\* What the last successful update replaced can be gone back to, also when
\* an update was applied on top of a bad one (pruneRollbacks). A crash after
\* the rename makes the next backup one of the new binary, which counts.
UndoPossible ==
    before # None /\ ~left.crashed /\ ~left.overlapped =>
        \/ binary = before
        \/ \E i \in DOMAIN rollback : rollback[i].file = before

\* Where the path unit is installed every request to install is answered in the
\* end, whatever becomes of it (Apply clears it on every path; the path unit
\* fires while it is there), after a crash too, unless that came while half a
\* binary was installed: the unit executes that one.
RequestAnswered ==
    request # None /\ left.pathUnit
        ~> request = None \/ (left.crashed /\ binary = Torn)

=============================================================================
