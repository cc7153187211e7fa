---------------------------- MODULE InstallProofs ----------------------------
(***************************************************************************)
(* Theorems about Install, for every number of keys, data directories,     *)
(* backups and faults.                                                     *)
(***************************************************************************)
EXTENDS Install, TLAPS

Fields == DOMAIN NoCommand
Plan == {"stop", "disable", "unit files", "data dir", "conf dir", "account", "program"}
Swapping == {"sidecars", "db", "env", "conf", "start"}

-----------------------------------------------------------------------------
(* The inductive invariant.                                                 *)

\* What is where, and how far the command is.
Shape ==
  /\ db \in [Dirs -> Database \union {None, Torn}]
  /\ wal \in [Dirs -> Log \union {None}]
  /\ service \in {"stopped", "activating", "running"}
  /\ IsRunning => serving.dir \in Dirs
  /\ DOMAIN backups = Paths
  /\ \A p \in Paths : backups[p] \in {None, Torn} \/ backups[p].db \in Database
  /\ faults \in Nat
CommandShape ==
  /\ DOMAIN cmd = Fields
  /\ cmd.pc \in {"idle", "typed", "snapshot", "unlocked", "removing"} \union Swapping
  /\ cmd.pc \in Swapping => cmd.dir \in Dirs
  /\ cmd.since \in Nat
  /\ cmd.pc = "typed" => cmd.archive = NoArchive
  /\ cmd.pc = "typed" /\ cmd.kind \in {"backup", "restore"} => cmd.path \in Paths
  /\ cmd.pc \in {"snapshot", "unlocked"} \union Swapping => cmd.archive.db \in Database

\* Nobody runs while files are swapped, unless it was noticed.
Quiet == ~overlapped /\ cmd.pc \in Swapping => service = "stopped"

Continues(d) ==
  wal[d] = None \/ /\ IsDatabase(d)
                   /\ wal[d].key = db[d].key /\ wal[d].base = db[d].rows
Logs == ~overlapped =>
  /\ \A d \in Dirs : Continues(d)
  /\ cmd.pc = "db" => wal[cmd.dir] = None

\* How much of the backup is back already.
Brings == ~overlapped =>
  /\ cmd.pc \in {"env", "conf", "start"} =>
       db[cmd.dir] = cmd.archive.db /\ wal[cmd.dir] = None
  /\ cmd.pc \in {"conf", "start"} => cmd.archive.env \in {None, env}
  /\ cmd.pc = "start" => cmd.archive.conf \in {None, conf}

\* Key and database belong together: on the disk, in the backups, in what a
\* command holds and in the service.
Whole(archive) == archive.env \in {None, archive.db.key}
KeyOfData == conf \in Dirs /\ IsDatabase(conf) /\ env \in Keys => db[conf].key = env
KeyOfService ==
  IsRunning => /\ IsDatabase(serving.dir) => db[serving.dir].key = serving.key
               /\ env \in Keys => env = serving.key
               /\ conf \in Dirs => conf = serving.dir
Matched == ~mixed /\ ~overlapped =>
  /\ cmd.pc # "env" => KeyOfData
  /\ KeyOfService
  /\ \A p \in Paths : backups[p] \in {None, Torn} \/ Whole(backups[p])
  /\ cmd.pc = "snapshot" => env = cmd.archive.db.key
  /\ cmd.pc \in {"unlocked"} \union Swapping => Whole(cmd.archive)
  /\ cmd.pc \in Swapping \ {"start"} => (conf \in Dirs => conf = cmd.dir)
  /\ cmd.pc \in {"conf", "start"} => env = db[cmd.dir].key

\* A backup has seen every row there was when it was asked for.
Seen == cmd.kind = "backup" =>
  /\ cmd.pc \in {"idle", "typed", "snapshot"}
  /\ cmd.pc = "typed" => IF IsDatabase(DataDir) THEN Committed(DataDir).rows >= cmd.since
                                                ELSE cmd.since = 0
  /\ cmd.pc = "snapshot" => cmd.archive.db.rows >= cmd.since

\* What was asked for when the command was typed still holds when it removes.
Asked == cmd.kind = "uninstall" =>
  /\ cmd.pc \in {"typed", "removing"}
  /\ cmd.pc = "typed" => /\ cmd.args \subseteq cmd.asked
                         /\ "--keep-data" \in cmd.asked => "--keep-data" \in cmd.args
  /\ cmd.pc = "removing" =>
       /\ cmd.left \in Seq(Plan)
       /\ cmd.agreed \/ "--yes" \in cmd.asked
       /\ \A i \in 1..Len(cmd.left) : cmd.left[i] = "data dir" =>
            SafeToRemove(cmd.dir) /\ "--keep-data" \notin cmd.asked
Kinded ==
  /\ cmd.pc = "snapshot" => cmd.kind = "backup"
  /\ cmd.pc \in {"unlocked"} \union Swapping => cmd.kind = "restore"
  /\ cmd.pc = "removing" => cmd.kind = "uninstall"

IInv == /\ Shape /\ CommandShape /\ Kinded
        /\ Quiet /\ Logs /\ Brings /\ Matched /\ Seen /\ Asked

-----------------------------------------------------------------------------
(* Facts about the files.                                                   *)

LEMMA Distinct ==
  /\ None # Torn /\ None \notin Keys /\ None \notin Dirs /\ None \notin Database
  /\ None \notin Log
  /\ Torn \notin Keys /\ Torn \notin Dirs /\ Torn \notin Database
  /\ DefaultDir \in Dirs
BY InstallAssumption

LEMMA CommittedType ==
  ASSUME Shape, NEW d \in Dirs, IsDatabase(d)
  PROVE  /\ db[d] \in Database /\ Committed(d) \in Database
         /\ Committed(d).key = db[d].key
         /\ wal[d] = None => Committed(d) = db[d]
<1>1. db[d] \in Database
  BY DEF Shape, IsDatabase
<1>2. CASE wal[d] = None
  BY <1>1, <1>2 DEF Committed
<1>3. CASE wal[d] # None
  <2>1. wal[d] \in Log
    BY <1>3 DEF Shape
  <2>2. Committed(d) = [key |-> db[d].key, rows |-> wal[d].rows]
    BY <1>3 DEF Committed
  <2>3. db[d].key \in Keys /\ wal[d].rows \in 0..MaxRows
    BY <1>1, <2>1 DEF Database, Log
  <2>4. QED BY <1>1, <1>3, <2>2, <2>3 DEF Database
<1>4. QED BY <1>2, <1>3

\* What a step does that at most moves a log into its database.
Moved ==
  /\ db' = [d \in Dirs |-> db'[d]] /\ wal' = [d \in Dirs |-> wal'[d]]
  /\ \A d \in Dirs : \/ db'[d] = db[d] /\ wal'[d] = wal[d]
                     \/ IsDatabase(d) /\ db'[d] = Committed(d) /\ wal'[d] = None

LEMMA MovedKeeps ==
  ASSUME Shape, Moved
  PROVE  /\ db' \in [Dirs -> Database \union {None, Torn}]
         /\ wal' \in [Dirs -> Log \union {None}]
         /\ \A d \in Dirs :
              /\ IsDatabase(d)' <=> IsDatabase(d)
              /\ db[d] # None => db'[d] # None
              /\ IsDatabase(d) => /\ db'[d].key = db[d].key
                                  /\ Committed(d)' = Committed(d)
              /\ Continues(d) => Continues(d)'
              /\ wal[d] = None => wal'[d] = None /\ db'[d] = db[d]
<1>1. ASSUME NEW d \in Dirs
      PROVE  /\ db'[d] \in Database \union {None, Torn}
             /\ wal'[d] \in Log \union {None}
             /\ IsDatabase(d)' <=> IsDatabase(d)
             /\ db[d] # None => db'[d] # None
             /\ IsDatabase(d) => /\ db'[d].key = db[d].key
                                 /\ Committed(d)' = Committed(d)
             /\ Continues(d) => Continues(d)'
             /\ wal[d] = None => wal'[d] = None /\ db'[d] = db[d]
  <2>1. CASE db'[d] = db[d] /\ wal'[d] = wal[d]
    BY <2>1 DEF Shape, IsDatabase, Committed, Continues
  <2>2. CASE IsDatabase(d) /\ db'[d] = Committed(d) /\ wal'[d] = None
    <3>1. db'[d] \in Database /\ db'[d].key = db[d].key
          /\ (wal[d] = None => db'[d] = db[d])
      BY <2>2, CommittedType
    <3>2. IsDatabase(d)' /\ db'[d] # None
      BY <3>1, Distinct DEF IsDatabase
    <3>3. Committed(d)' = Committed(d)
      BY <2>2 DEF Committed
    <3>4. Continues(d)'
      BY <2>2 DEF Continues
    <3>5. QED BY <2>2, <3>1, <3>2, <3>3, <3>4
  <2>3. QED BY <2>1, <2>2 DEF Moved
<1>2. db' = [d \in Dirs |-> db'[d]] /\ wal' = [d \in Dirs |-> wal'[d]]
  BY DEF Moved
<1>3. QED BY <1>1, <1>2

LEMMA CheckpointMoves ==
  ASSUME Shape, NEW d \in Dirs, IsDatabase(d),
         db' = Checkpointed(d), wal' = [wal EXCEPT ![d] = None]
  PROVE  Moved
<1>1. db' = [db EXCEPT ![d] = Committed(d)]
  BY DEF Checkpointed
<1>2. db = [x \in Dirs |-> db[x]] /\ wal = [x \in Dirs |-> wal[x]]
  BY DEF Shape
<1>3. QED BY <1>1, <1>2 DEF Moved

LEMMA NothingMoves ==
  ASSUME Shape, UNCHANGED <<db, wal>>
  PROVE  Moved
BY DEF Moved, Shape

LEMMA StopMoves ==
  ASSUME Shape, Stop
  PROVE  /\ Moved /\ faults' \in Nat
         /\ \/ service' = "stopped" /\ faults' = faults
            \/ UNCHANGED serviceVars /\ faults' # faults
<1>1. CASE service' = "stopped" /\ CloseCleanly /\ UNCHANGED faults
  <2>1. CASE IsRunning /\ IsDatabase(serving.dir) /\ wal[serving.dir] # None
    BY <1>1, <2>1, CheckpointMoves DEF CloseCleanly, Shape
  <2>2. CASE ~(IsRunning /\ IsDatabase(serving.dir) /\ wal[serving.dir] # None)
    BY <1>1, <2>2, NothingMoves DEF CloseCleanly, Shape
  <2>3. QED BY <1>1, <2>1, <2>2 DEF Shape
<1>2. CASE faults' = faults + 1 /\ UNCHANGED <<serviceVars, db, wal>>
  BY <1>2, NothingMoves DEF Shape
<1>3. QED BY <1>1, <1>2 DEF Stop

-----------------------------------------------------------------------------
(* The service and the world.                                               *)

LEMMA NoCommandShape ==
  ASSUME cmd' = NoCommand
  PROVE  /\ CommandShape' /\ Kinded' /\ Seen' /\ Asked'
         /\ cmd'.pc = "idle"
BY DEF NoCommand, Fields, CommandShape, Kinded, Seen, Asked, Swapping

\* A command is over, whatever it was, and the files are as they were, but for
\* a log that moved into its database.
LEMMA EndsKeeps ==
  ASSUME IInv, cmd' = NoCommand, Moved, UNCHANGED <<env, conf, backups>>,
         overlapped' = overlapped, mixed => mixed',
         service' \in {"stopped", "activating", "running"}, faults' \in Nat,
         service' = "running" => UNCHANGED serviceVars,
         ~mixed' => cmd.pc # "env"
  PROVE  IInv'
<1>1. /\ CommandShape' /\ Kinded' /\ Seen' /\ Asked' /\ cmd'.pc = "idle"
  BY NoCommandShape
<1>2. Shape
  BY DEF IInv
<1>3. /\ db' \in [Dirs -> Database \union {None, Torn}]
      /\ wal' \in [Dirs -> Log \union {None}]
      /\ \A d \in Dirs :
           /\ IsDatabase(d)' <=> IsDatabase(d)
           /\ IsDatabase(d) => db'[d].key = db[d].key
           /\ Continues(d) => Continues(d)'
  BY <1>2, MovedKeeps
<1>4. Shape'
  BY <1>2, <1>3 DEF Shape, IsRunning, serviceVars
<1>5. Quiet' /\ Brings'
  BY <1>1 DEF Quiet, Brings, Swapping
<1>6. Logs'
  BY <1>1, <1>3 DEF IInv, Logs
<1>7. Matched'
  <2> SUFFICES ASSUME ~mixed', ~overlapped' PROVE Matched'
    BY DEF Matched
  <2>1. cmd.pc # "env" /\ KeyOfData /\ KeyOfService
    BY DEF IInv, Matched
  <2>2. KeyOfData'
    BY <1>3, <2>1 DEF KeyOfData
  <2>3. KeyOfService'
    BY <1>2, <1>3, <2>1 DEF KeyOfService, IsRunning, serviceVars, Shape
  <2>4. \A p \in Paths : backups'[p] \in {None, Torn} \/ Whole(backups[p])'
    BY DEF IInv, Matched, Whole
  <2>5. QED BY <1>1, <2>2, <2>3, <2>4 DEF Matched, Swapping
<1>8. QED BY <1>1, <1>4, <1>5, <1>6, <1>7 DEF IInv

\* Where somebody runs or is about to, nobody swaps files unnoticed.
LEMMA NotSwapping ==
  ASSUME IInv, service # "stopped", ~overlapped
  PROVE  cmd.pc \notin Swapping
BY DEF IInv, Quiet

LEMMA DataDirType ==
  DataDir \in Dirs
BY Distinct DEF DataDir, Loads

\* A log moves while the service runs, or the service dies with it.
LEMMA RunningKeeps ==
  ASSUME IInv, IsRunning, Moved,
         UNCHANGED <<env, conf, backups, cmd, mixed, overlapped>>,
         \/ UNCHANGED serviceVars
         \/ service' = "activating",
         faults' \in Nat
  PROVE  IInv'
<1>1. Shape /\ service = "running"
  BY DEF IInv, IsRunning
<1>2. /\ db' \in [Dirs -> Database \union {None, Torn}]
      /\ wal' \in [Dirs -> Log \union {None}]
      /\ \A d \in Dirs :
           /\ IsDatabase(d)' <=> IsDatabase(d)
           /\ IsDatabase(d) => /\ db'[d].key = db[d].key
                               /\ Committed(d)' = Committed(d)
           /\ Continues(d) => Continues(d)'
  BY <1>1, MovedKeeps
<1>3. Shape'
  BY <1>1, <1>2 DEF Shape, IsRunning, serviceVars
<1>4. CommandShape' /\ Kinded' /\ Asked'
  BY DEF IInv, CommandShape, Kinded, Asked
<1>5. ~overlapped => cmd.pc \notin Swapping
  BY <1>1, NotSwapping
<1>6. Quiet' /\ Brings'
  BY <1>5 DEF Quiet, Brings, Swapping
<1>7. Logs'
  BY <1>2, <1>5 DEF IInv, Logs, Swapping
<1>8. Seen'
  <2>1. DataDir' = DataDir /\ DataDir \in Dirs
    BY DataDirType DEF DataDir, Loads
  <2>2. (IsDatabase(DataDir))' <=> IsDatabase(DataDir)
    BY <1>2, <2>1 DEF IsDatabase
  <2>3. IsDatabase(DataDir) => (Committed(DataDir))' = Committed(DataDir)
    BY <1>2, <2>1 DEF Committed
  <2>4. QED BY <2>2, <2>3 DEF IInv, Seen
<1>9. Matched'
  <2> SUFFICES ASSUME ~mixed, ~overlapped PROVE Matched'
    BY DEF Matched
  <2>1. cmd.pc \notin Swapping /\ KeyOfData /\ KeyOfService
    BY <1>5 DEF IInv, Matched, Swapping
  <2>2. KeyOfData'
    BY <1>2, <2>1 DEF KeyOfData
  <2>3. KeyOfService'
    BY <1>1, <1>2, <2>1 DEF KeyOfService, IsRunning, serviceVars, Shape
  <2>4. QED BY <2>1, <2>2, <2>3 DEF IInv, Matched, Whole, Swapping
<1>10. QED BY <1>3, <1>4, <1>6, <1>7, <1>8, <1>9 DEF IInv

LEMMA CommitKeeps ==
  ASSUME IInv, Commit
  PROVE  IInv'
<1> DEFINE d == serving.dir
           l == [key |-> Committed(d).key,
                 base |-> IF wal[d] = None THEN db[d].rows ELSE wal[d].base,
                 rows |-> Committed(d).rows + 1]
<1>1. /\ Shape /\ service = "running" /\ IsRunning /\ d \in Dirs /\ IsDatabase(d)
      /\ Committed(d).rows < MaxRows
      /\ wal' = [wal EXCEPT ![d] = l]
      /\ UNCHANGED <<db, env, conf, backups, cmd, mixed, overlapped, service, serving, faults>>
  BY DEF IInv, Commit, IsRunning, Shape, serviceVars, boundVars, historyVars
<1>2. db[d] \in Database /\ Committed(d) \in Database /\ Committed(d).key = db[d].key
  BY <1>1, CommittedType
<1>3. wal[d] # None => wal[d] \in Log
  BY <1>1 DEF Shape
<1>4. /\ l \in Log /\ l.key = db[d].key /\ l.rows = Committed(d).rows + 1
      /\ l.base = IF wal[d] = None THEN db[d].rows ELSE wal[d].base
  <2>1. /\ db[d].rows \in 0..MaxRows /\ db[d].key \in Keys
        /\ Committed(d).rows \in 0..MaxRows
        /\ wal[d] # None => wal[d].base \in 0..MaxRows
    BY <1>2, <1>3 DEF Database, Log
  <2>2. Committed(d).rows + 1 \in 0..MaxRows
    BY <1>1, <2>1, InstallAssumption
  <2>3. QED BY <1>2, <2>1, <2>2 DEF Log
<1> HIDE DEF l, d
<1>5. Shape'
  BY <1>1, <1>4 DEF Shape, IsRunning
<1>6. CommandShape' /\ Kinded' /\ Asked'
  BY <1>1 DEF IInv, CommandShape, Kinded, Asked
<1>7. ~overlapped => cmd.pc \notin Swapping
  BY <1>1, NotSwapping
<1>8. Quiet' /\ Brings'
  BY <1>1, <1>7 DEF Quiet, Brings, Swapping
<1>9. Logs'
  <2> SUFFICES ASSUME ~overlapped PROVE Logs'
    BY <1>1 DEF Logs
  <2>1. ASSUME NEW x \in Dirs PROVE Continues(x)'
    <3>1. Continues(x)
      BY DEF IInv, Logs
    <3>2. CASE x = d
      BY <1>1, <1>4, <3>1, <3>2 DEF Continues, IsDatabase, Shape
    <3>3. CASE x # d
      BY <1>1, <3>1, <3>3 DEF Continues, IsDatabase, Shape
    <3>4. QED BY <3>2, <3>3
  <2>2. QED BY <1>1, <1>7, <2>1 DEF Logs, Swapping
<1>10. Seen'
  <2>1. DataDir' = DataDir /\ DataDir \in Dirs
    BY <1>1, DataDirType DEF DataDir, Loads
  <2> DEFINE x == DataDir
  <2>2. IsDatabase(x)' <=> IsDatabase(x)
    BY <1>1, <2>1 DEF IsDatabase
  <2> SUFFICES ASSUME cmd.kind = "backup" PROVE Seen'
    BY <1>1 DEF Seen
  <2>3. ASSUME IsDatabase(x), cmd.pc = "typed" PROVE (Committed(x).rows)' >= cmd.since
    <3>1. Committed(x).rows >= cmd.since
      BY <2>3 DEF IInv, Seen
    <3>2. CASE x = d
      <4>1. wal'[d] = l /\ l # None
        BY <1>1, <1>4, Distinct DEF Shape
      <4>2. (Committed(x).rows)' = Committed(d).rows + 1
        BY <1>4, <2>1, <3>2, <4>1 DEF Committed
      <4>3. Committed(d).rows \in Nat /\ cmd.since \in Nat
        BY <1>2 DEF Database, IInv, CommandShape
      <4>4. QED BY <3>1, <3>2, <4>2, <4>3
    <3>3. CASE x # d
      BY <1>1, <2>1, <3>1, <3>3 DEF Committed, Shape
    <3>4. QED BY <3>2, <3>3
  <2>4. QED BY <1>1, <2>2, <2>3 DEF IInv, Seen
<1>11. Matched'
  BY <1>1 DEF IInv, Matched, KeyOfData, KeyOfService, Whole, IsDatabase, IsRunning
<1>12. QED BY <1>5, <1>6, <1>8, <1>9, <1>10, <1>11 DEF IInv

\* The database is there, or was made with the key.
LEMMA Opened ==
  ASSUME Shape, NEW d \in Dirs, OpenData(d), UNCHANGED wal
  PROVE  /\ db' \in [Dirs -> Database \union {None, Torn}]
         /\ IsDatabase(d)' /\ env \in Keys
         /\ \A x \in Dirs : \/ db'[x] = db[x]
                            \/ /\ x = d /\ db[d] = None
                               /\ db'[d] = [key |-> env, rows |-> 0]
<1> DEFINE new == [key |-> env, rows |-> 0]
<1>1. env \in Keys /\ db[d] # Torn
  BY DEF OpenData, HasKey
<1>2. new \in Database
  BY <1>1, InstallAssumption DEF Database
<1>3. new \notin {None, Torn}
  BY <1>2, Distinct
<1>4. \/ db[d] # None /\ db' = db
      \/ db[d] = None /\ db' = [db EXCEPT ![d] = new]
  BY DEF OpenData
<1> HIDE DEF new
<1>5. /\ db' \in [Dirs -> Database \union {None, Torn}]
      /\ IsDatabase(d)'
      /\ \A x \in Dirs : db'[x] = db[x] \/ (x = d /\ db[d] = None /\ db'[d] = new)
  BY <1>1, <1>2, <1>3, <1>4 DEF Shape, IsDatabase
<1>6. QED BY <1>1, <1>5 DEF new

\* What opening does to the parts of the invariant that speak of files.
LEMMA OpenedKeeps ==
  ASSUME IInv, NEW d \in Dirs, OpenData(d), d = conf,
         UNCHANGED <<wal, env, conf, backups, overlapped, mixed>>,
         ~overlapped => cmd.pc \notin Swapping
  PROVE  /\ db' \in [Dirs -> Database \union {None, Torn}]
         /\ IsDatabase(d)' /\ env \in Keys
         /\ ~overlapped => \A x \in Dirs : Continues(x)'
         /\ ~mixed /\ ~overlapped => db'[d].key = env /\ KeyOfData'
         /\ \A x \in Dirs : db[x] # None => db'[x] = db[x]
         /\ db[d] = None => db'[d].rows = 0
<1>1. Shape
  BY DEF IInv
<1>2. /\ db' \in [Dirs -> Database \union {None, Torn}]
      /\ IsDatabase(d)' /\ env \in Keys
      /\ \A x \in Dirs : \/ db'[x] = db[x]
                         \/ /\ x = d /\ db[d] = None
                            /\ db'[d] = [key |-> env, rows |-> 0]
  BY <1>1, Opened
<1>3. ASSUME ~overlapped, NEW x \in Dirs PROVE Continues(x)'
  <2>1. Continues(x)
    BY <1>3 DEF IInv, Logs
  <2>2. CASE db'[x] = db[x]
    BY <2>1, <2>2 DEF Continues, IsDatabase
  <2>3. CASE db[x] = None
    BY <2>1, <2>3 DEF Continues, IsDatabase
  <2>4. QED BY <1>2, <2>2, <2>3
<1>4. ASSUME ~mixed, ~overlapped PROVE db'[d].key = env /\ KeyOfData'
  <2>1. KeyOfData
    BY <1>4 DEF IInv, Matched, Swapping
  <2>2. db'[d].key = env
    <3>1. CASE db'[d] = db[d]
      BY <1>2, <2>1, <3>1 DEF KeyOfData, IsDatabase
    <3>2. CASE db'[d] = [key |-> env, rows |-> 0]
      BY <3>2
    <3>3. QED BY <1>2, <3>1, <3>2
  <2>3. QED BY <2>2 DEF KeyOfData
<1>5. db[d] = None => db'[d].rows = 0
  BY <1>2, Distinct DEF IsDatabase
<1>6. QED BY <1>2, <1>3, <1>4, <1>5

LEMMA ServiceOpensKeeps ==
  ASSUME IInv, ServiceOpens
  PROVE  IInv'
<1> DEFINE d == conf
           r == [dir |-> conf, key |-> env]
<1>1. /\ Shape /\ service = "activating" /\ d \in Dirs /\ OpenData(d)
      /\ service' = "running" /\ serving' = r /\ r.dir = d /\ r.key = env
      /\ UNCHANGED <<wal, env, conf, backups, cmd, mixed, overlapped, faults>>
  BY DEF IInv, ServiceOpens, Loads, boundVars, historyVars
<1> HIDE DEF r
<1>2. ~overlapped => cmd.pc \notin Swapping
  BY <1>1, NotSwapping
<1>3. /\ db' \in [Dirs -> Database \union {None, Torn}]
      /\ IsDatabase(d)' /\ env \in Keys
      /\ ~overlapped => \A x \in Dirs : Continues(x)'
      /\ ~mixed /\ ~overlapped => db'[d].key = env /\ KeyOfData'
      /\ \A x \in Dirs : db[x] # None => db'[x] = db[x]
      /\ db[d] = None => db'[d].rows = 0
  BY <1>1, <1>2, OpenedKeeps
<1>4. Shape'
  BY <1>1, <1>3 DEF Shape, IsRunning
<1>5. CommandShape' /\ Kinded' /\ Asked'
  BY <1>1 DEF IInv, CommandShape, Kinded, Asked
<1>6. Quiet' /\ Brings'
  BY <1>1, <1>2 DEF Quiet, Brings, Swapping
<1>7. Logs'
  BY <1>1, <1>2, <1>3 DEF Logs, Swapping
<1>8. Seen'
  <2>1. DataDir = d /\ DataDir' = d
    BY <1>1 DEF DataDir, Loads
  <2> SUFFICES ASSUME cmd.kind = "backup" PROVE Seen'
    BY <1>1 DEF Seen
  <2>2. ASSUME cmd.pc = "typed" PROVE (Committed(d).rows)' >= cmd.since
    <3>0. cmd.since \in Nat
      BY DEF IInv, CommandShape
    <3>1. CASE db[d] = None
      <4>1. cmd.since = 0 /\ db'[d].rows = 0
        BY <1>3, <2>1, <2>2, <3>1 DEF IInv, Seen, IsDatabase
      <4>2. Shape' /\ IsDatabase(d)'
        BY <1>3, <1>4
      <4>3. db'[d] \in Database
        BY <4>2, <1>1 DEF Shape, IsDatabase
      <4>4. (Committed(d).rows)' \in Nat
        <5>1. CASE wal'[d] = None
          BY <1>1, <4>1, <5>1 DEF Committed
        <5>2. CASE wal'[d] # None
          <6>1. wal'[d] \in Log
            BY <1>1, <5>2, <1>4 DEF Shape
          <6>2. wal'[d].rows \in Nat
            BY <6>1 DEF Log
          <6>3. QED BY <1>1, <5>2, <6>2 DEF Committed
        <5>3. QED BY <5>1, <5>2
      <4>5. QED BY <4>1, <4>4
    <3>2. CASE db[d] # None
      <4>1. db'[d] = db[d] /\ IsDatabase(d)
        BY <1>1, <1>3, <3>2 DEF IsDatabase
      <4>2. (Committed(d))' = Committed(d)
        BY <1>1, <4>1 DEF Committed
      <4>3. QED BY <2>1, <2>2, <4>1, <4>2 DEF IInv, Seen
    <3>3. QED BY <3>1, <3>2
  <2>3. QED BY <1>1, <1>3, <2>1, <2>2 DEF IInv, Seen
<1>9. Matched'
  <2> SUFFICES ASSUME ~mixed, ~overlapped PROVE Matched'
    BY <1>1 DEF Matched
  <2>1. cmd.pc \notin Swapping /\ KeyOfData'
    BY <1>2, <1>3
  <2>2. KeyOfService'
    BY <1>1, <1>3 DEF KeyOfService
  <2>3. QED BY <1>1, <2>1, <2>2 DEF IInv, Matched, Whole, Swapping
<1>10. QED BY <1>4, <1>5, <1>6, <1>7, <1>8, <1>9 DEF IInv

-----------------------------------------------------------------------------
(* Commands on their way: the files, the service and the backups stay.      *)

LEMMA OnTheWay ==
  ASSUME IInv, UNCHANGED <<machineVars, serviceVars, backups, boundVars, historyVars>>,
         cmd'.pc \notin Swapping \union {"snapshot"},
         cmd.pc # "env",
         cmd'.pc = "unlocked" /\ ~mixed /\ ~overlapped => Whole(cmd'.archive),
         CommandShape', Kinded', Seen', Asked'
  PROVE  IInv'
<1>1. UNCHANGED <<db, wal, env, conf, service, serving, backups, faults, mixed, overlapped>>
  BY DEF machineVars, serviceVars, boundVars, historyVars
<1>2. Shape'
  BY <1>1 DEF IInv, Shape, IsRunning
<1>3. Quiet' /\ Brings'
  BY DEF Quiet, Brings, Swapping
<1>4. Logs'
  BY <1>1 DEF IInv, Logs, Continues, IsDatabase, Swapping
<1>5. Matched'
  BY <1>1 DEF IInv, Matched, KeyOfData, KeyOfService, Whole, IsDatabase, IsRunning, Swapping
<1>6. QED BY <1>2, <1>3, <1>4, <1>5 DEF IInv

LEMMA TypeKeeps ==
  ASSUME IInv, Type
  PROVE  IInv'
<1>1. PICK kind \in Kinds, root \in BOOLEAN, menu \in BOOLEAN, p \in Paths,
           args \in SUBSET {"--keep-data", "--yes"} : cmd' = Line(kind, root, menu, p, args)
  BY DEF Type
<1>2. /\ DOMAIN cmd' = Fields /\ cmd'.pc = "typed" /\ cmd'.kind = kind
      /\ kind \in {"backup", "restore"} => cmd'.path = p
      /\ cmd'.args = args /\ cmd'.asked = args /\ cmd'.archive = NoArchive
      /\ cmd'.since = IF IsDatabase(DataDir) THEN Committed(DataDir).rows ELSE 0
  BY <1>1 DEF Line, NoCommand, Fields
<1>3. cmd.pc = "idle" /\ UNCHANGED <<db, wal, conf>>
      /\ UNCHANGED <<machineVars, serviceVars, backups, faults, historyVars>>
  BY DEF Type, machineVars
<1>4. DataDir' = DataDir /\ DataDir \in Dirs /\ Shape
  BY <1>3, DataDirType DEF DataDir, Loads, IInv
<1>5. cmd'.since \in Nat
  <2>1. CASE IsDatabase(DataDir)
    BY <1>2, <1>4, <2>1, CommittedType, InstallAssumption DEF Database
  <2>2. CASE ~IsDatabase(DataDir)
    BY <1>2, <2>2
  <2>3. QED BY <2>1, <2>2
<1>6. CommandShape' /\ Kinded' /\ Asked'
  BY <1>2, <1>5 DEF CommandShape, Kinded, Asked, Swapping, Kinds
<1>7. Seen'
  <2>1. (IsDatabase(DataDir))' <=> IsDatabase(DataDir)
    BY <1>3, <1>4 DEF IsDatabase
  <2>2. (Committed(DataDir).rows)' = Committed(DataDir).rows
    BY <1>3, <1>4 DEF Committed
  <2>3. CASE IsDatabase(DataDir)
    BY <1>2, <1>5, <2>1, <2>2, <2>3 DEF Seen
  <2>4. CASE ~IsDatabase(DataDir)
    BY <1>2, <2>1, <2>4 DEF Seen
  <2>5. QED BY <2>3, <2>4
<1>8. /\ Shape' /\ Quiet' /\ Brings'
  BY <1>2, <1>3 DEF IInv, Shape, IsRunning, Quiet, Brings, Swapping, machineVars, serviceVars
<1>9. Logs'
  BY <1>2, <1>3 DEF IInv, Logs, Continues, IsDatabase, machineVars, historyVars
<1>10. Matched'
  BY <1>2, <1>3 DEF IInv, Matched, KeyOfData, KeyOfService, Whole, IsDatabase, IsRunning,
                    Swapping, machineVars, serviceVars, historyVars
<1>11. QED BY <1>6, <1>7, <1>8, <1>9, <1>10 DEF IInv

LEMMA ElevateKeeps ==
  ASSUME IInv, Elevate
  PROVE  IInv'
<1> DEFINE r == [cmd EXCEPT !.root = TRUE, !.args = ElevatedArgs(cmd)]
<1>1. /\ cmd.pc = "typed"
      /\ UNCHANGED <<machineVars, serviceVars, backups, boundVars, historyVars>>
  BY DEF Elevate
<1>2. CASE cmd' = NoCommand
  BY <1>1, <1>2, NoCommandShape, OnTheWay DEF Swapping
<1>3. CASE cmd' = r
  <2>1. /\ DOMAIN cmd = Fields /\ DOMAIN r = Fields
        /\ r.pc = cmd.pc /\ r.kind = cmd.kind /\ r.path = cmd.path
        /\ r.args = ElevatedArgs(cmd) /\ r.asked = cmd.asked
        /\ r.archive = cmd.archive /\ r.since = cmd.since
    BY DEF IInv, CommandShape, NoCommand, Fields
  <2> HIDE DEF r
  <2>2. CommandShape' /\ Kinded'
    BY <1>1, <1>3, <2>1 DEF IInv, CommandShape, Kinded, Swapping
  <2>3. Seen'
    BY <1>1, <1>3, <2>1 DEF IInv, Seen, machineVars, IsDatabase, Committed, DataDir, Loads
  <2>4. cmd.kind = "uninstall" =>
          /\ r.args \subseteq cmd.args
          /\ "--keep-data" \in cmd.args => "--keep-data" \in r.args
    BY <2>1 DEF ElevatedArgs, UninstallArgv
  <2>5. Asked'
    BY <1>1, <1>3, <2>1, <2>4 DEF IInv, Asked
  <2>6. QED BY <1>1, <1>3, <2>1, <2>2, <2>3, <2>5, OnTheWay DEF Swapping
<1>4. QED BY <1>2, <1>3 DEF Elevate, Sudo

LEMMA RestoreUnlockKeeps ==
  ASSUME IInv, RestoreUnlock
  PROVE  IInv'
<1> DEFINE r == [cmd EXCEPT !.pc = "unlocked", !.archive = backups[cmd.path]]
<1>1. /\ cmd.pc = "typed" /\ cmd.kind = "restore" /\ cmd' = r
      /\ backups[cmd.path] \notin {None, Torn}
      /\ UNCHANGED <<machineVars, serviceVars, backups, boundVars, historyVars>>
  BY DEF RestoreUnlock, Opens
<1>2. /\ DOMAIN r = Fields /\ r.pc = "unlocked" /\ r.kind = "restore"
      /\ r.archive = backups[cmd.path] /\ r.since = cmd.since
  BY <1>1 DEF IInv, CommandShape, NoCommand, Fields
<1> HIDE DEF r
<1>3. cmd.path \in Paths /\ backups[cmd.path].db \in Database
  BY <1>1 DEF IInv, CommandShape, Shape
<1>4. CommandShape' /\ Kinded' /\ Seen' /\ Asked'
  BY <1>1, <1>2, <1>3 DEF IInv, CommandShape, Kinded, Seen, Asked, Swapping
<1>5. ~mixed /\ ~overlapped => Whole(r.archive)
  BY <1>1, <1>2, <1>3 DEF IInv, Matched
<1>6. QED BY <1>1, <1>2, <1>4, <1>5, OnTheWay DEF Swapping

LEMMA JoinedType ==
  ASSUME NEW S, NEW s \in Seq(S), NEW t \in Seq(S)
  PROVE  s \o t \in Seq(S)
OBVIOUS

LEMMA Joined ==
  ASSUME NEW s \in Seq(Plan), NEW t \in Seq(Plan), NEW x,
         \A i \in 1..Len(s) : s[i] # x,
         \A i \in 1..Len(t) : t[i] # x
  PROVE  /\ s \o t \in Seq(Plan)
         /\ \A i \in 1..Len(s \o t) : (s \o t)[i] # x
<1>1. s \o t \in Seq(Plan) /\ Len(s \o t) = Len(s) + Len(t)
  OBVIOUS
<1>2. ASSUME NEW i \in 1..Len(s \o t)
      PROVE  (s \o t)[i] # x
  <2>1. CASE i <= Len(s)
    <3>1. (s \o t)[i] = s[i] /\ i \in 1..Len(s)
      BY <1>1, <2>1
    <3>2. QED BY <3>1
  <2>2. CASE i > Len(s)
    <3>1. (s \o t)[i] = t[i - Len(s)] /\ i - Len(s) \in 1..Len(t)
      BY <1>1, <2>2
    <3>2. QED BY <3>1
  <2>3. QED BY <1>1, <2>1, <2>2
<1>3. QED BY <1>1, <1>2

LEMMA PlanSteps ==
  ASSUME NEW keepData \in BOOLEAN
  PROVE  /\ UninstallPlan(keepData) \in Seq(Plan)
         /\ keepData => \A i \in 1..Len(UninstallPlan(keepData)) :
              UninstallPlan(keepData)[i] # "data dir"
<1> DEFINE a == <<"stop", "disable", "unit files">>
           b == IF keepData THEN <<>> ELSE DataSteps
           c == <<"account", "program">>
<1>1. /\ a \in Seq(Plan) /\ c \in Seq(Plan)
      /\ (\A i \in 1..Len(a) : a[i] # "data dir") /\ (\A i \in 1..Len(c) : c[i] # "data dir")
  <2>1. a \in Seq(Plan)
    BY DEF Plan
  <2>2. c \in Seq(Plan)
    BY DEF Plan
  <2>3. \A i \in 1..Len(a) : a[i] # "data dir"
    <3>1. Len(a) = 3 /\ a[1] = "stop" /\ a[2] = "disable" /\ a[3] = "unit files"
      OBVIOUS
    <3>2. "stop" # "data dir" /\ "disable" # "data dir" /\ "unit files" # "data dir"
      OBVIOUS
    <3> HIDE DEF a
    <3>3. \A i \in 1..3 : i = 1 \/ i = 2 \/ i = 3
      OBVIOUS
    <3>4. QED BY <3>1, <3>2, <3>3, Zenon
  <2>4. \A i \in 1..Len(c) : c[i] # "data dir"
    <3>1. Len(c) = 2 /\ c[1] = "account" /\ c[2] = "program"
      OBVIOUS
    <3>2. "account" # "data dir" /\ "program" # "data dir"
      OBVIOUS
    <3> HIDE DEF c
    <3>3. \A i \in 1..2 : i = 1 \/ i = 2
      OBVIOUS
    <3>4. QED BY <3>1, <3>2, <3>3, Zenon
  <2>5. QED BY <2>1, <2>2, <2>3, <2>4
<1>2. b \in Seq(Plan) /\ (keepData => \A i \in 1..Len(b) : b[i] # "data dir")
  <2>1. <<"data dir", "conf dir">> \in Seq(Plan)
    BY DEF Plan
  <2>2. <<>> \in Seq(Plan) /\ Len(<<>>) = 0
    OBVIOUS
  <2>3. CASE keepData
    BY <2>2, <2>3
  <2>4. CASE ~keepData
    BY <2>1, <2>4 DEF DataSteps
  <2>5. QED BY <2>3, <2>4
<1>3. UninstallPlan(keepData) = (a \o b) \o c
  BY DEF UninstallPlan
<1> HIDE DEF a, b, c
<1>4. CASE keepData
  <2>1. a \o b \in Seq(Plan) /\ \A i \in 1..Len(a \o b) : (a \o b)[i] # "data dir"
    BY <1>1, <1>2, <1>4, Joined
  <2> DEFINE ab == a \o b
  <2> HIDE DEF ab
  <2>2. ab \o c \in Seq(Plan) /\ \A i \in 1..Len(ab \o c) : (ab \o c)[i] # "data dir"
    BY <1>1, <2>1, Joined DEF ab
  <2>3. UninstallPlan(keepData) = ab \o c
    BY <1>3 DEF ab
  <2>4. QED BY <2>2, <2>3
<1>5. CASE ~keepData
  <2>1. a \o b \in Seq(Plan)
    BY <1>1, <1>2, JoinedType
  <2>2. (a \o b) \o c \in Seq(Plan)
    BY <1>1, <2>1, JoinedType
  <2>3. QED BY <1>3, <1>5, <2>2
<1>6. QED BY <1>4, <1>5

LEMMA UninstallAgreeKeeps ==
  ASSUME IInv, UninstallAgree
  PROVE  IInv'
<1> DEFINE keepData == "--keep-data" \in cmd.args
           plan == UninstallPlan(keepData)
<1>1. PICK typed \in BOOLEAN :
        /\ typed \/ "--yes" \in cmd.args
        /\ cmd' = [cmd EXCEPT !.pc = "removing", !.agreed = typed,
                              !.dir = DataDir, !.left = plan]
  BY DEF UninstallAgree
<1>2. /\ cmd.pc = "typed" /\ cmd.kind = "uninstall"
      /\ ~keepData => SafeToRemove(DataDir)
      /\ UNCHANGED <<machineVars, serviceVars, backups, boundVars, historyVars>>
  BY DEF UninstallAgree, Refused
<1>3. /\ DOMAIN cmd' = Fields /\ cmd'.pc = "removing" /\ cmd'.kind = "uninstall"
      /\ cmd'.agreed = typed /\ cmd'.dir = DataDir /\ cmd'.left = plan
      /\ cmd'.asked = cmd.asked /\ cmd'.since = cmd.since
  BY <1>1, <1>2 DEF IInv, CommandShape, NoCommand, Fields
<1>4. plan \in Seq(Plan)
      /\ (keepData => \A i \in 1..Len(plan) : plan[i] # "data dir")
  <2>1. keepData \in BOOLEAN
    OBVIOUS
  <2> HIDE DEF keepData
  <2>2. QED BY <2>1, PlanSteps
<1>5. cmd.args \subseteq cmd.asked /\ ("--keep-data" \in cmd.asked => keepData)
  BY <1>2 DEF IInv, Asked
<1> HIDE DEF plan, keepData
<1>6. Asked'
  BY <1>1, <1>2, <1>3, <1>4, <1>5 DEF Asked, SafeToRemove
<1>7. CommandShape' /\ Kinded' /\ Seen'
  BY <1>2, <1>3 DEF IInv, CommandShape, Kinded, Seen, Swapping
<1>8. QED BY <1>2, <1>3, <1>6, <1>7, OnTheWay DEF Swapping

-----------------------------------------------------------------------------
(* The ends.                                                                *)

LEMMA DiesKeeps ==
  ASSUME IInv, CommandDies \/ Reboot
  PROVE  IInv'
<1>1. Shape
  BY DEF IInv
<1>2. /\ cmd' = NoCommand /\ faults' = faults + 1 /\ overlapped' = overlapped
      /\ UNCHANGED <<db, wal, env, conf, backups>>
      /\ mixed' = IF cmd.pc \in {"env", "conf"} THEN TRUE ELSE mixed
      /\ \/ UNCHANGED serviceVars
         \/ service' \in {"activating", "stopped"}
  BY DEF CommandDies, Reboot, CutOff, machineVars
<1>3. Moved
  BY <1>1, <1>2, NothingMoves
<1>4. service' \in {"stopped", "activating", "running"} /\ faults' \in Nat
  BY <1>1, <1>2 DEF Shape, serviceVars
<1>5. mixed => mixed'
  BY <1>2
<1>6. ~mixed' => cmd.pc # "env"
  BY <1>2
<1>7. service' = "running" => UNCHANGED serviceVars
  BY <1>2
<1>8. QED BY <1>2, <1>3, <1>4, <1>5, <1>6, <1>7, EndsKeeps

LEMMA ServiceCommandKeeps ==
  ASSUME IInv, ServiceStart \/ ServiceStop \/ RestoreStart \/ GiveUp \/ Removed
  PROVE  IInv'
<1>1. Shape
  BY DEF IInv
<1>2. CASE ServiceStop
  <2>1. /\ cmd' = NoCommand /\ cmd.pc = "typed" /\ Stop
        /\ UNCHANGED <<env, conf, backups, overlapped, mixed>>
    BY <1>2 DEF ServiceStop, historyVars
  <2>2. /\ Moved /\ faults' \in Nat
        /\ service' = "stopped" \/ UNCHANGED serviceVars
    BY <1>1, <2>1, StopMoves
  <2>3. QED BY <1>1, <2>1, <2>2, EndsKeeps DEF Shape, serviceVars
<1>3. CASE ServiceStart \/ RestoreStart \/ GiveUp \/ Removed
  <2>1. /\ cmd' = NoCommand /\ cmd.pc # "env"
        /\ UNCHANGED <<db, wal, env, conf, backups, overlapped, mixed, faults, serving>>
        /\ service' \in {service, "activating"}
    BY <1>3 DEF ServiceStart, RestoreStart, GiveUp, Removed, machineVars, serviceVars,
                boundVars, historyVars
  <2>2. Moved
    BY <1>1, <2>1, NothingMoves
  <2>3. service' = "running" => UNCHANGED serviceVars
    BY <2>1 DEF serviceVars
  <2>4. service' \in {"stopped", "activating", "running"} /\ faults' \in Nat
    BY <1>1, <2>1 DEF Shape
  <2>5. QED BY <2>1, <2>2, <2>3, <2>4, EndsKeeps
<1>4. QED BY <1>2, <1>3

-----------------------------------------------------------------------------
(* Backup.                                                                  *)

LEMMA BackupSnapshotKeeps ==
  ASSUME IInv, BackupSnapshot
  PROVE  IInv'
<1> DEFINE d == conf
           x == IF db[conf] = None THEN db'[conf] ELSE BackupTo(conf)
           r == [cmd EXCEPT !.pc = "snapshot", !.archive.db = x]
<1>1. /\ Shape /\ d \in Dirs /\ OpenData(d) /\ cmd.pc = "typed" /\ cmd.kind = "backup"
      /\ cmd' = r
      /\ UNCHANGED <<wal, env, conf, service, serving, backups, faults, mixed, overlapped>>
  BY DEF IInv, BackupSnapshot, Loads, serviceVars, boundVars, historyVars
<1>2. ~overlapped => cmd.pc \notin Swapping
  BY <1>1 DEF Swapping
<1>3. /\ db' \in [Dirs -> Database \union {None, Torn}]
      /\ IsDatabase(d)' /\ env \in Keys
      /\ ~overlapped => \A y \in Dirs : Continues(y)'
      /\ ~mixed /\ ~overlapped => db'[d].key = env /\ KeyOfData'
      /\ \A y \in Dirs : db[y] # None => db'[y] = db[y]
      /\ db[d] = None => db'[d].rows = 0
  BY <1>1, <1>2, OpenedKeeps
<1>4. /\ DOMAIN r = Fields /\ r.pc = "snapshot" /\ r.kind = "backup"
      /\ r.archive.db = x /\ r.since = cmd.since
  <2>1. cmd.archive = NoArchive /\ DOMAIN cmd = Fields
    BY <1>1 DEF IInv, CommandShape
  <2>2. "db" \in DOMAIN cmd.archive
    BY <2>1 DEF NoArchive
  <2> HIDE DEF x
  <2>3. QED BY <1>1, <2>1, <2>2 DEF NoCommand, Fields
<1>5. db'[d] \in Database
  BY <1>1, <1>3 DEF IsDatabase
<1>6. /\ x \in Database
      /\ x.key = db'[d].key
      /\ x.rows >= cmd.since
  <2>1. DataDir = d
    BY <1>1 DEF DataDir, Loads
  <2>2. cmd.since \in Nat
    BY DEF IInv, CommandShape
  <2>3. CASE db[d] = None
    <3>1. x = db'[d] /\ cmd.since = 0 /\ x.rows = 0
      BY <1>1, <1>3, <2>1, <2>3 DEF IInv, Seen, IsDatabase
    <3>2. QED BY <1>5, <3>1
  <2>4. CASE db[d] # None
    <3>1. IsDatabase(d) /\ db'[d] = db[d]
      BY <1>1, <1>3, <2>4 DEF IsDatabase
    <3>2. x = Committed(d)
      BY <2>4 DEF BackupTo
    <3>3. Committed(d) \in Database /\ Committed(d).key = db[d].key
      BY <1>1, <3>1, CommittedType
    <3>4. Committed(d).rows >= cmd.since
      BY <1>1, <2>1, <3>1 DEF IInv, Seen
    <3>5. QED BY <3>1, <3>2, <3>3, <3>4
  <2>5. QED BY <2>3, <2>4
<1> HIDE DEF x, r
<1>7. Shape'
  BY <1>1, <1>3 DEF Shape, IsRunning
<1>8. CommandShape' /\ Kinded' /\ Asked' /\ Seen'
  BY <1>1, <1>4, <1>6 DEF IInv, CommandShape, Kinded, Asked, Seen, Swapping
<1>9. Quiet' /\ Brings'
  BY <1>1, <1>4 DEF Quiet, Brings, Swapping
<1>10. Logs'
  BY <1>1, <1>3, <1>4 DEF Logs
<1>11. Matched'
  <2> SUFFICES ASSUME ~mixed, ~overlapped PROVE Matched'
    BY <1>1 DEF Matched
  <2>1. KeyOfData' /\ db'[d].key = env
    BY <1>3
  <2>2. KeyOfService'
    <3>1. KeyOfService
      BY DEF IInv, Matched
    <3>2. CASE IsRunning
      <4>1. serving.dir = d /\ serving.key = env
        BY <1>1, <1>3, <3>1, <3>2 DEF KeyOfService
      <4>2. QED BY <1>1, <2>1, <4>1 DEF KeyOfService, IsRunning
    <3>3. CASE ~IsRunning
      BY <1>1, <3>3 DEF KeyOfService, IsRunning
    <3>4. QED BY <3>2, <3>3
  <2>3. QED BY <1>1, <1>4, <1>6, <2>1, <2>2 DEF IInv, Matched, Whole, Swapping
<1>12. QED BY <1>7, <1>8, <1>9, <1>10, <1>11 DEF IInv

LEMMA BackupWriteKeeps ==
  ASSUME IInv, BackupWrite
  PROVE  IInv'
<1>1. /\ Shape /\ cmd.pc = "snapshot" /\ cmd' = NoCommand /\ faults \in Nat
      /\ UNCHANGED <<db, wal, env, conf, service, serving, mixed, overlapped>>
  BY DEF IInv, BackupWrite, Shape, machineVars, serviceVars, historyVars
<1>2. PICK key \in {env, None}, cfg \in {conf, None} :
        WriteFile(Pack(cmd.archive.db, key, cfg))
  BY DEF BackupWrite
<1> DEFINE a == Pack(cmd.archive.db, key, cfg)
<1>3. a.db = cmd.archive.db /\ a.env = key
  BY DEF Pack
<1>4. /\ a.db \in Database
      /\ ~mixed /\ ~overlapped => Whole(a)
  BY <1>1, <1>2, <1>3 DEF IInv, CommandShape, Matched, Whole
<1>5. PICK file \in {a, None, Torn} :
        backups' = [backups EXCEPT ![cmd.path] = file] /\ faults' \in Nat
  BY <1>1, <1>2 DEF WriteFile
<1> HIDE DEF a
<1>6. /\ DOMAIN backups' = Paths
      /\ \A p \in Paths : backups'[p] = backups[p] \/ backups'[p] = file
  BY <1>1, <1>5 DEF Shape
<1>7. Shape'
  BY <1>1, <1>4, <1>5, <1>6 DEF Shape, IsRunning
<1>8. /\ CommandShape' /\ Kinded' /\ Seen' /\ Asked' /\ cmd'.pc = "idle"
  BY <1>1, NoCommandShape
<1>9. Quiet' /\ Brings'
  BY <1>8 DEF Quiet, Brings, Swapping
<1>10. Logs'
  BY <1>1, <1>8 DEF IInv, Logs, Continues, IsDatabase
<1>11. Matched'
  <2> SUFFICES ASSUME ~mixed, ~overlapped PROVE Matched'
    BY <1>1 DEF Matched
  <2>1. KeyOfData' /\ KeyOfService'
    BY <1>1 DEF IInv, Matched, KeyOfData, KeyOfService, IsDatabase, IsRunning
  <2>2. ASSUME NEW p \in Paths PROVE backups'[p] \in {None, Torn} \/ Whole(backups[p])'
    <3>1. backups[p] \in {None, Torn} \/ Whole(backups[p])
      BY DEF IInv, Matched
    <3>2. Whole(backups[p])' <=> Whole(backups'[p])
      BY DEF Whole
    <3>3. QED BY <1>4, <1>5, <1>6, <3>1, <3>2
  <2>3. QED BY <1>8, <2>1, <2>2 DEF Matched, Swapping
<1>12. QED BY <1>7, <1>8, <1>9, <1>10, <1>11 DEF IInv

-----------------------------------------------------------------------------
(* Restore.                                                                 *)

\* A step of a restore that leaves the command at l.
Restores(l) == cmd' = [cmd EXCEPT !.pc = l]

LEMMA RestoresShape ==
  ASSUME IInv, NEW l \in {"sidecars", "db", "env", "conf", "start"}, Restores(l),
         cmd.pc \in Swapping
  PROVE  /\ CommandShape' /\ Kinded' /\ Seen' /\ Asked'
         /\ cmd'.pc = l /\ cmd'.dir = cmd.dir /\ cmd'.archive = cmd.archive
         /\ cmd.dir \in Dirs /\ cmd.archive.db \in Database
<1>1. /\ DOMAIN cmd' = Fields /\ cmd'.pc = l /\ cmd'.kind = cmd.kind
      /\ cmd'.dir = cmd.dir /\ cmd'.archive = cmd.archive /\ cmd'.since = cmd.since
  BY DEF IInv, CommandShape, NoCommand, Fields, Restores
<1>2. cmd.kind = "restore" /\ cmd.dir \in Dirs /\ cmd.archive.db \in Database
  BY DEF IInv, Kinded, CommandShape
<1>3. CommandShape' /\ Kinded' /\ Seen' /\ Asked'
  BY <1>1, <1>2 DEF IInv, CommandShape, Kinded, Seen, Asked, Swapping
<1>4. QED BY <1>1, <1>2, <1>3

LEMMA RestoreStopKeeps ==
  ASSUME IInv, RestoreStop
  PROVE  IInv'
<1> DEFINE r == [cmd EXCEPT !.pc = "sidecars", !.was = IsRunning, !.dir = DataDir]
<1>1. /\ Shape /\ cmd.pc = "unlocked" /\ cmd' = r
      /\ overlapped' = (overlapped \/ service = "activating" \/ faults' # faults)
      /\ UNCHANGED <<env, conf, backups, mixed>>
  BY DEF IInv, RestoreStop
<1>2. /\ DOMAIN r = Fields /\ r.pc = "sidecars" /\ r.dir = DataDir
      /\ r.kind = cmd.kind /\ r.archive = cmd.archive /\ r.since = cmd.since
  BY <1>1 DEF IInv, CommandShape, NoCommand, Fields
<1> HIDE DEF r
<1>3. /\ Moved /\ faults' \in Nat
      /\ \/ service' = "stopped"
         \/ UNCHANGED serviceVars /\ (faults' # faults \/ service # "running")
  <2>1. CASE IsRunning
    <3>1. Stop
      BY <2>1 DEF RestoreStop
    <3>2. QED BY <1>1, <3>1, StopMoves
  <2>2. CASE ~IsRunning
    <3>1. UNCHANGED <<serviceVars, db, wal, faults>>
      BY <2>2 DEF RestoreStop
    <3>2. QED BY <1>1, <2>2, <3>1, NothingMoves DEF Shape, IsRunning, serviceVars
  <2>3. QED BY <2>1, <2>2
<1>4. /\ db' \in [Dirs -> Database \union {None, Torn}]
      /\ wal' \in [Dirs -> Log \union {None}]
      /\ \A d \in Dirs :
           /\ IsDatabase(d)' <=> IsDatabase(d)
           /\ IsDatabase(d) => db'[d].key = db[d].key
           /\ Continues(d) => Continues(d)'
  BY <1>1, <1>3, MovedKeeps
<1>5. DataDir \in Dirs
  BY DataDirType
<1>6. Shape'
  BY <1>1, <1>3, <1>4 DEF Shape, IsRunning, serviceVars
<1>7. CommandShape' /\ Kinded' /\ Seen' /\ Asked'
  BY <1>1, <1>2, <1>5 DEF IInv, CommandShape, Kinded, Seen, Asked, Swapping
<1>8. Quiet'
  BY <1>1, <1>3 DEF Quiet, Shape, serviceVars
<1>9. Brings'
  BY <1>1, <1>2 DEF Brings
<1>10. Logs'
  BY <1>1, <1>2, <1>4 DEF IInv, Logs
<1>11. Matched'
  <2> SUFFICES ASSUME ~mixed, ~overlapped, ~overlapped' PROVE Matched'
    BY <1>1 DEF Matched
  <2>1. KeyOfData'
    BY <1>1, <1>4 DEF IInv, Matched, KeyOfData, Swapping
  <2>2. KeyOfService'
    BY <1>1, <1>3, <1>4, <1>6 DEF IInv, Matched, KeyOfService, IsRunning, serviceVars, Shape
  <2>3. conf' \in Dirs => conf' = cmd'.dir
    BY <1>1, <1>2 DEF DataDir, Loads
  <2>4. Whole(cmd.archive) /\ Whole(cmd.archive)' = Whole(cmd'.archive)
    BY <1>1 DEF IInv, Matched, Whole
  <2>5. QED BY <1>1, <1>2, <2>1, <2>2, <2>3, <2>4 DEF IInv, Matched, Whole, Swapping
<1>12. QED BY <1>6, <1>7, <1>8, <1>9, <1>10, <1>11 DEF IInv

LEMMA RestoreSidecarsKeeps ==
  ASSUME IInv, RestoreSidecars
  PROVE  IInv'
<1>1. /\ Shape /\ cmd.pc = "sidecars" /\ Restores("db")
      /\ wal' = [wal EXCEPT ![cmd.dir] = None]
      /\ UNCHANGED <<db, env, conf, service, serving, backups, faults, mixed, overlapped>>
  BY DEF IInv, RestoreSidecars, RemoveSidecars, Restores, serviceVars, boundVars, historyVars
<1>2. /\ CommandShape' /\ Kinded' /\ Seen' /\ Asked'
      /\ cmd'.pc = "db" /\ cmd'.dir = cmd.dir /\ cmd'.archive = cmd.archive /\ cmd.dir \in Dirs
  BY <1>1, RestoresShape DEF Swapping
<1>3. Shape'
  BY <1>1, <1>2 DEF Shape, IsRunning
<1>4. Quiet' /\ Brings'
  BY <1>1, <1>2 DEF IInv, Quiet, Brings, Swapping
<1>5. Logs'
  BY <1>1, <1>2 DEF IInv, Logs, Continues, IsDatabase, Shape
<1>6. Matched'
  BY <1>1, <1>2 DEF IInv, Matched, KeyOfData, KeyOfService, Whole, IsDatabase, IsRunning, Swapping
<1>7. QED BY <1>2, <1>3, <1>4, <1>5, <1>6 DEF IInv

LEMMA RestoreDatabaseKeeps ==
  ASSUME IInv, RestoreDatabase
  PROVE  IInv'
<1> DEFINE d == cmd.dir
<1>1. /\ Shape /\ cmd.pc = "db" /\ d \in Dirs /\ cmd.archive.db \in Database
      /\ UNCHANGED <<wal, env, conf, service, serving, backups, overlapped>>
  BY DEF IInv, RestoreDatabase, CommandShape, Swapping, serviceVars
<1>2. PICK new \in {cmd.archive.db, db[d], Torn} : db' = [db EXCEPT ![d] = new]
  BY DEF RestoreDatabase, Written
<1>3. /\ faults' \in Nat
      /\ \/ Restores("env") /\ mixed' = mixed /\ new = cmd.archive.db
         \/ cmd' = NoCommand /\ mixed'
  <2>1. \/ Restores("env") /\ UNCHANGED <<faults, mixed>> /\ db' = [db EXCEPT ![d] = cmd.archive.db]
        \/ cmd' = NoCommand /\ mixed' /\ faults' = faults + 1
    BY DEF RestoreDatabase, Written, Restores
  <2>2. db'[d] = new
    BY <1>1, <1>2 DEF Shape
  <2>3. QED BY <1>1, <2>1, <2>2 DEF Shape
<1>4. db' \in [Dirs -> Database \union {None, Torn}] /\ db'[d] = new
      /\ \A x \in Dirs : x # d => db'[x] = db[x]
  BY <1>1, <1>2 DEF Shape
<1>5. Shape'
  BY <1>1, <1>3, <1>4 DEF Shape, IsRunning
<1>6. CASE cmd' = NoCommand /\ mixed'
  <2>1. /\ CommandShape' /\ Kinded' /\ Seen' /\ Asked' /\ cmd'.pc = "idle"
    BY <1>6, NoCommandShape
  <2>2. Quiet' /\ Brings' /\ Matched'
    BY <1>6, <2>1 DEF Quiet, Brings, Matched, Swapping
  <2>3. Logs'
    BY <1>1, <1>4, <2>1 DEF IInv, Logs, Continues, IsDatabase
  <2>4. QED BY <1>5, <2>1, <2>2, <2>3 DEF IInv
<1>7. CASE Restores("env") /\ mixed' = mixed /\ new = cmd.archive.db
  <2>1. /\ CommandShape' /\ Kinded' /\ Seen' /\ Asked'
        /\ cmd'.pc = "env" /\ cmd'.dir = d /\ cmd'.archive = cmd.archive
    BY <1>1, <1>7, RestoresShape DEF Swapping
  <2>2. Quiet'
    BY <1>1, <2>1 DEF IInv, Quiet, Swapping
  <2>3. Logs'
    BY <1>1, <1>4, <2>1 DEF IInv, Logs, Continues, IsDatabase
  <2>4. Brings'
    BY <1>1, <1>4, <1>7, <2>1 DEF IInv, Brings, Logs
  <2>5. Matched'
    <3> SUFFICES ASSUME ~mixed, ~overlapped PROVE Matched'
      BY <1>1, <1>7 DEF Matched
    <3>1. KeyOfService'
      BY <1>1 DEF IInv, Quiet, KeyOfService, IsRunning, Swapping
    <3>2. QED BY <1>1, <1>7, <2>1, <3>1 DEF IInv, Matched, Whole, Swapping
  <2>6. QED BY <1>5, <2>1, <2>2, <2>3, <2>4, <2>5 DEF IInv
<1>8. QED BY <1>3, <1>6, <1>7

LEMMA RestoreKeyKeeps ==
  ASSUME IInv, RestoreKey
  PROVE  IInv'
<1> DEFINE d == cmd.dir
<1>1. /\ Shape /\ cmd.pc = "env" /\ d \in Dirs /\ cmd.archive.db \in Database
      /\ UNCHANGED <<db, wal, conf, service, serving, backups, overlapped>>
  BY DEF IInv, RestoreKey, CommandShape, Swapping, serviceVars
<1>2. /\ faults' \in Nat
      /\ \/ cmd' = NoCommand /\ mixed'
         \/ Restores("conf") /\ mixed' /\ cmd.archive.env = None
         \/ Restores("conf") /\ mixed' = mixed /\ env' = cmd.archive.env /\ cmd.archive.env # None
  BY <1>1 DEF RestoreKey, Written, Restores, Shape
<1>3. Shape'
  BY <1>1, <1>2 DEF Shape, IsRunning
<1>4. CASE cmd' = NoCommand /\ mixed'
  <2>1. /\ CommandShape' /\ Kinded' /\ Seen' /\ Asked' /\ cmd'.pc = "idle"
    BY <1>4, NoCommandShape
  <2>2. Quiet' /\ Brings' /\ Matched'
    BY <1>4, <2>1 DEF Quiet, Brings, Matched, Swapping
  <2>3. Logs'
    BY <1>1, <2>1 DEF IInv, Logs, Continues, IsDatabase
  <2>4. QED BY <1>3, <2>1, <2>2, <2>3 DEF IInv
<1>5. CASE Restores("conf")
  <2>1. /\ CommandShape' /\ Kinded' /\ Seen' /\ Asked'
        /\ cmd'.pc = "conf" /\ cmd'.dir = d /\ cmd'.archive = cmd.archive
    BY <1>1, <1>5, RestoresShape DEF Swapping
  <2>2. Quiet'
    BY <1>1, <2>1 DEF IInv, Quiet, Swapping
  <2>3. Logs'
    BY <1>1, <2>1 DEF IInv, Logs, Continues, IsDatabase
  <2>4. cmd.archive.env = None \/ env' = cmd.archive.env
    BY <1>1, <1>2, <1>5, <2>1, NoCommandShape
  <2>5. Brings'
    BY <1>1, <2>1, <2>4 DEF IInv, Brings
  <2>6. Matched'
    <3> SUFFICES ASSUME ~mixed', ~overlapped PROVE Matched'
      BY <1>1 DEF Matched
    <3>1. ~mixed /\ env' = cmd.archive.env /\ cmd.archive.env # None
      BY <1>2
    <3>2. Whole(cmd.archive) /\ db[d] = cmd.archive.db
      BY <1>1, <3>1 DEF IInv, Matched, Brings, Swapping
    <3>3. env' = db[d].key
      BY <3>1, <3>2 DEF Whole
    <3>4. conf \in Dirs => conf = d
      BY <1>1, <3>1 DEF IInv, Matched, Swapping
    <3>5. KeyOfData'
      BY <1>1, <3>3, <3>4 DEF KeyOfData
    <3>6. KeyOfService'
      BY <1>1 DEF IInv, Quiet, KeyOfService, IsRunning, Swapping
    <3>7. QED BY <1>1, <2>1, <3>1, <3>2, <3>3, <3>4, <3>5, <3>6 DEF IInv, Matched, Whole, Swapping
  <2>7. QED BY <1>3, <2>1, <2>2, <2>3, <2>5, <2>6 DEF IInv
<1>6. QED BY <1>2, <1>4, <1>5

LEMMA RestoreConfigurationKeeps ==
  ASSUME IInv, RestoreConfiguration
  PROVE  IInv'
<1> DEFINE d == cmd.dir
<1>1. /\ Shape /\ cmd.pc = "conf" /\ d \in Dirs /\ cmd.archive.db \in Database
      /\ UNCHANGED <<db, wal, env, service, serving, backups, overlapped>>
  BY DEF IInv, RestoreConfiguration, CommandShape, Swapping, serviceVars
<1>2. /\ faults' \in Nat
      /\ \/ cmd' = NoCommand /\ conf' \in {conf, Torn} /\ mixed' = mixed
         \/ /\ Restores("start") /\ conf' = conf /\ mixed' = mixed /\ cmd.archive.conf = None
         \/ /\ Restores("start") /\ conf' = cmd.archive.conf
            /\ mixed' = (mixed \/ conf' # d)
  BY <1>1 DEF RestoreConfiguration, Restores, Shape
<1>3. Shape'
  BY <1>1, <1>2 DEF Shape, IsRunning
<1>4. KeyOfService' \/ overlapped
  BY <1>1 DEF IInv, Quiet, KeyOfService, IsRunning, Swapping
<1>5. CASE cmd' = NoCommand /\ conf' \in {conf, Torn} /\ mixed' = mixed
  <2>1. /\ CommandShape' /\ Kinded' /\ Seen' /\ Asked' /\ cmd'.pc = "idle"
    BY <1>5, NoCommandShape
  <2>2. Quiet' /\ Brings'
    BY <2>1 DEF Quiet, Brings, Swapping
  <2>3. Logs'
    BY <1>1, <2>1 DEF IInv, Logs, Continues, IsDatabase
  <2>4. Matched'
    <3> SUFFICES ASSUME ~mixed, ~overlapped PROVE Matched'
      BY <1>1, <1>5 DEF Matched
    <3>1. KeyOfData
      BY <1>1 DEF IInv, Matched
    <3>2. KeyOfData'
      BY <1>1, <1>5, <3>1, Distinct DEF KeyOfData, IsDatabase
    <3>3. QED BY <1>1, <1>4, <2>1, <3>2 DEF IInv, Matched, Whole, Swapping
  <2>5. QED BY <1>3, <2>1, <2>2, <2>3, <2>4 DEF IInv
<1>6. CASE Restores("start")
  <2>1. /\ CommandShape' /\ Kinded' /\ Seen' /\ Asked'
        /\ cmd'.pc = "start" /\ cmd'.dir = d /\ cmd'.archive = cmd.archive
    BY <1>1, <1>6, RestoresShape DEF Swapping
  <2>0. \/ conf' = conf /\ mixed' = mixed
        \/ mixed' = (mixed \/ conf' # d)
    BY <1>2, <2>1, NoCommandShape
  <2>2. Quiet'
    BY <1>1, <2>1 DEF IInv, Quiet, Swapping
  <2>3. Logs'
    BY <1>1, <2>1 DEF IInv, Logs, Continues, IsDatabase
  <2>4. cmd.archive.conf \in {None, conf'}
    BY <1>2, <2>1, NoCommandShape
  <2>5. Brings'
    BY <1>1, <2>1, <2>4 DEF IInv, Brings
  <2>6. Matched'
    <3> SUFFICES ASSUME ~mixed', ~overlapped PROVE Matched'
      BY <1>1 DEF Matched
    <3>1. ~mixed /\ conf' \in {conf, d}
      <4>1. CASE conf' = conf /\ mixed' = mixed
        BY <4>1
      <4>2. CASE mixed' = (mixed \/ conf' # d)
        <5>1. ~(mixed \/ conf' # d)
          BY <4>2, Zenon
        <5>2. QED BY <5>1
      <4>3. QED BY <2>0, <4>1, <4>2
    <3>2. Whole(cmd.archive) /\ env = db[d].key /\ (conf \in Dirs => conf = d)
      BY <1>1, <3>1 DEF IInv, Matched, Swapping
    <3>3. KeyOfData'
      BY <1>1, <3>1, <3>2 DEF KeyOfData
    <3>4. QED BY <1>1, <1>4, <2>1, <3>1, <3>2, <3>3 DEF IInv, Matched, Whole, Swapping
  <2>7. QED BY <1>3, <2>1, <2>2, <2>3, <2>5, <2>6 DEF IInv
<1>7. QED BY <1>2, <1>5, <1>6

-----------------------------------------------------------------------------
(* Uninstall.                                                               *)

LEMMA Rest ==
  ASSUME NEW S, NEW s \in Seq(S), s # <<>>
  PROVE  /\ Tail(s) \in Seq(S)
         /\ \A i \in 1..Len(Tail(s)) : i + 1 \in 1..Len(s) /\ Tail(s)[i] = s[i + 1]
OBVIOUS

LEMMA First ==
  ASSUME NEW S, NEW s \in Seq(S), s # <<>>
  PROVE  1 \in 1..Len(s) /\ Head(s) = s[1]
OBVIOUS

LEMMA RemovalStepKeeps ==
  ASSUME IInv, RemovalStep
  PROVE  IInv'
<1> DEFINE d == cmd.dir
           r == [cmd EXCEPT !.left = Tail(@)]
<1>1. /\ Shape /\ cmd.pc = "removing" /\ cmd.kind = "uninstall" /\ cmd.left # <<>>
      /\ cmd' = r /\ UNCHANGED <<backups, mixed, overlapped>>
  BY DEF IInv, RemovalStep, Kinded, historyVars
<1>2. /\ DOMAIN r = Fields /\ r.pc = "removing" /\ r.kind = "uninstall"
      /\ r.left = Tail(cmd.left) /\ r.dir = d /\ r.asked = cmd.asked
      /\ r.agreed = cmd.agreed /\ r.since = cmd.since
  BY <1>1 DEF IInv, CommandShape, NoCommand, Fields
<1> HIDE DEF r
<1>3. CommandShape' /\ Kinded' /\ Seen'
  BY <1>1, <1>2 DEF IInv, CommandShape, Kinded, Seen, Swapping
<1>4. Asked'
  <2>1. /\ cmd.left \in Seq(Plan) /\ (cmd.agreed \/ "--yes" \in cmd.asked)
        /\ \A i \in 1..Len(cmd.left) : cmd.left[i] = "data dir" =>
             SafeToRemove(d) /\ "--keep-data" \notin cmd.asked
    BY <1>1 DEF IInv, Asked
  <2> DEFINE rest == Tail(cmd.left)
  <2>2. /\ rest \in Seq(Plan)
        /\ \A i \in 1..Len(rest) : i + 1 \in 1..Len(cmd.left) /\ rest[i] = cmd.left[i + 1]
    BY <1>1, <2>1, Rest
  <2> HIDE DEF rest
  <2>3. \A i \in 1..Len(rest) : rest[i] = "data dir" =>
          SafeToRemove(d) /\ "--keep-data" \notin cmd.asked
    BY <2>1, <2>2
  <2>4. r.left = rest
    BY <1>2 DEF rest
  <2>5. QED BY <1>1, <1>2, <2>1, <2>2, <2>3, <2>4 DEF Asked, SafeToRemove
<1>5. Quiet' /\ Brings'
  BY <1>1, <1>2 DEF Quiet, Brings, Swapping
<1>6. \* What a step of the plan may do.
      /\ faults' \in Nat
      /\ \/ /\ Moved /\ UNCHANGED <<env, conf>>
            /\ service' = "stopped" \/ UNCHANGED serviceVars
         \/ /\ db' = [db EXCEPT ![d] = None] /\ wal' = [wal EXCEPT ![d] = None]
            /\ UNCHANGED <<env, conf, serviceVars>>
         \/ /\ env' = None /\ conf' = None /\ UNCHANGED <<db, wal, serviceVars>>
  <2>1. Shape
    BY <1>1
  <2>2. CASE UNCHANGED <<db, wal, env, conf, serviceVars>>
             /\ faults' \in {faults, faults + 1}
    BY <2>1, <2>2, NothingMoves DEF Shape
  <2>3. CASE Stop /\ UNCHANGED <<env, conf>>
    BY <2>1, <2>3, StopMoves
  <2>4. CASE db' = [db EXCEPT ![d] = None] /\ wal' = [wal EXCEPT ![d] = None]
             /\ UNCHANGED <<env, conf, serviceVars, faults>>
    BY <2>1, <2>4 DEF Shape
  <2>5. CASE env' = None /\ conf' = None /\ UNCHANGED <<db, wal, serviceVars, faults>>
    BY <2>1, <2>5 DEF Shape
  <2>6. QED BY <2>2, <2>3, <2>4, <2>5 DEF RemovalStep, Failing, machineVars
<1>7. CASE Moved /\ UNCHANGED <<env, conf>> /\ (service' = "stopped" \/ UNCHANGED serviceVars)
  <2>1. /\ db' \in [Dirs -> Database \union {None, Torn}]
        /\ wal' \in [Dirs -> Log \union {None}]
        /\ \A x \in Dirs :
             /\ IsDatabase(x)' <=> IsDatabase(x)
             /\ IsDatabase(x) => db'[x].key = db[x].key
             /\ Continues(x) => Continues(x)'
    BY <1>1, <1>7, MovedKeeps
  <2>2. Shape'
    BY <1>1, <1>6, <1>7, <2>1 DEF Shape, IsRunning, serviceVars
  <2>3. Logs'
    BY <1>1, <1>2, <2>1 DEF IInv, Logs
  <2>4. Matched'
    <3> SUFFICES ASSUME ~mixed, ~overlapped PROVE Matched'
      BY <1>1 DEF Matched
    <3>1. KeyOfData'
      BY <1>1, <1>7, <2>1 DEF IInv, Matched, KeyOfData
    <3>2. KeyOfService'
      BY <1>1, <1>7, <2>1 DEF IInv, Matched, KeyOfService, IsRunning, serviceVars, Shape
    <3>3. QED BY <1>1, <1>2, <3>1, <3>2 DEF IInv, Matched, Whole, Swapping
  <2>5. QED BY <1>3, <1>4, <1>5, <2>2, <2>3, <2>4 DEF IInv
<1>8. CASE /\ db' = [db EXCEPT ![d] = None] /\ wal' = [wal EXCEPT ![d] = None]
           /\ UNCHANGED <<env, conf, serviceVars>>
  <2>1. Shape'
    BY <1>1, <1>6, <1>8 DEF Shape, IsRunning, serviceVars
  <2>2. \A x \in Dirs : (db'[x] = None /\ wal'[x] = None) \/ (db'[x] = db[x] /\ wal'[x] = wal[x])
    BY <1>1, <1>8 DEF Shape
  <2>3. Logs'
    BY <1>1, <1>2, <2>2 DEF IInv, Logs, Continues, IsDatabase
  <2>4. Matched'
    <3> SUFFICES ASSUME ~mixed, ~overlapped PROVE Matched'
      BY <1>1 DEF Matched
    <3>1. KeyOfData'
      BY <1>1, <1>8, <2>2 DEF IInv, Matched, KeyOfData, IsDatabase
    <3>2. KeyOfService'
      BY <1>1, <1>8, <2>2 DEF IInv, Matched, KeyOfService, IsDatabase, IsRunning, serviceVars, Shape
    <3>3. QED BY <1>1, <1>2, <3>1, <3>2 DEF IInv, Matched, Whole, Swapping
  <2>5. QED BY <1>3, <1>4, <1>5, <2>1, <2>3, <2>4 DEF IInv
<1>9. CASE env' = None /\ conf' = None /\ UNCHANGED <<db, wal, serviceVars>>
  <2>1. Shape'
    BY <1>1, <1>6, <1>9 DEF Shape, IsRunning, serviceVars
  <2>2. Logs'
    BY <1>1, <1>2, <1>9 DEF IInv, Logs, Continues, IsDatabase
  <2>3. KeyOfData' /\ (~mixed /\ ~overlapped => KeyOfService')
    BY <1>1, <1>9, Distinct DEF IInv, Matched, KeyOfData, KeyOfService, IsDatabase, IsRunning, serviceVars
  <2>4. Matched'
    BY <1>1, <1>2, <2>3 DEF IInv, Matched, Whole, Swapping
  <2>5. QED BY <1>3, <1>4, <1>5, <2>1, <2>2, <2>4 DEF IInv
<1>10. QED BY <1>6, <1>7, <1>8, <1>9

-----------------------------------------------------------------------------
(* The invariant holds.                                                     *)

LEMMA InitIInv ==
  ASSUME Init
  PROVE  IInv
<1> DEFINE first == [key |-> HereKey, rows |-> 0]
<1>1. first \in Database /\ HereDir \in Dirs /\ HereKey \in Keys
  BY InstallAssumption DEF Database
<1>2. first.key = HereKey /\ first \notin {None, Torn}
  BY <1>1, Distinct
<1>3. /\ cmd = NoCommand /\ service \in {"activating", "stopped"}
      /\ db = [d \in Dirs |-> IF d = HereDir THEN first ELSE None]
      /\ wal = [d \in Dirs |-> None] /\ env = HereKey /\ conf = HereDir
      /\ backups \in [Paths -> Brought \union {None}] /\ faults = 0
  BY DEF Init
<1> HIDE DEF first
<1>4. cmd.pc = "idle" /\ cmd.kind = "none" /\ DOMAIN cmd = Fields /\ cmd.since = 0
  BY <1>3 DEF NoCommand, Fields
<1>5. \A b \in Brought : b.db \in Database /\ Whole(b)
  BY InstallAssumption DEF Archive, Whole
<1>6. Shape
  BY <1>1, <1>3, <1>5 DEF Shape, IsRunning
<1>7. CommandShape /\ Kinded /\ Seen /\ Asked /\ Quiet /\ Brings
  BY <1>4 DEF CommandShape, Kinded, Seen, Asked, Quiet, Brings, Swapping
<1>8. Logs
  BY <1>3, <1>4 DEF Logs, Continues
<1>9. KeyOfData
  BY <1>1, <1>2, <1>3 DEF KeyOfData
<1>10. Matched
  BY <1>3, <1>4, <1>5, <1>9 DEF Matched, KeyOfService, IsRunning, Swapping
<1>11. QED BY <1>6, <1>7, <1>8, <1>10 DEF IInv

LEMMA CheckpointKeeps ==
  ASSUME IInv, Checkpoint
  PROVE  IInv'
<1>1. Shape /\ IsRunning /\ serving.dir \in Dirs /\ faults \in Nat
  BY DEF IInv, Checkpoint, Shape
<1>2. Moved
  BY <1>1, CheckpointMoves DEF Checkpoint
<1>3. QED
  BY <1>1, <1>2, RunningKeeps DEF Checkpoint, boundVars, historyVars

LEMMA ServiceCrashKeeps ==
  ASSUME IInv, ServiceCrash
  PROVE  IInv'
<1>1. Shape /\ IsRunning /\ faults' \in Nat /\ service' = "activating"
      /\ UNCHANGED <<db, wal, env, conf, backups, cmd, mixed, overlapped>>
  BY DEF IInv, ServiceCrash, Shape, machineVars, historyVars
<1>2. Moved
  BY <1>1, NothingMoves
<1>3. QED BY <1>1, <1>2, RunningKeeps

LEMMA StutterKeeps ==
  ASSUME IInv, UNCHANGED vars
  PROVE  IInv'
<1>1. UNCHANGED <<db, wal, env, conf, service, serving, backups, cmd, faults, mixed, overlapped>>
  BY DEF vars, machineVars, serviceVars, boundVars, historyVars
<1>2. Shape' /\ CommandShape' /\ Kinded' /\ Quiet'
  BY <1>1 DEF IInv, Shape, IsRunning, CommandShape, Kinded, Quiet
<1>3. Logs' /\ Brings' /\ Asked'
  BY <1>1 DEF IInv, Logs, Continues, IsDatabase, Brings, Asked
<1>4. Seen'
  BY <1>1 DEF IInv, Seen, IsDatabase, Committed, DataDir, Loads
<1>5. Matched'
  BY <1>1 DEF IInv, Matched, KeyOfData, KeyOfService, Whole, IsDatabase, IsRunning
<1>6. QED BY <1>2, <1>3, <1>4, <1>5 DEF IInv

LEMMA NextKeeps ==
  ASSUME IInv, [Next]_vars
  PROVE  IInv'
<1>1. CASE ServiceOpens \/ Commit \/ Checkpoint \/ ServiceCrash
  BY <1>1, ServiceOpensKeeps, CommitKeeps, CheckpointKeeps, ServiceCrashKeeps
<1>2. CASE CommandDies \/ Reboot
  BY <1>2, DiesKeeps
<1>3. CASE Type \/ Elevate
  BY <1>3, TypeKeeps, ElevateKeeps
<1>4. CASE ServiceStart \/ ServiceStop \/ RestoreStart \/ GiveUp \/ Removed
  BY <1>4, ServiceCommandKeeps
<1>5. CASE BackupSnapshot \/ BackupWrite
  BY <1>5, BackupSnapshotKeeps, BackupWriteKeeps
<1>6. CASE RestoreUnlock \/ RestoreStop \/ RestoreSidecars
  BY <1>6, RestoreUnlockKeeps, RestoreStopKeeps, RestoreSidecarsKeeps
<1>7. CASE RestoreDatabase \/ RestoreKey \/ RestoreConfiguration
  BY <1>7, RestoreDatabaseKeeps, RestoreKeyKeeps, RestoreConfigurationKeeps
<1>8. CASE UninstallAgree \/ RemovalStep
  BY <1>8, UninstallAgreeKeeps, RemovalStepKeeps
<1>9. CASE UNCHANGED vars
  BY <1>9, StutterKeeps
<1>10. QED BY <1>1, <1>2, <1>3, <1>4, <1>5, <1>6, <1>7, <1>8, <1>9 DEF Next

\* The invariant the theorems below rest on: files, key, command and service
\* stay in step through cmdBackup, cmdRestore, cmdUninstall, the service and
\* whatever cuts them off.
THEOREM Invariance == Spec => []IInv
<1>1. Init => IInv
  BY InitIInv
<1>2. IInv /\ [Next]_vars => IInv'
  BY NextKeeps
<1>3. QED BY <1>1, <1>2, PTL DEF Spec

-----------------------------------------------------------------------------
(* Types: what Shape does not say of the files, the archives a command      *)
(* holds and the bounds.                                                    *)

FilesTyped ==
  /\ env \in Keys \union {None, Torn} /\ conf \in Dirs \union {None, Torn}
  /\ unit \in BOOLEAN /\ program \in BOOLEAN
ServingTyped == IsRunning => serving \in [dir : Dirs, key : Keys]
ArchivesTyped ==
  /\ backups \in [Paths -> Archive \union {None, Torn}]
  /\ cmd.pc \in {"unlocked"} \union Swapping => cmd.archive \in Archive
BoundsTyped ==
  /\ commands \in 0..MaxCommands /\ faults \in 0..MaxFaults
  /\ mixed \in BOOLEAN /\ overlapped \in BOOLEAN
Typed == FilesTyped /\ ServingTyped /\ ArchivesTyped /\ BoundsTyped

\* What each action leaves alone.
Spared ==
  /\ commands' = commands \/ (commands < MaxCommands /\ commands' = commands + 1)
  /\ faults' = faults \/ (faults < MaxFaults /\ faults' = faults + 1)
  /\ UNCHANGED <<env, conf, unit, program>> \/ RestoreKey \/ RestoreConfiguration \/ RemovalStep
  /\ UNCHANGED serviceVars \/ service' # "running" \/ ServiceOpens
  /\ backups' = backups \/ BackupWrite

LEMMA Spares ==
  ASSUME [Next]_vars
  PROVE  Spared
<1> USE DEF machineVars, serviceVars, boundVars, Spared
<1>1. CASE ServiceOpens \/ Commit \/ Checkpoint \/ ServiceCrash
  BY <1>1 DEF ServiceOpens, Commit, Checkpoint, ServiceCrash
<1>2. CASE CommandDies \/ Reboot
  BY <1>2 DEF CommandDies, Reboot
<1>3. CASE Type \/ Elevate \/ UninstallAgree
  BY <1>3 DEF Type, Elevate, UninstallAgree
<1>4. CASE ServiceStart \/ GiveUp \/ RestoreStart \/ Removed
  BY <1>4 DEF ServiceStart, GiveUp, RestoreStart, Removed
<1>5. CASE ServiceStop
  BY <1>5 DEF ServiceStop, Stop
<1>6. CASE BackupSnapshot
  BY <1>6 DEF BackupSnapshot
<1>7. CASE BackupWrite
  BY <1>7 DEF BackupWrite, WriteFile
<1>8. CASE RestoreUnlock \/ RestoreSidecars
  BY <1>8 DEF RestoreUnlock, RestoreSidecars
<1>9. CASE RestoreStop
  BY <1>9 DEF RestoreStop, Stop
<1>10. CASE RestoreDatabase \/ RestoreKey
  BY <1>10 DEF RestoreDatabase, RestoreKey, Written
<1>11. CASE RestoreConfiguration
  BY <1>11 DEF RestoreConfiguration
<1>12. CASE RemovalStep
  <2>1. faults' = faults \/ (faults < MaxFaults /\ faults' = faults + 1)
    BY <1>12 DEF RemovalStep, Failing, Stop
  <2>2. UNCHANGED serviceVars \/ service' # "running"
    BY <1>12 DEF RemovalStep, Failing, Stop
  <2>3. UNCHANGED <<backups, commands>>
    BY <1>12 DEF RemovalStep
  <2>4. QED BY <1>12, <2>1, <2>2, <2>3
<1>13. CASE UNCHANGED vars
  BY <1>13 DEF vars
<1>14. QED
  BY <1>1, <1>2, <1>3, <1>4, <1>5, <1>6, <1>7, <1>8, <1>9, <1>10, <1>11, <1>12, <1>13 DEF Next

\* Only what cuts a command off, or a restore itself, sets either note.
LEMMA NotesStep ==
  ASSUME BoundsTyped, [Next]_vars
  PROVE  mixed' \in BOOLEAN /\ overlapped' \in BOOLEAN
<1>0. mixed \in BOOLEAN /\ overlapped \in BOOLEAN
  BY DEF BoundsTyped
<1> USE DEF historyVars
<1>1. CASE UNCHANGED historyVars
  BY <1>0, <1>1
<1>2. CASE CommandDies \/ Reboot
  BY <1>0, <1>2 DEF CommandDies, Reboot, CutOff
<1>3. CASE RestoreStop \/ RestoreConfiguration
  BY <1>0, <1>3 DEF RestoreStop, RestoreConfiguration
<1>4. CASE RestoreDatabase \/ RestoreKey
  BY <1>0, <1>4 DEF RestoreDatabase, RestoreKey, Written
<1>5. CASE ServiceOpens \/ Commit \/ Checkpoint \/ ServiceCrash \/ Type \/ Elevate \/ GiveUp
  BY <1>1, <1>5 DEF ServiceOpens, Commit, Checkpoint, ServiceCrash, Type, Elevate, GiveUp
<1>6. CASE ServiceStart \/ ServiceStop \/ BackupSnapshot \/ BackupWrite \/ RestoreUnlock
  BY <1>1, <1>6 DEF ServiceStart, ServiceStop, BackupSnapshot, BackupWrite, RestoreUnlock
<1>7. CASE RestoreSidecars \/ RestoreStart \/ UninstallAgree \/ RemovalStep \/ Removed
  BY <1>1, <1>7 DEF RestoreSidecars, RestoreStart, UninstallAgree, RemovalStep, Removed
<1>8. QED
  BY <1>1, <1>2, <1>3, <1>4, <1>5, <1>6, <1>7 DEF Next, vars

LEMMA BoundsStep ==
  ASSUME BoundsTyped, [Next]_vars
  PROVE  BoundsTyped'
<1>1. MaxCommands \in Nat /\ MaxFaults \in Nat
  BY InstallAssumption
<1>2. commands' \in 0..MaxCommands /\ faults' \in 0..MaxFaults
  BY <1>1, Spares DEF Spared, BoundsTyped
<1>3. QED BY <1>2, NotesStep DEF BoundsTyped

LEMMA FilesStep ==
  ASSUME IInv, Typed, [Next]_vars
  PROVE  FilesTyped'
<1>0. FilesTyped /\ \A k \in {"env", "conf"} : cmd.pc = k => cmd.archive \in Archive
  BY DEF Typed, ArchivesTyped, Swapping
<1>1. CASE RestoreKey
  <2>1. cmd.archive.env \in Keys \union {None, Torn}
    BY <1>0, <1>1 DEF RestoreKey, Archive
  <2>2. QED BY <1>0, <1>1, <2>1 DEF RestoreKey, Written, FilesTyped
<1>2. CASE RestoreConfiguration
  <2>1. cmd.archive.conf \in Dirs \union {None, Torn}
    BY <1>0, <1>2 DEF RestoreConfiguration, Archive
  <2>2. QED BY <1>0, <1>2, <2>1 DEF RestoreConfiguration, FilesTyped
<1>3. CASE RemovalStep
  <2>1. \/ UNCHANGED <<env, conf, unit, program>>
        \/ unit' = FALSE /\ UNCHANGED <<env, conf, program>>
        \/ env' = None /\ conf' = None /\ UNCHANGED <<unit, program>>
        \/ program' = FALSE /\ UNCHANGED <<env, conf, unit>>
    BY <1>3 DEF RemovalStep, Failing, machineVars
  <2>2. QED BY <1>0, <2>1 DEF FilesTyped
<1>4. CASE UNCHANGED <<env, conf, unit, program>>
  BY <1>0, <1>4 DEF FilesTyped
<1>5. QED BY <1>1, <1>2, <1>3, <1>4, Spares DEF Spared

LEMMA ServingStep ==
  ASSUME IInv, Typed, [Next]_vars
  PROVE  ServingTyped'
<1>1. CASE ServiceOpens
  BY <1>1 DEF ServiceOpens, Loads, OpenData, HasKey, ServingTyped
<1>2. CASE service' # "running"
  BY <1>2 DEF ServingTyped, IsRunning
<1>3. CASE service' = service /\ serving' = serving
  BY <1>3 DEF Typed, ServingTyped, IsRunning
<1>4. QED BY <1>1, <1>2, <1>3, Spares DEF Spared, serviceVars

LEMMA ArchivesStep ==
  ASSUME IInv, Typed, [Next]_vars
  PROVE  ArchivesTyped'
<1>0. /\ DOMAIN cmd = Fields /\ NoCommand.pc = "idle" /\ FilesTyped /\ ArchivesTyped
      /\ cmd.pc = "typed" /\ cmd.kind \in {"backup", "restore"} => cmd.path \in Paths
      /\ "pc" \in Fields /\ "archive" \in Fields
  BY DEF IInv, CommandShape, Typed, NoCommand, Fields
<1>1. CASE BackupWrite
  <2>1. cmd'.pc = "idle"
    BY <1>0, <1>1 DEF BackupWrite
  <2>2. ASSUME NEW key \in {env, None}, NEW cfg \in {conf, None}
        PROVE  Pack(cmd.archive.db, key, cfg) \in Archive
    BY <1>0, <1>1 DEF BackupWrite, IInv, CommandShape, Pack, Archive, FilesTyped
  <2>3. backups' \in [Paths -> Archive \union {None, Torn}]
    BY <1>0, <1>1, <2>2 DEF BackupWrite, WriteFile, ArchivesTyped
  <2>4. QED BY <2>1, <2>3 DEF ArchivesTyped, Swapping
<1>2. CASE RestoreUnlock
  <2>1. cmd.path \in Paths /\ backups[cmd.path] \in Archive
    BY <1>0, <1>2 DEF RestoreUnlock, Opens, ArchivesTyped
  <2>2. cmd'.archive \in Archive /\ backups' = backups
    BY <1>0, <1>2, <2>1 DEF RestoreUnlock
  <2>3. QED BY <1>0, <2>2 DEF ArchivesTyped
<1>3. backups' = backups \/ BackupWrite
  BY Spares DEF Spared
<1>4. CASE cmd'.pc \notin {"unlocked"} \union Swapping /\ ~BackupWrite
  BY <1>0, <1>3, <1>4 DEF ArchivesTyped
<1>5. CASE ~BackupWrite /\ cmd.pc \in {"unlocked"} \union Swapping /\ cmd'.archive = cmd.archive
  BY <1>0, <1>3, <1>5 DEF ArchivesTyped
<1>6. ASSUME NEW l, cmd.pc \in {"unlocked"} \union Swapping, cmd' = [cmd EXCEPT !.pc = l]
      PROVE  cmd'.archive = cmd.archive
  BY <1>0, <1>6
<1>7. CASE RestoreStop
  BY <1>0, <1>5, <1>7 DEF RestoreStop, BackupWrite
<1>8. CASE RestoreSidecars
  BY <1>5, <1>6, <1>8 DEF RestoreSidecars, Swapping, BackupWrite
<1>9. CASE RestoreDatabase
  BY <1>0, <1>4, <1>5, <1>6, <1>9 DEF RestoreDatabase, Written, Swapping, BackupWrite
<1>10. CASE RestoreKey
  BY <1>0, <1>4, <1>5, <1>6, <1>10 DEF RestoreKey, Written, Swapping, BackupWrite
<1>11. CASE RestoreConfiguration
  BY <1>0, <1>4, <1>5, <1>6, <1>11 DEF RestoreConfiguration, Swapping, BackupWrite
<1>12. CASE cmd' = cmd /\ ~BackupWrite
  BY <1>0, <1>3, <1>12 DEF ArchivesTyped
<1>13. CASE cmd' = NoCommand /\ ~BackupWrite
  BY <1>0, <1>4, <1>13 DEF Swapping
<1>14. CASE Type
  BY <1>0, <1>4, <1>14 DEF Type, Line, NoCommand, Swapping, BackupWrite
<1>15. CASE Elevate
  BY <1>0, <1>4, <1>13, <1>15 DEF Elevate, Sudo, Swapping, BackupWrite
<1>16. CASE BackupSnapshot
  BY <1>0, <1>4, <1>16 DEF BackupSnapshot, Swapping, BackupWrite
<1>17. CASE UninstallAgree
  BY <1>0, <1>4, <1>17 DEF UninstallAgree, Swapping, BackupWrite
<1>18. CASE RemovalStep
  <2>1. cmd.pc = "removing" /\ cmd' = [cmd EXCEPT !.left = Tail(@)]
    BY <1>18 DEF RemovalStep
  <2>2. cmd'.pc = "removing"
    BY <1>0, <2>1
  <2>3. QED BY <1>4, <2>1, <2>2 DEF Swapping, BackupWrite
<1>19. CASE ServiceOpens \/ Commit \/ Checkpoint \/ ServiceCrash \/ UNCHANGED vars
  BY <1>1, <1>12, <1>19 DEF ServiceOpens, Commit, Checkpoint, ServiceCrash, vars
<1>20. CASE CommandDies \/ Reboot \/ GiveUp \/ ServiceStart \/ ServiceStop \/ RestoreStart \/ Removed
  BY <1>1, <1>13, <1>20
  DEF CommandDies, Reboot, GiveUp, ServiceStart, ServiceStop, RestoreStart, Removed
<1>21. QED
  BY <1>1, <1>2, <1>7, <1>8, <1>9, <1>10, <1>11, <1>14, <1>15, <1>16, <1>17, <1>18, <1>19, <1>20
  DEF Next

\* Whatever is cut off, restored or removed, every file holds nothing, the pieces
\* of a write, or what the commands read back; a running gateway has opened a
\* directory with a key (cmdBackup, cmdRestore, cmdUninstall, openData).
THEOREM TypeCorrect == Spec => []TypeOK
<1>1. Init => Typed
  <2> SUFFICES ASSUME Init PROVE Typed
    OBVIOUS
  <2>1. cmd.pc = "idle" /\ service # "running"
    BY DEF Init, NoCommand
  <2>2. FilesTyped
    BY InstallAssumption DEF Init, FilesTyped
  <2>3. backups \in [Paths -> Archive \union {None, Torn}]
    BY InstallAssumption DEF Init
  <2>4. BoundsTyped
    <3>1. MaxCommands \in Nat /\ MaxFaults \in Nat
      BY InstallAssumption
    <3>2. commands = 0 /\ faults = 0 /\ mixed = FALSE /\ overlapped = FALSE
      BY DEF Init
    <3>3. commands \in 0..MaxCommands /\ faults \in 0..MaxFaults
      BY <3>1, <3>2
    <3>4. mixed \in BOOLEAN /\ overlapped \in BOOLEAN
      BY <3>2, Zenon
    <3>5. QED BY <3>3, <3>4 DEF BoundsTyped
  <2>5. QED BY <2>1, <2>2, <2>3, <2>4 DEF Typed, ServingTyped, IsRunning, ArchivesTyped, Swapping
<1>2. IInv /\ Typed /\ [Next]_vars => Typed'
  BY BoundsStep, FilesStep, ServingStep, ArchivesStep DEF Typed
<1>3. IInv /\ Typed => TypeOK
  BY DEF IInv, Shape, Typed, FilesTyped, ServingTyped, ArchivesTyped, BoundsTyped, TypeOK
<1>4. QED BY <1>1, <1>2, <1>3, Invariance, PTL DEF Spec

-----------------------------------------------------------------------------
(* What the runs check, for every installation.                             *)

\* A write-ahead log lies only beside the database it continues: restore
\* removes revpd.db-wal before it writes revpd.db, and nobody writes between.
THEOREM LogsContinue == Spec => []LogContinuesItsDatabase
<1>1. IInv => LogContinuesItsDatabase
  BY DEF IInv, Logs, Continues, LogContinuesItsDatabase
<1>2. QED BY <1>1, Invariance, PTL

\* openData does not compare key and database, and need not as long as every
\* restore brought both back.
THEOREM ServiceHoldsTheKey == Spec => []ServesWithItsKey
<1>1. IInv => ServesWithItsKey
  BY DEF IInv, Matched, KeyOfService, ServesWithItsKey
<1>2. QED BY <1>1, Invariance, PTL

\* When cmdRestore starts the service again, the three files are the backup's.
THEOREM RestoreIsComplete == Spec => []RestoreBringsBack
<1>1. IInv => RestoreBringsBack
  BY DEF IInv, Brings, RestoreBringsBack
<1>2. QED BY <1>1, Invariance, PTL

\* VACUUM INTO sees the log: no backup misses a row there was when cmdBackup
\* was typed.
THEOREM BackupIsCurrent == Spec => BackupHoldsCommitted
<1> DEFINE Fresh(p) == cmd.kind = "backup" /\ backups'[p] # backups[p]
                         /\ backups'[p] \notin {None, Torn}
                       => backups'[p].db.rows >= cmd.since
<1>1. ASSUME IInv, [Next]_vars, NEW p \in Paths PROVE Fresh(p)
  <2>1. CASE BackupWrite
    <3>1. Shape /\ cmd.pc = "snapshot" /\ (cmd.kind = "backup" => cmd.archive.db.rows >= cmd.since)
      BY <1>1, <2>1 DEF IInv, Seen, BackupWrite
    <3>2. PICK key \in {env, None}, cfg \in {conf, None} :
            WriteFile(Pack(cmd.archive.db, key, cfg))
      BY <2>1 DEF BackupWrite
    <3> DEFINE a == Pack(cmd.archive.db, key, cfg)
    <3>3. a.db = cmd.archive.db
      BY DEF Pack
    <3>4. WriteFile(a)
      BY <3>2
    <3> HIDE DEF a
    <3>5. backups'[p] \in {backups[p], a, None, Torn}
      BY <3>1, <3>4 DEF WriteFile, Shape
    <3>6. QED BY <3>1, <3>3, <3>5
  <2>2. CASE ~BackupWrite
    <3>1. backups' = backups
      BY <1>1, <2>2 DEF Next, vars, ServiceOpens, Commit, Checkpoint, ServiceCrash,
         CommandDies, Reboot, Type, Elevate, GiveUp, ServiceStart, ServiceStop,
         BackupSnapshot, RestoreUnlock, RestoreStop, RestoreSidecars, RestoreDatabase,
         RestoreKey, RestoreConfiguration, RestoreStart, UninstallAgree, RemovalStep, Removed
    <3>2. QED BY <3>1
  <2>3. QED BY <2>1, <2>2
<1>2. IInv /\ [Next]_vars =>
        [\A p \in Paths :
           cmd.kind = "backup" /\ backups'[p] # backups[p]
             /\ backups'[p] \notin {None, Torn}
           => backups'[p].db.rows >= cmd.since]_vars
  BY <1>1
<1>3. QED BY <1>2, Invariance, PTL DEF Spec, BackupHoldsCommitted

\* Only the "data directory" step of a plan that was agreed to deletes a
\* database, even where sudo ran the uninstall again with a line of its own.
THEOREM DataIsKept == Spec => KeptUnlessAgreed
<1> DEFINE Agreed(d) == db[d] # None /\ db'[d] = None =>
                          /\ cmd.kind = "uninstall" /\ cmd.dir = d /\ SafeToRemove(d)
                          /\ "--keep-data" \notin cmd.asked
                          /\ cmd.agreed \/ "--yes" \in cmd.asked
<1>1. ASSUME IInv, [Next]_vars, NEW d \in Dirs PROVE Agreed(d)
  <2>1. Shape
    BY <1>1 DEF IInv
  <2>2. CASE ServiceOpens \/ BackupSnapshot
    <3>1. conf \in Dirs /\ OpenData(conf) /\ UNCHANGED wal
      BY <2>2 DEF ServiceOpens, BackupSnapshot, Loads
    <3>2. db'[d] = db[d] \/ db[d] = None
      BY <2>1, <3>1, Opened
    <3>3. QED BY <3>2
  <2>3. CASE Checkpoint
    <3>1. Moved
      BY <2>1, <2>3, CheckpointMoves DEF Checkpoint, Shape
    <3>2. QED BY <2>1, <3>1, MovedKeeps
  <2>4. CASE ServiceStop
    BY <2>1, <2>4, StopMoves, MovedKeeps DEF ServiceStop
  <2>5. CASE RestoreStop
    <3>1. Stop \/ db' = db
      BY <2>5 DEF RestoreStop
    <3>2. QED BY <2>1, <3>1, StopMoves, MovedKeeps
  <2>6. CASE RestoreDatabase
    <3>1. cmd.dir \in Dirs /\ cmd.archive.db \in Database
      BY <1>1, <2>6 DEF IInv, CommandShape, RestoreDatabase, Swapping
    <3>2. db'[d] \in {db[d], Torn, cmd.archive.db}
      BY <2>1, <2>6, <3>1 DEF RestoreDatabase, Written, Shape
    <3>3. QED BY <3>1, <3>2, Distinct
  <2>7. CASE RemovalStep
    <3> DEFINE step == Head(cmd.left)
    <3>1. /\ cmd.kind = "uninstall" /\ cmd.left # <<>> /\ cmd.left \in Seq(Plan)
          /\ cmd.agreed \/ "--yes" \in cmd.asked
          /\ \A i \in 1..Len(cmd.left) : cmd.left[i] = "data dir" =>
               SafeToRemove(cmd.dir) /\ "--keep-data" \notin cmd.asked
      BY <1>1, <2>7 DEF IInv, Kinded, Asked, RemovalStep
    <3>2. 1 \in 1..Len(cmd.left) /\ step = cmd.left[1]
      BY <3>1, First
    <3> HIDE DEF step
    <3>3. \/ db' = db
          \/ Stop
          \/ step = "data dir" /\ db' = [db EXCEPT ![cmd.dir] = None]
      BY <2>7 DEF RemovalStep, Failing, machineVars, step
    <3>4. CASE db' = db
      BY <3>4
    <3>5. CASE Stop
      BY <2>1, <3>5, StopMoves, MovedKeeps
    <3>6. CASE step = "data dir" /\ db' = [db EXCEPT ![cmd.dir] = None]
      BY <2>1, <3>1, <3>2, <3>6 DEF Shape
    <3>7. QED BY <3>3, <3>4, <3>5, <3>6
  <2>8. CASE /\ ~ServiceOpens /\ ~BackupSnapshot /\ ~Checkpoint /\ ~ServiceStop
             /\ ~RestoreStop /\ ~RestoreDatabase /\ ~RemovalStep
    <3>1. db' = db
      BY <1>1, <2>8 DEF Next, vars, machineVars, Commit, ServiceCrash,
         CommandDies, Reboot, Type, Elevate, GiveUp, ServiceStart, BackupWrite,
         RestoreUnlock, RestoreSidecars, RestoreKey, RestoreConfiguration, RestoreStart,
         UninstallAgree, Removed
    <3>2. QED BY <3>1
  <2>9. QED BY <2>2, <2>3, <2>4, <2>5, <2>6, <2>7, <2>8
<1>2. IInv /\ [Next]_vars =>
        [\A d \in Dirs : db[d] # None /\ db'[d] = None =>
           /\ cmd.kind = "uninstall" /\ cmd.dir = d /\ SafeToRemove(d)
           /\ "--keep-data" \notin cmd.asked
           /\ cmd.agreed \/ "--yes" \in cmd.asked]_vars
  BY <1>1
<1>3. QED BY <1>2, Invariance, PTL DEF Spec, KeptUnlessAgreed

=============================================================================
