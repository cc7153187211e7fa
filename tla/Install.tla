------------------------------ MODULE Install -------------------------------
(***************************************************************************)
(* The installation on one machine and the commands that copy, replace and *)
(* remove it: backup, restore, uninstall and service, typed on a command   *)
(* line or picked from the menu, while systemd runs the gateway.           *)
(*                                                                         *)
(* A database is the key its secrets are sealed with and the number of the *)
(* last transaction in it; the write-ahead log beside it names the         *)
(* database it continues. One command runs at a time. A command may die    *)
(* and the machine may restart between any two steps.                      *)
(***************************************************************************)
EXTENDS Naturals, Sequences, FiniteSets, SequencesExt

CONSTANTS
    None,           \* the file is not there
    Torn,           \* it was truncated, or written in part
    Keys,           \* master keys, one of each installation
    Dirs,           \* data directories
    DefaultDir,     \* installDataDir
    ShallowDirs,    \* directories less than two levels deep
    Paths,          \* where backups are kept
    HereKey, HereDir,       \* this installation, at the start
    Brought,        \* backups brought here from another machine
    MaxRows, MaxCommands, MaxFaults

Database == [key : Keys, rows : 0..MaxRows]
Log == [key : Keys, base : 0..MaxRows, rows : 0..MaxRows]
Archive == [db : Database, env : Keys \union {None, Torn},
            conf : Dirs \union {None, Torn}]

\* A backup from elsewhere was whole when it was made.
ASSUME InstallAssumption ==
    /\ DefaultDir \in Dirs /\ HereDir \in Dirs /\ ShallowDirs \subseteq Dirs
    /\ HereKey \in Keys
    /\ \A b \in Brought : /\ b \in Archive /\ b \notin {None, Torn}
                          /\ b.env \in {None, b.db.key}
    /\ MaxRows \in Nat /\ MaxCommands \in Nat /\ MaxFaults \in Nat
    /\ None # Torn
    /\ {None, Torn} \intersect (Keys \union Dirs \union Database \union Log) = {}

VARIABLES
    db, wal,        \* revpd.db and revpd.db-wal in each data directory
    env, conf,      \* /etc/revpd/.env: a key; revpd.yaml: a data directory
    unit, program,  \* the systemd unit is enabled, the binary is there
    service,        \* what systemd makes of the unit
    serving,        \* the directory and the key the running gateway opened
    backups,        \* the files at Paths
    cmd,            \* the command at the terminal
    commands, faults,   \* bounds
    mixed,          \* why the key and the database may disagree
    overlapped      \* files were swapped while systemd could run the gateway

machineVars == <<db, wal, env, conf, unit, program>>
serviceVars == <<service, serving>>
boundVars == <<commands, faults>>
historyVars == <<mixed, overlapped>>
vars == <<machineVars, serviceVars, backups, cmd, boundVars, historyVars>>

NoArchive == [db |-> None, env |-> None, conf |-> None]
NoServing == [dir |-> None, key |-> None]
NoCommand == [kind |-> "none", pc |-> "idle", path |-> None, args |-> {},
              root |-> FALSE, menu |-> FALSE, agreed |-> FALSE, was |-> FALSE,
              dir |-> None, archive |-> NoArchive, since |-> 0, left |-> <<>>,
              asked |-> {}]

IsDatabase(d) == db[d] \notin {None, Torn}

\* What a reader of the directory sees: the file and the log that continues it.
Committed(d) ==
    IF wal[d] = None THEN db[d]
    ELSE [key |-> db[d].key, rows |-> wal[d].rows]

\* config.Load: the file is there, whole and valid.
Loads == conf \in Dirs
DataDir == IF Loads THEN conf ELSE DefaultDir

----------------------------------------------------------------------------
(* systemd and the gateway.                                                *)

\* serviceState() = "running"; a unit waiting for its next start is
\* "activating", which is not.
IsRunning == service = "running"

\* MasterKey, from the secrets file beside the configuration.
HasKey == env \in Keys

\* openData: a key, a data directory, the database in it, made when missing.
\* Nothing compares the key with the database.
OpenData(d) ==
    /\ HasKey
    /\ db[d] # Torn
    /\ db' = IF db[d] = None
             THEN [db EXCEPT ![d] = [key |-> env, rows |-> 0]] ELSE db

\* cmdServe under systemd: revpd.yaml and the environment file must be there.
ServiceOpens ==
    /\ service = "activating" /\ program
    /\ Loads /\ OpenData(conf)
    /\ service' = "running"
    /\ serving' = [dir |-> conf, key |-> env]
    /\ UNCHANGED <<wal, env, conf, unit, program, backups, cmd, boundVars,
                   historyVars>>

\* A transaction of the gateway: appended to the log beside the database.
Commit ==
    LET d == serving.dir IN
    /\ IsRunning /\ IsDatabase(d) /\ Committed(d).rows < MaxRows
    /\ wal' = [wal EXCEPT ![d] =
                 [key |-> Committed(d).key,
                  base |-> IF wal[d] = None THEN db[d].rows ELSE wal[d].base,
                  rows |-> Committed(d).rows + 1]]
    /\ UNCHANGED <<db, env, conf, unit, program, serviceVars, backups, cmd,
                   boundVars, historyVars>>

\* SQLite moves the log into the database: now and then, and at a clean close.
Checkpointed(d) == [db EXCEPT ![d] = Committed(d)]
Checkpoint ==
    LET d == serving.dir IN
    /\ IsRunning /\ IsDatabase(d) /\ wal[d] # None
    /\ db' = Checkpointed(d)
    /\ wal' = [wal EXCEPT ![d] = None]
    /\ UNCHANGED <<env, conf, unit, program, serviceVars, backups, cmd,
                   boundVars, historyVars>>

CloseCleanly ==
    LET d == serving.dir IN
    IF IsRunning /\ IsDatabase(d) /\ wal[d] # None
    THEN /\ db' = Checkpointed(d)
         /\ wal' = [wal EXCEPT ![d] = None]
    ELSE UNCHANGED <<db, wal>>

\* systemctl stop, which a caller that ignores its error may find undone.
Stop ==
    \/ /\ service' = "stopped" /\ serving' = NoServing
       /\ CloseCleanly
       /\ UNCHANGED faults
    \/ /\ faults < MaxFaults /\ faults' = faults + 1
       /\ UNCHANGED <<serviceVars, db, wal>>

\* The gateway dies, the log stays beside the database; systemd starts it
\* again after RestartSec.
ServiceCrash ==
    /\ IsRunning /\ faults < MaxFaults /\ faults' = faults + 1
    /\ service' = "activating" /\ serving' = NoServing
    /\ UNCHANGED <<machineVars, backups, cmd, commands, historyVars>>

\* A command cut off in the middle of its writes leaves the pieces apart.
CutOff == mixed' = IF cmd.pc \in {"env", "conf"} THEN TRUE ELSE mixed

\* The command is interrupted, or dies.
CommandDies ==
    /\ cmd.pc # "idle" /\ faults < MaxFaults /\ faults' = faults + 1
    /\ cmd' = NoCommand
    /\ CutOff
    /\ UNCHANGED <<machineVars, serviceVars, backups, commands, overlapped>>

\* The machine restarts; an enabled unit is started.
Reboot ==
    /\ faults < MaxFaults /\ faults' = faults + 1
    /\ cmd' = NoCommand
    /\ service' = IF unit THEN "activating" ELSE "stopped"
    /\ serving' = NoServing
    /\ CutOff
    /\ UNCHANGED <<machineVars, backups, commands, overlapped>>

----------------------------------------------------------------------------
(* What every command goes through: typed or picked, then as root.         *)

Kinds == {"backup", "restore", "uninstall", "start", "stop"}

\* uninstallArgv: what the elevated run of an uninstall is told. --yes is not.
UninstallArgv(args) == args \intersect {"--keep-data"}
CommandOnly(c) == {}
ElevatedArgs(c) ==
    IF ~c.menu THEN c.args      \* elevateIfNeeded: the same line again
    ELSE IF c.kind = "uninstall" THEN UninstallArgv(c.args) ELSE {}

\* The menu passes no flags; it stays open and asks for everything.
Flags(kind, menu) ==
    IF menu THEN {}
    ELSE CASE kind = "uninstall" -> {"--keep-data", "--yes"}
           [] kind = "restore" -> {"--yes"}
           [] OTHER -> {}
Line(kind, root, menu, p, args) ==
    [NoCommand EXCEPT
       !.kind = kind, !.pc = "typed", !.root = root, !.menu = menu,
       !.path = IF kind \in {"backup", "restore"} THEN p ELSE None,
       !.args = args, !.asked = args,
       !.since = IF IsDatabase(DataDir) THEN Committed(DataDir).rows ELSE 0]
Type ==
    /\ cmd.pc = "idle" /\ commands < MaxCommands /\ program
    /\ commands' = commands + 1
    /\ \E kind \in Kinds, root \in BOOLEAN, menu \in BOOLEAN, p \in Paths,
          args \in SUBSET {"--keep-data", "--yes"} :
         args \subseteq Flags(kind, menu) /\ cmd' = Line(kind, root, menu, p, args)
    /\ UNCHANGED <<machineVars, serviceVars, backups, faults, historyVars>>

\* runAsRoot: sudo refuses, or runs the line again.
Sudo(c) == {NoCommand, [c EXCEPT !.root = TRUE, !.args = ElevatedArgs(c)]}

\* needRoot: sudo runs the command again as root, or does not and the command
\* is over. A backup picked from the menu goes on without.
Elevate ==
    /\ cmd.pc = "typed" /\ ~cmd.root
    /\ cmd' \in Sudo(cmd)
    /\ UNCHANGED <<machineVars, serviceVars, backups, boundVars, historyVars>>

GiveUp ==
    /\ cmd.pc = "typed" /\ cmd.root
    /\ cmd' = NoCommand
    /\ UNCHANGED <<machineVars, serviceVars, backups, boundVars, historyVars>>

----------------------------------------------------------------------------
(* revpd service start, stop (restart is the one after the other).         *)

ServiceStart ==
    /\ cmd.pc = "typed" /\ cmd.root /\ cmd.kind = "start"
    /\ service' = IF service = "stopped" THEN "activating" ELSE service
    /\ cmd' = NoCommand
    /\ UNCHANGED <<machineVars, serving, backups, boundVars, historyVars>>

ServiceStop ==
    /\ cmd.pc = "typed" /\ cmd.root /\ cmd.kind = "stop"
    /\ Stop
    /\ cmd' = NoCommand
    /\ UNCHANGED <<env, conf, unit, program, backups, commands, historyVars>>

----------------------------------------------------------------------------
(* cmdBackup.                                                               *)

\* VACUUM INTO: the database with what is in its log, in one statement. A
\* copy of the file alone would leave out the log.
FileOnly(d) == db[d]
BackupTo(d) == Committed(d)

\* The path is free or the operator agrees to replace what is there, and
\* gives a passphrase; then the database is opened and its snapshot taken.
BackupSnapshot ==
    /\ cmd.pc = "typed" /\ cmd.root /\ cmd.kind = "backup"
    /\ Loads /\ OpenData(conf)
    /\ cmd' = [cmd EXCEPT !.pc = "snapshot",
         !.archive.db = IF db[conf] = None THEN db'[conf] ELSE BackupTo(conf)]
    /\ UNCHANGED <<wal, env, conf, unit, program, serviceVars, backups,
                   boundVars, historyVars>>

\* backup.WriteFile: sealed in memory, then the file truncated and written. A
\* failed write removes the file; a crash leaves what was written.
WriteFile(archive) ==
    \/ /\ backups' = [backups EXCEPT ![cmd.path] = archive]
       /\ UNCHANGED faults
    \/ /\ faults < MaxFaults /\ faults' = faults + 1
       /\ \E left \in {None, Torn} :
            backups' = [backups EXCEPT ![cmd.path] = left]

\* An entry for each piece there is.
Pack(database, key, cfg) == [db |-> database, env |-> key, conf |-> cfg]

\* The key and the configuration are put in when they can be read.
BackupWrite ==
    /\ cmd.pc = "snapshot"
    /\ \E key \in {env, None}, cfg \in {conf, None} :
         WriteFile(Pack(cmd.archive.db, key, cfg))
    /\ cmd' = NoCommand
    /\ UNCHANGED <<machineVars, serviceVars, commands, historyVars>>

----------------------------------------------------------------------------
(* cmdRestore.                                                              *)

\* PeekFile, the confirmation, the passphrase, ReadFile: nothing is touched
\* before the archive is open. A wrong passphrase, a damaged file and a
\* declined confirmation are GiveUp.
Opens(p) == backups[p] \notin {None, Torn}
Unpacks(archive) == archive.db # None
RestoreUnlock ==
    /\ cmd.pc = "typed" /\ cmd.root /\ cmd.kind = "restore"
    /\ Opens(cmd.path) /\ Unpacks(backups[cmd.path])
    /\ cmd' = [cmd EXCEPT !.pc = "unlocked", !.archive = backups[cmd.path]]
    /\ UNCHANGED <<machineVars, serviceVars, backups, boundVars, historyVars>>

\* A service that is running is stopped; the directory is the one the
\* configuration of this machine names, before it is replaced.
RestoreWithoutStop ==
    /\ cmd.pc = "unlocked"
    /\ cmd' = [cmd EXCEPT !.pc = "sidecars", !.was = IsRunning, !.dir = DataDir]
    /\ UNCHANGED <<machineVars, serviceVars, backups, boundVars, historyVars>>
RestoreStop ==
    /\ cmd.pc = "unlocked"
    /\ IF IsRunning THEN Stop ELSE UNCHANGED <<serviceVars, db, wal, faults>>
    /\ cmd' = [cmd EXCEPT !.pc = "sidecars", !.was = IsRunning, !.dir = DataDir]
    /\ overlapped' = (overlapped \/ service = "activating" \/ faults' # faults)
    /\ UNCHANGED <<env, conf, unit, program, backups, commands, mixed>>

\* One os.WriteFile of a restore: it succeeds and the command goes on, or it
\* fails, before or after the file was truncated, and the command returns.
Written(old, new, next) ==
    \/ /\ cmd' = [cmd EXCEPT !.pc = next]
       /\ UNCHANGED <<faults, mixed>>
       /\ new
    \/ /\ faults < MaxFaults /\ faults' = faults + 1
       /\ cmd' = NoCommand
       /\ mixed' = TRUE
       /\ old

LeaveSidecars(d) == wal
RemoveSidecars(d) == [wal EXCEPT ![d] = None]

RestoreSidecars ==
    /\ cmd.pc = "sidecars"
    /\ wal' = RemoveSidecars(cmd.dir)
    /\ cmd' = [cmd EXCEPT !.pc = "db"]
    /\ UNCHANGED <<db, env, conf, unit, program, serviceVars, backups,
                   boundVars, historyVars>>

RestoreDatabase ==
    /\ cmd.pc = "db"
    /\ Written(\E left \in {db[cmd.dir], Torn} : db' = [db EXCEPT ![cmd.dir] = left],
               db' = [db EXCEPT ![cmd.dir] = cmd.archive.db], "env")
    /\ UNCHANGED <<wal, env, conf, unit, program, serviceVars, backups,
                   commands, overlapped>>

RestoreKeyIfMissing ==
    /\ cmd.pc = "env"
    /\ cmd' = [cmd EXCEPT !.pc = "conf"]
    /\ env' = IF env = None THEN cmd.archive.env ELSE env
    /\ UNCHANGED <<db, wal, conf, unit, program, serviceVars, backups,
                   boundVars, historyVars>>
RestoreKey ==
    /\ cmd.pc = "env"
    /\ IF cmd.archive.env = None
       THEN /\ cmd' = [cmd EXCEPT !.pc = "conf"] /\ mixed' = TRUE
            /\ UNCHANGED <<env, faults>>
       ELSE Written(env' \in {env, Torn}, env' = cmd.archive.env, "conf")
    /\ UNCHANGED <<db, wal, conf, unit, program, serviceVars, backups,
                   commands, overlapped>>

RestoreConfiguration ==
    /\ cmd.pc = "conf"
    /\ IF cmd.archive.conf = None
       THEN /\ cmd' = [cmd EXCEPT !.pc = "start"]
            /\ UNCHANGED <<conf, faults, mixed>>
       ELSE \/ /\ conf' = cmd.archive.conf
               /\ cmd' = [cmd EXCEPT !.pc = "start"]
               /\ mixed' = (mixed \/ conf' # cmd.dir)
               /\ UNCHANGED faults
            \/ /\ faults < MaxFaults /\ faults' = faults + 1
               /\ conf' \in {conf, Torn}
               /\ cmd' = NoCommand
               /\ UNCHANGED mixed
    /\ UNCHANGED <<db, wal, env, unit, program, serviceVars, backups,
                   commands, overlapped>>

\* The owner is set and the service started again if it was running.
RestoreStart ==
    /\ cmd.pc = "start"
    /\ service' = IF cmd.was /\ service = "stopped" THEN "activating" ELSE service
    /\ cmd' = NoCommand
    /\ UNCHANGED <<machineVars, serving, backups, boundVars, historyVars>>

----------------------------------------------------------------------------
(* cmdUninstall.                                                            *)

SafeToRemove(d) == d \notin ShallowDirs

DataSteps == <<"data dir", "conf dir">>
UninstallPlan(keepData) ==
    <<"stop", "disable", "unit files">> \o
    (IF keepData THEN <<>> ELSE DataSteps) \o <<"account", "program">>
Refused(d, keepData) == ~keepData /\ ~SafeToRemove(d)

\* The plan is made, shown and agreed to, by a typed "yes" or by --yes.
UninstallAgree ==
    LET keepData == "--keep-data" \in cmd.args IN
    /\ cmd.pc = "typed" /\ cmd.root /\ cmd.kind = "uninstall"
    /\ ~Refused(DataDir, keepData)
    /\ \E typed \in BOOLEAN :
         /\ typed \/ "--yes" \in cmd.args
         /\ cmd' = [cmd EXCEPT !.pc = "removing", !.agreed = typed,
                               !.dir = DataDir, !.left = UninstallPlan(keepData)]
    /\ UNCHANGED <<machineVars, serviceVars, backups, boundVars, historyVars>>

\* One step of the plan. A path that cannot be removed is noted and the next
\* step taken; a command that fails is not even that.
Failing(d) == /\ faults < MaxFaults /\ faults' = faults + 1
              /\ UNCHANGED <<serviceVars, machineVars>>
RemovalStep ==
    /\ cmd.pc = "removing" /\ cmd.left # <<>>
    /\ cmd' = [cmd EXCEPT !.left = Tail(@)]
    /\ LET step == Head(cmd.left) IN
       \/ Failing(cmd.dir)
       \/ /\ step = "stop" /\ Stop
          /\ UNCHANGED <<env, conf, unit, program>>
       \/ /\ step \in {"disable", "unit files"} /\ unit' = FALSE
          /\ UNCHANGED <<db, wal, env, conf, program, serviceVars, faults>>
       \/ /\ step = "data dir"
          /\ db' = [db EXCEPT ![cmd.dir] = None]
          /\ wal' = [wal EXCEPT ![cmd.dir] = None]
          /\ UNCHANGED <<env, conf, unit, program, serviceVars, faults>>
       \/ /\ step = "conf dir" /\ env' = None /\ conf' = None
          /\ UNCHANGED <<db, wal, unit, program, serviceVars, faults>>
       \/ /\ step = "account"
          /\ UNCHANGED <<machineVars, serviceVars, faults>>
       \/ /\ step = "program" /\ program' = FALSE
          /\ UNCHANGED <<db, wal, env, conf, unit, serviceVars, faults>>
    /\ UNCHANGED <<backups, commands, historyVars>>

Removed ==
    /\ cmd.pc = "removing" /\ cmd.left = <<>>
    /\ cmd' = NoCommand
    /\ UNCHANGED <<machineVars, serviceVars, backups, boundVars, historyVars>>

----------------------------------------------------------------------------

Init ==
    /\ db = [d \in Dirs |-> IF d = HereDir THEN [key |-> HereKey, rows |-> 0] ELSE None]
    /\ wal = [d \in Dirs |-> None]
    /\ env = HereKey /\ conf = HereDir
    /\ unit = TRUE /\ program = TRUE
    /\ service \in {"activating", "stopped"} /\ serving = NoServing
    /\ backups \in [Paths -> Brought \union {None}]
    /\ cmd = NoCommand
    /\ commands = 0 /\ faults = 0
    /\ mixed = FALSE /\ overlapped = FALSE

Next ==
    \/ ServiceOpens \/ Commit \/ Checkpoint
    \/ ServiceCrash \/ CommandDies \/ Reboot
    \/ Type \/ Elevate \/ GiveUp
    \/ ServiceStart \/ ServiceStop
    \/ BackupSnapshot \/ BackupWrite
    \/ RestoreUnlock \/ RestoreStop \/ RestoreSidecars \/ RestoreDatabase \/ RestoreKey
    \/ RestoreConfiguration \/ RestoreStart
    \/ UninstallAgree \/ RemovalStep \/ Removed

Spec == Init /\ [][Next]_vars

----------------------------------------------------------------------------
(* Properties.                                                              *)

TypeOK ==
    /\ db \in [Dirs -> Database \union {None, Torn}]
    /\ wal \in [Dirs -> Log \union {None}]
    /\ env \in Keys \union {None, Torn} /\ conf \in Dirs \union {None, Torn}
    /\ unit \in BOOLEAN /\ program \in BOOLEAN
    /\ service \in {"stopped", "activating", "running"}
    /\ IsRunning => serving \in [dir : Dirs, key : Keys]
    /\ backups \in [Paths -> Archive \union {None, Torn}]
    /\ commands \in 0..MaxCommands /\ faults \in 0..MaxFaults
    /\ mixed \in BOOLEAN /\ overlapped \in BOOLEAN

\* A write-ahead log continues the database it lies beside, through crashes of
\* the gateway, restores cut off anywhere and restarts of the machine, except
\* where files were swapped while systemd could run the gateway.
LogContinuesItsDatabase ==
    \A d \in Dirs : wal[d] = None \/ overlapped
        \/ /\ IsDatabase(d)
           /\ wal[d].key = db[d].key /\ wal[d].base = db[d].rows

\* The gateway holds the key of the database it serves, as long as no restore
\* was cut off, lacked the key, or put the database elsewhere than the
\* configuration it restored says.
ServesWithItsKey ==
    IsRunning /\ IsDatabase(serving.dir) /\ ~mixed /\ ~overlapped
        => db[serving.dir].key = serving.key

\* When a restore is about to start the service, what lies on the disk is what
\* the backup held: nothing wrote to it while it was swapped.
RestoreBringsBack ==
    cmd.pc = "start" /\ ~overlapped =>
        /\ db[cmd.dir] = cmd.archive.db /\ wal[cmd.dir] = None
        /\ cmd.archive.env \in {None, env}
        /\ cmd.archive.conf \in {None, conf}

\* A backup holds every transaction committed before it was asked for, the
\* ones still in the log included.
BackupHoldsCommitted ==
    [][ \A p \in Paths :
          cmd.kind = "backup" /\ backups'[p] # backups[p]
            /\ backups'[p] \notin {None, Torn}
          => backups'[p].db.rows >= cmd.since ]_vars

\* A database goes only in an uninstall that was agreed to, was not asked to
\* keep the data, however it became root, and names a directory deep enough.
KeptUnlessAgreed ==
    [][ \A d \in Dirs : db[d] # None /\ db'[d] = None =>
          /\ cmd.kind = "uninstall" /\ cmd.dir = d /\ SafeToRemove(d)
          /\ "--keep-data" \notin cmd.asked
          /\ cmd.agreed \/ "--yes" \in cmd.asked ]_vars
=============================================================================
