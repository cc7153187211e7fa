----------------------------- MODULE MCUpdater ------------------------------
(* Small worlds of the updater: what one of them leaves out is in another. *)
EXTENDS Updater

CONSTANTS b1, b2, b3, j1, j2, cmd

\* Two goroutines, two stagings and a settings restart, one bad release.
TwoStagers == [sound |-> {b1, b2}, jobs |-> {j1, j2},
               pathUnit |-> TRUE, stages |-> 2, crashes |-> 0,
               restarts |-> 1, restores |-> 0, crashed |-> FALSE, overlapped |-> FALSE]

\* One crash or reboot anywhere in up to three updates, one of them bad.
OneCrash == [sound |-> {b1, b2}, jobs |-> {j1}, pathUnit |-> TRUE, stages |-> 3,
             crashes |-> 1, restarts |-> 0, restores |-> 0,
             crashed |-> FALSE, overlapped |-> FALSE]

\* No path unit: a root command installs and goes back, the service stages.
ByCommand == [sound |-> {b1, b2, b3}, jobs |-> {j1, cmd}, pathUnit |-> FALSE, stages |-> 3,
              crashes |-> 0, restarts |-> 1, restores |-> 2,
              crashed |-> FALSE, overlapped |-> FALSE]

\* The path unit is installed and a root command installs all the same: twice,
\* one after the other or at once; or once, with a way back, while the service
\* stages too.
TwoInstalls == [sound |-> {b1, b2}, jobs |-> {cmd}, pathUnit |-> TRUE, stages |-> 2,
                crashes |-> 0, restarts |-> 0, restores |-> 0,
                crashed |-> FALSE, overlapped |-> FALSE]
AndBack == [sound |-> {b1, b2}, jobs |-> {j1, cmd}, pathUnit |-> TRUE, stages |-> 1,
            crashes |-> 0, restarts |-> 0, restores |-> 1,
            crashed |-> FALSE, overlapped |-> FALSE]

MCWorlds == {TwoStagers, OneCrash, ByCommand, TwoInstalls, AndBack}
CrashWorld == {OneCrash}
=============================================================================
