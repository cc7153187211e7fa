----------------------------- MODULE MCEventLog -----------------------------
(* Small instances of the audit log and its notifier.                      *)
EXTENDS EventLog, TLC

CONSTANTS s1, s2, cli, service, command, opened, lockout

Where == (s1 :> service) @@ (s2 :> service) @@ (cli :> command)
Share == (s1 :> 2) @@ (s2 :> 1) @@ (cli :> 1)
Preferences == {{opened}, {}}
=============================================================================
