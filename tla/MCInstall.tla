----------------------------- MODULE MCInstall ------------------------------
(* A machine and the backup of another one, which keeps its data elsewhere. *)
EXTENDS Install

CONSTANTS k1, k2, var, srv, root, usb, home

MCKeys == {k1, k2}
MCDirs == {var, srv, root}
MCPaths == {usb, home}
FromThere(key, dir) == [db |-> [key |-> k2, rows |-> 1], env |-> key, conf |-> dir]
MCBrought == {FromThere(k2, var), FromThere(None, srv), FromThere(k2, root)}
=============================================================================
