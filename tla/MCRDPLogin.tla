----------------------------- MODULE MCRDPLogin -----------------------------
(* Logins, an approval and unlocks after the same machine: a login beside   *)
(* each of the others and beside two unlocks at once.                       *)
EXTENDS RDPLogin

CONSTANTS l1, l2, a1, u1, u2

MCLogins == {l1, l2}
MCApprovals == {a1}
MCUnlocks == {u1, u2}
MCCallers == MCLogins \union MCApprovals \union MCUnlocks
MCParties == {{l1, a1}, {l1, l2}, {l1, u1, u2}, {a1, u1}}
=============================================================================
