------------------------------ MODULE MCSignIn ------------------------------
(* Small instances of SignIn for TLC. *)
EXTENDS SignIn, TLC

CONSTANTS u1, u2, q1, q2, q3, k1

ReqSymmetry == Permutations(Reqs)

\* One account with an authenticator and codes, one with a passkey; and a gateway
\* nobody has set up.
InUse == [accounts |-> {u1, u2}, enrolled |-> {u1}, owner |-> [k \in Keys |-> u2]]
Fresh == [accounts |-> {}, enrolled |-> {}, owner |-> [k \in Keys |-> None]]
BothWorlds == {InUse, Fresh}
=============================================================================
