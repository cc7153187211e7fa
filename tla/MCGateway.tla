------------------------------ MODULE MCGateway ------------------------------
(* Small instances of Gateway for TLC. *)
EXTENDS Gateway, TLC

CONSTANTS u1, u2, t1, t2, a1, a2, k1, k2, c1, c2, c3, r1, r2

\* One address, and two addresses under keys of their own.
OneAddr == [a \in {a1} |-> k1]
OwnKeys == [a \in {a1, a2} |-> IF a = a1 THEN k1 ELSE k2]

\* Connections are interchangeable, and so are unlock requests.
ConnSymmetry == Permutations(Conns) \cup Permutations(Reqs)
=============================================================================
