---------------------------- MODULE AccessPromise ----------------------------
(***************************************************************************)
(* What the gateway promises about one RDP port, with no word of how: a    *)
(* connection gets inside a machine only under an account that proved      *)
(* itself from the address it comes from, and a redirect token opens the   *)
(* door to one connection.                                                 *)
(***************************************************************************)
CONSTANTS Users, Targets, Keys, Addrs, KeyOf, Conns, None

VARIABLES
  from,      \* the address of each connection, None before it arrives
  proven,    \* <<user, key>> pairs that passed MFA or approved a request
  redeemed,  \* the connections each redirect token has admitted
  inside     \* <<user, target>> for a connection that is let in, or None

vars == <<from, proven, redeemed, inside>>

Init ==
  /\ from = [c \in Conns |-> None]
  /\ proven = {}
  /\ redeemed = [t \in Conns |-> {}]
  /\ inside = [c \in Conns |-> None]

Arrive(c, a) ==
  /\ from[c] = None
  /\ from' = [from EXCEPT ![c] = a]
  /\ UNCHANGED <<proven, redeemed, inside>>

Prove(u, k) ==
  /\ proven' = proven \cup {<<u, k>>}
  /\ UNCHANGED <<from, redeemed, inside>>

Redeem(t, c) ==
  /\ redeemed[t] = {}
  /\ redeemed' = [redeemed EXCEPT ![t] = {c}]
  /\ UNCHANGED <<from, proven, inside>>

Enter(c, u, t) ==
  /\ inside[c] = None
  /\ from[c] # None
  /\ <<u, KeyOf[from[c]]>> \in proven
  /\ inside' = [inside EXCEPT ![c] = <<u, t>>]
  /\ UNCHANGED <<from, proven, redeemed>>

\* One connection ends, or the service stops and they all do.
Leave(S) ==
  /\ inside' = [c \in Conns |-> IF c \in S THEN None ELSE inside[c]]
  /\ UNCHANGED <<from, proven, redeemed>>

Next ==
  \/ \E c \in Conns, a \in Addrs : Arrive(c, a)
  \/ \E u \in Users, k \in Keys : Prove(u, k)
  \/ \E t, c \in Conns : Redeem(t, c)
  \/ \E c \in Conns, u \in Users, t \in Targets : Enter(c, u, t)
  \/ \E S \in SUBSET Conns : Leave(S)

Spec == Init /\ [][Next]_vars
=============================================================================
