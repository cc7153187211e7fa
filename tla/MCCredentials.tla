--------------------------- MODULE MCCredentials ---------------------------
(* Small instances of Credentials for TLC. *)
EXTENDS Credentials, TLC

CONSTANTS u1, u2, a1, a2, k1, k2, q1, q2, q3, q4

Full(i, u, a) == [id |-> i, user |-> u, addr |-> a, stage |-> "full"]

\* A gateway nobody has set up.
Fresh == [accounts |-> {}, totp |-> {}, passkeys |-> {}, sessions |-> {},
          traffic |-> {"setup", "password", "cli", "enrol", "restart", "logout"}]

\* Passwords and codes at both doors, for an account with a factor and one without.
Doors == [accounts |-> {u1, u2}, totp |-> {u1}, passkeys |-> {}, sessions |-> {},
          traffic |-> {"password", "rdp", "mfa", "clock", "restart"}]

\* Passkeys of two people behind one address.
Passkeys == [accounts |-> {u1, u2}, totp |-> {u1}, passkeys |-> {Passkey(1, u1, k1, 0)},
             sessions |-> {Full(1, u2, a1)},
             traffic |-> {"register", "passkey", "delete", "cli", "lock"}]

AllWorlds == {Fresh, Doors, Passkeys}

ReqSymmetry == Permutations(Reqs)
=============================================================================
