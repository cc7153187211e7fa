------------------------------- MODULE Lockout -------------------------------
(***************************************************************************)
(* The failure counters of internal/auth: one map behind one mutex, kept   *)
(* in memory, keyed by address or by account, that both doors, the second  *)
(* step and the passkey login touch on every attempt.                      *)
(***************************************************************************)
EXTENDS Integers

CONSTANTS
  MaxFailures,    \* auth.max_failures
  LockoutBase,    \* auth.lockout_base
  LockoutMax,     \* auth.lockout_max
  ShiftCap,       \* the 16 of Fail
  KeepAfter       \* the hour an ended lock is remembered

ASSUME LockoutAssumption ==
  /\ MaxFailures \in Nat \ {0}
  /\ LockoutBase \in Nat /\ LockoutMax \in Nat
  /\ ShiftCap \in Nat /\ KeepAfter \in Nat

VARIABLES
  now,
  failures        \* key -> [count, until]

NoLock == -1      \* the zero time of a counter that never reached the threshold

Keyed(kind, name) == <<kind, name>>

\* not now.After(until)
Locked(k) == k \in DOMAIN failures /\ now <= failures[k].until

\* Mutant: the wait is not capped.
BackoffUncapped(n) == LockoutBase * 2^(n - MaxFailures)

\* Doubled for every attempt past the threshold, up to the cap.
Backoff(n) ==
  LET shift == IF n - MaxFailures < ShiftCap THEN n - MaxFailures ELSE ShiftCap
      wait  == LockoutBase * 2^shift
  IN  IF wait > LockoutMax \/ wait <= 0 THEN LockoutMax ELSE wait

CountOf(k) == IF k \in DOMAIN failures THEN failures[k].count ELSE 0

Fail(k) ==
  LET n == CountOf(k) + 1
  IN  failures' = [x \in DOMAIN failures \cup {k} |->
                     IF x # k THEN failures[x]
                     ELSE [count |-> n,
                           until |-> IF n < MaxFailures THEN NoLock ELSE now + Backoff(n)]]

Without(ks) == [x \in DOMAIN failures \ ks |-> failures[x]]

Succeed(k) == failures' = Without({k})

\* Drops what never locked, and a lock that ended more than KeepAfter ago.
SweepLockouts ==
  failures' = Without({k \in DOMAIN failures :
                         \/ failures[k].until = NoLock
                         \/ now > failures[k].until + KeepAfter})
=============================================================================
