------------------------- MODULE CredentialsProofs -------------------------
(***************************************************************************)
(* Theorems about Credentials, for every set of names, addresses,          *)
(* authenticators and requests, whatever world they start from.            *)
(***************************************************************************)
EXTENDS Credentials, TLAPS

-----------------------------------------------------------------------------
(* The counters. *)

CountersOK ==
  /\ now \in Nat
  /\ \A k \in DOMAIN failures : /\ failures[k].count \in Nat
                                /\ failures[k].until \in Int
                                /\ failures[k].until <= now + LockoutMax

LEMMA BackoffCapped ==
  ASSUME NEW n \in Nat, n >= MaxFailures
  PROVE  Backoff(n) \in Int /\ Backoff(n) <= LockoutMax
<1> DEFINE shift == IF n - MaxFailures < ShiftCap THEN n - MaxFailures ELSE ShiftCap
           wait == LockoutBase * 2^shift
<1>1. shift \in Nat
  BY LockoutAssumption
<1> HIDE DEF shift
<1>2. wait \in Int
  BY <1>1, LockoutAssumption
<1>3. Backoff(n) = IF wait > LockoutMax \/ wait <= 0 THEN LockoutMax ELSE wait
  BY DEF Backoff, shift
<1> HIDE DEF wait
<1>4. QED BY <1>2, <1>3, LockoutAssumption

LEMMA FailKeepsCounters ==
  ASSUME CountersOK, NEW k, Fail(k), now' = now
  PROVE  CountersOK'
<1> DEFINE n == CountOf(k) + 1
           row == [count |-> n, until |-> IF n < MaxFailures THEN NoLock ELSE now + Backoff(n)]
<1>1. n \in Nat
  BY DEF CountersOK, CountOf
<1>2. row.count \in Nat /\ row.until \in Int /\ row.until <= now + LockoutMax
  <2> HIDE DEF n
  <2>1. CASE n < MaxFailures
    BY <1>1, <2>1, LockoutAssumption DEF CountersOK, NoLock
  <2>2. CASE ~(n < MaxFailures)
    BY <1>1, <2>2, BackoffCapped, LockoutAssumption DEF CountersOK
  <2>3. QED BY <2>1, <2>2
<1>3. failures' = [x \in DOMAIN failures \cup {k} |-> IF x # k THEN failures[x] ELSE row]
  BY DEF Fail
<1> HIDE DEF row
<1>4. QED BY <1>2, <1>3 DEF CountersOK

LEMMA FewerKeepCounters ==
  ASSUME CountersOK, NEW ks, failures' = Without(ks), now' = now
  PROVE  CountersOK'
BY DEF CountersOK, Without

-----------------------------------------------------------------------------
(* A request on its way. *)

Fields == {"kind", "user", "addr", "stage", "token", "totp", "key", "row", "count", "answers",
           "op", "keys", "then"}

Pair(q) == [user |-> req[q].user, key |-> req[q].key]

\* A passkey login knows whose key it is once it has found the row.
OwnerKnown(q) == req[q].kind = "passkey" =>
  /\ pc[q] \in {"address", "take", "find", "owner", "advance", "settle", "start", "done"}
  /\ pc[q] = "settle" => req[q].then \in {"done", "start"}
  /\ pc[q] \in {"owner", "advance", "start"} => Pair(q) \in registered
  /\ pc[q] = "settle" /\ req[q].then = "start" => Pair(q) \in registered

\* What a request clears is its own, and only after it proved itself.
ClearsOwn(q) == pc[q] = "settle" =>
  /\ req[q].keys \in Seq(Own(q)) /\ req[q].keys # <<>>
  /\ req[q].then \in {"done", "drop", "start"}
  /\ req[q].op # "Fail" => q \in proven

OnItsWay(q) == DOMAIN req[q] = Fields /\ OwnerKnown(q) /\ ClearsOwn(q)

\* What a step of another request leaves alone.
Untouched(q) == /\ pc'[q] = pc[q] /\ req'[q] = req[q]
                /\ q \in proven => q \in proven'
                /\ registered \subseteq registered'

LEMMA UntouchedKeeps ==
  ASSUME NEW q, OnItsWay(q), Untouched(q)
  PROVE  OnItsWay(q)'
BY DEF OnItsWay, Untouched, OwnerKnown, ClearsOwn, Pair, Own, ByAddress, ByAccount, ByFactor, User

Columns == {"id", "user", "key", "count"}
RowsOwned == /\ \A p \in passkeys : /\ DOMAIN p = Columns
                                    /\ [user |-> p.user, key |-> p.key] \in registered
             /\ opened \subseteq registered

Requests == DOMAIN pc = Reqs /\ DOMAIN req = Reqs

LEMMA NoReqFields == DOMAIN NoReq = Fields
BY DEF NoReq, Fields

LEMMA KeepOne ==
  ASSUME Requests, NEW q \in Reqs, NEW r, Keep(q, r)
  PROVE  /\ DOMAIN req' = Reqs /\ req'[q] = r
         /\ \A p \in Reqs \ {q} : req'[p] = req[p]
BY DEF Keep, Requests

LEMMA GotoOne ==
  ASSUME Requests, NEW q \in Reqs, NEW l, Goto(q, l)
  PROVE  /\ DOMAIN pc' = Reqs /\ pc'[q] = l
         /\ \A p \in Reqs \ {q} : pc'[p] = pc[p]
BY DEF Goto, Requests

\* What a step does to the requests it is not about.
Alone(q) == Requests' /\ \A p \in Reqs \ {q} : pc'[p] = pc[p] /\ req'[p] = req[p]

LEMMA Settles ==
  ASSUME Requests, NEW q \in Reqs, DOMAIN req[q] = Fields, NEW op, NEW keys, NEW then,
         Settle(q, op, keys, then)
  PROVE  /\ Alone(q) /\ pc'[q] = "settle" /\ DOMAIN req'[q] = Fields
         /\ req'[q].op = op /\ req'[q].keys = keys /\ req'[q].then = then
         /\ req'[q].kind = req[q].kind /\ req'[q].user = req[q].user
         /\ req'[q].addr = req[q].addr /\ req'[q].key = req[q].key
<1> DEFINE r == [req[q] EXCEPT !.op = op, !.keys = keys, !.then = then]
<1>1. Keep(q, r) /\ Goto(q, "settle")
  BY DEF Settle
<1>2. /\ DOMAIN r = Fields /\ r.op = op /\ r.keys = keys /\ r.then = then
      /\ r.kind = req[q].kind /\ r.user = req[q].user
      /\ r.addr = req[q].addr /\ r.key = req[q].key
  BY DEF Fields
<1> HIDE DEF r
<1>3. req'[q] = r /\ pc'[q] = "settle" /\ Alone(q)
  BY <1>1, KeepOne, GotoOne DEF Alone, Requests
<1>4. QED BY <1>2, <1>3

LEMMA OwnKeys ==
  ASSUME NEW q, NEW a \in Own(q), NEW b \in Own(q)
  PROVE  /\ <<a, b>> \in Seq(Own(q)) /\ <<a, b>> # <<>>
         /\ <<a>> \in Seq(Own(q)) /\ <<a>> # <<>>
<1> HIDE DEF Own
<1>1. QED OBVIOUS

\* A settling request that has nothing of a passkey login about it.
LEMMA Settled ==
  ASSUME Requests, NEW q \in Reqs, OnItsWay(q), NEW op, NEW then, NEW keys \in Seq(Own(q)),
         Settle(q, op, keys, then), keys # <<>>, op # "Fail" => q \in proven',
         then \in {"done", "drop", "start"}, req[q].kind = "passkey" => then = "done"
  PROVE  OnItsWay(q)' /\ Alone(q)
<1>1. /\ Alone(q) /\ pc'[q] = "settle" /\ DOMAIN req'[q] = Fields
      /\ req'[q].op = op /\ req'[q].keys = keys /\ req'[q].then = then
      /\ req'[q].kind = req[q].kind
      /\ req'[q].user = req[q].user /\ req'[q].addr = req[q].addr
  BY Settles DEF OnItsWay
<1>2. Own(q)' = Own(q)
  BY <1>1 DEF Own, ByAddress, ByAccount, ByFactor, User
<1>3. ClearsOwn(q)'
  BY <1>1, <1>2 DEF ClearsOwn
<1>4. OwnerKnown(q)'
  BY <1>1 DEF OwnerKnown
<1>5. QED BY <1>1, <1>3, <1>4 DEF OnItsWay

\* One that only moves on, somewhere its kind may be.
LEMMA Moves ==
  ASSUME Requests, NEW q \in Reqs, OnItsWay(q), NEW l, Goto(q, l), req' = req,
         l # "settle", registered' = registered,
         req[q].kind = "passkey" =>
            \/ l \in {"address", "take", "find", "done"}
            \/ l \in {"owner", "advance", "start"} /\ Pair(q) \in registered
  PROVE  OnItsWay(q)' /\ Alone(q)
<1>1. Alone(q) /\ pc'[q] = l
  BY GotoOne DEF Alone, Requests
<1>2. Pair(q)' = Pair(q)
  BY DEF Pair
<1>3. QED BY <1>1, <1>2 DEF OnItsWay, OwnerKnown, ClearsOwn

\* One that begins, or remembers something, outside the passkey login.
LEMMA Begins ==
  ASSUME Requests, NEW q \in Reqs, NEW l, NEW r, Goto(q, l), Keep(q, r), DOMAIN r = Fields,
         l # "settle",
         r.kind = "passkey" => l \in {"address", "take", "find", "done"}
  PROVE  OnItsWay(q)' /\ Alone(q)
<1>1. Alone(q) /\ pc'[q] = l /\ req'[q] = r
  BY GotoOne, KeepOne DEF Alone, Requests
<1>2. QED BY <1>1 DEF OnItsWay, OwnerKnown, ClearsOwn

Others(q) == /\ registered \subseteq registered'
             /\ proven \subseteq proven'

(***************************************************************************)
(* Every handler, step by step.                                            *)
(***************************************************************************)

LEMMA RequestLocal ==
  ASSUME Requests, NEW q \in Reqs, OnItsWay(q), RowsOwned, Request(q)
  PROVE  OnItsWay(q)' /\ Alone(q) /\ Others(q)
<1> USE DEF history, Others
<1>1. CASE SetupAdmin(q)
  <2>1. PICK u \in Users, a \in Addrs : Arrive(q, "setup", u, a)
    BY <1>1 DEF SetupAdmin
  <2>2. QED BY <1>1, <2>1, NoReqFields, Begins DEF SetupAdmin, Arrive, Fields
<1>2. CASE CreateFirstAdmin(q)
  <2>0. req[q].kind # "passkey"
    BY <1>2 DEF CreateFirstAdmin, OnItsWay, OwnerKnown
  <2>1. CASE accounts = {}
    BY <1>2, <2>0, <2>1, Begins DEF CreateFirstAdmin, Fields, OnItsWay
  <2>2. CASE accounts # {}
    BY <1>2, <2>0, <2>2, Moves DEF CreateFirstAdmin
  <2>3. QED BY <2>1, <2>2
<1>3. CASE Knock(q)
  <2>1. PICK u \in Users, a \in Addrs, door \in {"password", "rdp"} : Arrive(q, door, u, a)
    BY <1>3 DEF Knock
  <2>2. QED BY <1>3, <2>1, NoReqFields, Begins DEF Knock, Arrive, Fields
<1>4. CASE AskAddress(q)
  BY <1>4, Moves DEF AskAddress
<1>5. CASE AskAccount(q)
  BY <1>5, Moves DEF AskAccount, OnItsWay, OwnerKnown
<1>6. CASE WrongPassword(q)
  <2>1. ByAddress(q) \in Own(q) /\ ByAccount(q) \in Own(q)
    BY DEF Own
  <2>2. QED BY <1>6, <2>1, OwnKeys, Settled DEF WrongPassword
<1>7. CASE PortalPassword(q)
  <2>0. req[q].kind # "passkey"
    BY <1>7 DEF PortalPassword
  <2>1. CASE req' = req
    BY <1>7, <2>0, <2>1, Moves DEF PortalPassword
  <2>2. CASE \E v \in {"pending", "full"} :
               Keep(q, [req[q] EXCEPT !.stage = v]) /\ Goto(q, "start")
    BY <1>7, <2>0, <2>2, Begins DEF PortalPassword, Fields, OnItsWay
  <2>3. QED BY <1>7, <2>1, <2>2 DEF PortalPassword
<1>8. CASE RDPPassword(q)
  <2>0. req[q].kind # "passkey"
    BY <1>8 DEF RDPPassword
  <2>1. ByAddress(q) \in Own(q) /\ ByAccount(q) \in Own(q)
    BY DEF Own
  <2>2. CASE /\ Goto(q, "factor") /\ Keep(q, [req[q] EXCEPT !.totp = User(q) \in totp])
             /\ UNCHANGED proven
    <3>1. UNCHANGED registered
      BY <1>8 DEF RDPPassword
    <3>2. DOMAIN [req[q] EXCEPT !.totp = User(q) \in totp] = Fields
      BY DEF OnItsWay, Fields
    <3>3. [req[q] EXCEPT !.totp = User(q) \in totp].kind = req[q].kind
      BY DEF OnItsWay, Fields
    <3>4. QED BY <2>0, <2>2, <3>1, <3>2, <3>3, Begins
  <2>3. CASE Settle(q, "Fail", <<ByAddress(q), ByAccount(q)>>, "done") /\ UNCHANGED proven
    BY <1>8, <2>1, <2>3, OwnKeys, Settled DEF RDPPassword
  <2>4. CASE Settle(q, "Succeed", <<ByAddress(q), ByAccount(q)>>, "done")
             /\ proven' = proven \cup {q}
    BY <1>8, <2>1, <2>4, OwnKeys, Settled DEF RDPPassword
  <2>5. QED BY <1>8, <2>2, <2>3, <2>4 DEF RDPPassword
<1>9. CASE MFA(q)
  <2>1. PICK s \in sessions :
          Keep(q, [NoReq EXCEPT !.kind = "mfa", !.user = s.user, !.addr = s.addr,
                                !.token = s.id, !.totp = s.user \in totp])
    BY <1>9 DEF MFA
  <2> DEFINE r == [NoReq EXCEPT !.kind = "mfa", !.user = s.user, !.addr = s.addr,
                                !.token = s.id, !.totp = s.user \in totp]
  <2>2. DOMAIN r = Fields
    BY NoReqFields DEF Fields
  <2>3. r.kind = "mfa"
    BY NoReqFields DEF Fields
  <2> HIDE DEF r
  <2>4. QED BY <1>9, <2>1, <2>2, <2>3, Begins DEF MFA, r
<1>10. CASE AskFactor(q)
  BY <1>10, Moves DEF AskFactor, OnItsWay, OwnerKnown
<1>11. CASE WrongFactor(q)
  <2>1. /\ ByAddress(q) \in Own(q) /\ ByAccount(q) \in Own(q) /\ ByFactor(q) \in Own(q)
    BY DEF Own
  <2>2. FactorKeys(q) \in Seq(Own(q)) /\ FactorKeys(q) # <<>>
    BY <2>1, OwnKeys DEF FactorKeys
  <2>3. QED BY <1>11, <2>2, Settled DEF WrongFactor
<1>12. CASE RightFactor(q)
  <2>0. req[q].kind # "passkey"
    BY <1>12 DEF RightFactor, OnItsWay, OwnerKnown
  <2>1. /\ ByAddress(q) \in Own(q) /\ ByAccount(q) \in Own(q) /\ ByFactor(q) \in Own(q)
    BY DEF Own
  <2>2. FactorKeys(q) \in Seq(Own(q)) /\ FactorKeys(q) # <<>>
    BY <2>1, OwnKeys DEF FactorKeys
  <2>3. QED BY <1>12, <2>0, <2>2, Settled DEF RightFactor
<1>13. CASE DropPending(q)
  <2>0. req[q].kind # "passkey"
    BY <1>13 DEF DropPending, OnItsWay, OwnerKnown
  <2>1. QED BY <1>13, <2>0, Begins DEF DropPending, Fields, OnItsWay
<1>14. CASE PasskeyRegisterFinish(q)
  <2>1. PICK s \in sessions, k \in Keys, v \in 0..challengeSeq, n \in 0..MaxCount :
          Keep(q, [NoReq EXCEPT !.kind = "register", !.user = s.user, !.addr = s.addr,
                                !.key = k, !.answers = v, !.count = n])
    BY <1>14 DEF PasskeyRegisterFinish, Response
  <2> DEFINE r == [NoReq EXCEPT !.kind = "register", !.user = s.user, !.addr = s.addr,
                                !.key = k, !.answers = v, !.count = n]
  <2>2. DOMAIN r = Fields
    BY NoReqFields DEF Fields
  <2> HIDE DEF r
  <2>3. QED BY <1>14, <2>1, <2>2, Begins DEF PasskeyRegisterFinish, r
<1>15. CASE PasskeyLoginFinish(q)
  <2>1. PICK a \in Addrs, k \in Keys, v \in 0..challengeSeq, n \in 0..MaxCount :
          Keep(q, [NoReq EXCEPT !.kind = "passkey", !.user = None, !.addr = a,
                                !.key = k, !.answers = v, !.count = n])
    BY <1>15 DEF PasskeyLoginFinish, Response
  <2> DEFINE r == [NoReq EXCEPT !.kind = "passkey", !.user = None, !.addr = a,
                                !.key = k, !.answers = v, !.count = n]
  <2>2. DOMAIN r = Fields
    BY NoReqFields DEF Fields
  <2> HIDE DEF r
  <2>3. QED BY <1>15, <2>1, <2>2, Begins DEF PasskeyLoginFinish, r
<1>16. CASE TakeChallenge(q)
  <2> DEFINE v == IF Matches(q) THEN req[q].answers ELSE 0
             r == [req[q] EXCEPT !.answers = v]
  <2>1. DOMAIN r = Fields /\ r.kind = req[q].kind
    BY DEF OnItsWay, Fields
  <2>2. Keep(q, r)
    BY <1>16 DEF TakeChallenge
  <2> HIDE DEF r
  <2>3. QED BY <1>16, <2>1, <2>2, Begins DEF TakeChallenge
<1>17. CASE AddPasskey(q)
  <2>0. req[q].kind # "passkey"
    BY <1>17 DEF AddPasskey, OnItsWay, OwnerKnown
  <2>1. Alone(q) /\ pc'[q] = "done" /\ req'[q] = req[q]
    BY <1>17, GotoOne DEF AddPasskey, Alone, Requests
  <2>2. Others(q)
    BY <1>17 DEF AddPasskey
  <2>3. QED BY <2>0, <2>1, <2>2 DEF OnItsWay, OwnerKnown, ClearsOwn
<1>18. CASE FindPasskey(q)
  <2>1. ByAddress(q) \in Own(q)
    BY DEF Own
  <2>2. CASE Settle(q, "Fail", <<ByAddress(q)>>, "done")
    BY <1>18, <2>1, <2>2, OwnKeys, Settled DEF FindPasskey
  <2>3. ASSUME NEW p \in passkeys, p.key = req[q].key, Goto(q, "owner"),
               Keep(q, [req[q] EXCEPT !.user = p.user, !.row = p.id])
        PROVE  OnItsWay(q)' /\ Alone(q)
    <3> DEFINE r == [req[q] EXCEPT !.user = p.user, !.row = p.id]
    <3>1. DOMAIN r = Fields /\ r.user = p.user /\ r.key = p.key
      BY <2>3 DEF OnItsWay, Fields
    <3>2. Keep(q, r)
      BY <2>3
    <3> HIDE DEF r
    <3>3. Alone(q) /\ req'[q] = r /\ pc'[q] = "owner"
      BY <2>3, <3>2, KeepOne, GotoOne DEF Alone, Requests
    <3>4. Pair(q)' \in registered'
      BY <1>18, <3>1, <3>3 DEF FindPasskey, RowsOwned, Pair
    <3>5. QED BY <3>1, <3>3, <3>4 DEF OnItsWay, OwnerKnown, ClearsOwn
  <2>4. Others(q)
    BY <1>18 DEF FindPasskey
  <2>5. QED BY <1>18, <2>2, <2>3, <2>4 DEF FindPasskey
<1>19. CASE LoadOwner(q)
  BY <1>19, Moves DEF LoadOwner, OnItsWay, OwnerKnown
<1>20. CASE UpdateSignCount(q)
  <2> DEFINE r == [req[q] EXCEPT !.op = "Succeed", !.keys = <<ByAddress(q)>>,
                                 !.then = "start", !.stage = "full"]
  <2>1. /\ DOMAIN r = Fields /\ r.kind = req[q].kind /\ r.user = req[q].user
        /\ r.key = req[q].key /\ r.addr = req[q].addr
        /\ r.keys = <<ByAddress(q)>> /\ r.then = "start"
    BY DEF OnItsWay, Fields
  <2>2. Keep(q, r)
    BY <1>20 DEF UpdateSignCount
  <2> HIDE DEF r
  <2>3. Alone(q) /\ req'[q] = r /\ pc'[q] = "settle"
    BY <1>20, <2>2, KeepOne, GotoOne DEF UpdateSignCount, Alone, Requests
  <2>4. ByAddress(q) \in Own(q)
    BY DEF Own
  <2>5. Own(q)' = Own(q) /\ Pair(q)' = Pair(q)
    BY <2>1, <2>3 DEF Own, ByAddress, ByAccount, ByFactor, User, Pair
  <2>6. ClearsOwn(q)'
    BY <1>20, <2>1, <2>3, <2>4, <2>5, OwnKeys DEF UpdateSignCount, ClearsOwn
  <2>7. OwnerKnown(q)'
    BY <1>20, <2>1, <2>3, <2>5 DEF UpdateSignCount, OwnerKnown, OnItsWay
  <2>8. QED BY <1>20, <2>1, <2>3, <2>6, <2>7 DEF UpdateSignCount, OnItsWay
<1>21. CASE DeletePasskey(q)
  <2>1. PICK u \in accounts, p \in passkeys, kind \in {"delete", "cli"} :
          Keep(q, [NoReq EXCEPT !.kind = kind, !.user = u, !.row = p.id, !.totp = u \in totp])
    BY <1>21 DEF DeletePasskey
  <2> DEFINE r == [NoReq EXCEPT !.kind = kind, !.user = u, !.row = p.id, !.totp = u \in totp]
  <2>2. DOMAIN r = Fields
    BY NoReqFields DEF Fields
  <2>3. r.kind # "passkey"
    BY NoReqFields DEF Fields
  <2> HIDE DEF r
  <2>4. QED BY <1>21, <2>1, <2>2, <2>3, Begins DEF DeletePasskey, r
<1>22. CASE CountPasskeys(q)
  BY <1>22, Moves DEF CountPasskeys, OnItsWay, OwnerKnown
<1>23. CASE RemovePasskey(q)
  BY <1>23, Moves DEF RemovePasskey
<1>24. CASE StartSession(q)
  BY <1>24, Moves DEF StartSession
<1>25. CASE Ends(q)
  BY <1>25, Moves DEF Ends
<1>26. CASE Settling(q)
  <2> DEFINE rest == Tail(req[q].keys)
             r == [req[q] EXCEPT !.keys = rest]
             l == IF rest = <<>> THEN req[q].then ELSE "settle"
  <2>1. /\ DOMAIN r = Fields /\ r.kind = req[q].kind /\ r.user = req[q].user /\ r.op = req[q].op
        /\ r.key = req[q].key /\ r.addr = req[q].addr /\ r.keys = rest /\ r.then = req[q].then
    BY DEF OnItsWay, Fields
  <2>2. Keep(q, r) /\ Goto(q, l) /\ pc[q] = "settle"
    BY <1>26 DEF Settling
  <2>3. rest \in Seq(Own(q))
    BY <2>2 DEF OnItsWay, ClearsOwn
  <2> HIDE DEF r, rest
  <2>4. Alone(q) /\ req'[q] = r /\ pc'[q] = l
    BY <2>2, KeepOne, GotoOne DEF Alone, Requests
  <2>5. Own(q)' = Own(q) /\ Pair(q)' = Pair(q)
    BY <2>1, <2>4 DEF Own, ByAddress, ByAccount, ByFactor, User, Pair
  <2>6. Others(q) /\ UNCHANGED <<proven, registered>>
    BY <1>26 DEF Settling
  <2>7. req[q].then # "settle"
    BY <2>2 DEF OnItsWay, ClearsOwn
  <2>8. ClearsOwn(q)'
    BY <2>1, <2>2, <2>3, <2>4, <2>5, <2>6, <2>7 DEF ClearsOwn, OnItsWay
  <2>9. OwnerKnown(q)'
    BY <2>1, <2>2, <2>4, <2>5, <2>6 DEF OwnerKnown, OnItsWay
  <2>10. QED BY <2>1, <2>4, <2>6, <2>8, <2>9 DEF OnItsWay
<1>27. QED
  BY <1>1, <1>2, <1>3, <1>4, <1>5, <1>6, <1>7, <1>8, <1>9, <1>10, <1>11, <1>12, <1>13,
     <1>14, <1>15, <1>16, <1>17, <1>18, <1>19, <1>20, <1>21, <1>22, <1>23, <1>24, <1>25,
     <1>26 DEF Request

-----------------------------------------------------------------------------
(* What the steps outside the requests do. *)

Aside ==
  \/ PasskeyRegisterBegin \/ PasskeyLoginBegin \/ ChallengeExpires
  \/ \E u \in Users : UserAdd(u) \/ SetTOTPSecret(u) \/ LockUser(u)
  \/ SessionEnds \/ Housekeeping \/ Tick

LEMMA AsideLocal ==
  ASSUME Aside
  PROVE  UNCHANGED <<pc, req, proven, registered, opened, passkeys, accepted, boots>>
BY DEF Aside, PasskeyRegisterBegin, PasskeyLoginBegin, PutChallenge, ChallengeExpires,
       UserAdd, SetTOTPSecret, LockUser, SessionEnds, Housekeeping, Tick, memory, keyVars, history

LEMMA RestartLocal ==
  ASSUME Requests, NEW q \in Reqs, OnItsWay(q), Restart
  PROVE  OnItsWay(q)' /\ Requests'
BY DEF Restart, Requests, OnItsWay, OwnerKnown, ClearsOwn, Pair, history

-----------------------------------------------------------------------------
(* The counters, whoever touches them. *)

LEMMA RequestCounters ==
  ASSUME CountersOK, NEW q \in Reqs, Request(q)
  PROVE  CountersOK'
<1>1. CASE Settling(q)
  BY <1>1, FailKeepsCounters, FewerKeepCounters DEF Settling, Succeed
<1>2. CASE UNCHANGED counters
  BY <1>2 DEF counters, CountersOK
<1>3. QED
  BY <1>1, <1>2
  DEF Request, SetupAdmin, CreateFirstAdmin, Knock, AskAddress, AskAccount, WrongPassword,
      PortalPassword, RDPPassword, MFA, AskFactor, WrongFactor, RightFactor, DropPending,
      PasskeyRegisterFinish, PasskeyLoginFinish, TakeChallenge, AddPasskey, FindPasskey,
      LoadOwner, UpdateSignCount, DeletePasskey, CountPasskeys, RemovePasskey, StartSession,
      Ends

LEMMA NextCounters ==
  ASSUME CountersOK, [Next]_vars
  PROVE  CountersOK'
<1>1. ASSUME NEW q \in Reqs, Request(q) PROVE CountersOK'
  BY <1>1, RequestCounters
<1>2. CASE Restart
  BY <1>2 DEF Restart, CountersOK
<1>3. CASE Housekeeping
  BY <1>3, FewerKeepCounters DEF Housekeeping, SweepLockouts
<1>4. CASE Tick
  BY <1>4, LockoutAssumption DEF Tick, CountersOK
<1>5. CASE UNCHANGED counters
  BY <1>5 DEF counters, CountersOK
<1>6. QED
  BY <1>1, <1>2, <1>3, <1>4, <1>5
  DEF Next, vars, PasskeyRegisterBegin, PasskeyLoginBegin, PutChallenge, ChallengeExpires,
      UserAdd, SetTOTPSecret, LockUser, SessionEnds

-----------------------------------------------------------------------------
(* Every row of a passkey, and every session one opened, is its owner's. *)

LEMMA RequestRows ==
  ASSUME RowsOwned, NEW q \in Reqs, OnItsWay(q), Request(q)
  PROVE  RowsOwned'
<1>1. CASE StartSession(q)
  BY <1>1 DEF StartSession, OnItsWay, OwnerKnown, Pair, RowsOwned, User, keyVars
<1>2. CASE AddPasskey(q)
  <2>1. CASE UNCHANGED <<keyVars, registered>>
    BY <1>2, <2>1 DEF AddPasskey, RowsOwned, keyVars
  <2>2. CASE /\ passkeys' = passkeys \cup {Passkey(keySeq + 1, User(q), req[q].key, req[q].count)}
             /\ registered' = registered \cup {[user |-> User(q), key |-> req[q].key]}
    <3>1. LET p == Passkey(keySeq + 1, User(q), req[q].key, req[q].count)
          IN  DOMAIN p = Columns /\ p.user = User(q) /\ p.key = req[q].key
      BY DEF Passkey, Columns
    <3>2. QED BY <1>2, <2>2, <3>1 DEF AddPasskey, RowsOwned
  <2>3. QED BY <1>2, <2>1, <2>2 DEF AddPasskey
<1>3. CASE UpdateSignCount(q)
  <2>1. ASSUME NEW p \in passkeys'
        PROVE  \E o \in passkeys : /\ p.user = o.user /\ p.key = o.key
                                   /\ DOMAIN p = Columns
    <3>1. PICK o \in passkeys :
            p = IF o.id = req[q].row THEN [o EXCEPT !.count = req[q].count] ELSE o
      BY <1>3 DEF UpdateSignCount
    <3>2. DOMAIN o = Columns
      BY DEF RowsOwned
    <3>3. p.user = o.user /\ p.key = o.key /\ DOMAIN p = Columns
      BY <3>1, <3>2 DEF Columns
    <3>4. QED BY <3>3
  <2>2. QED BY <1>3, <2>1 DEF UpdateSignCount, RowsOwned
<1>4. CASE RemovePasskey(q)
  BY <1>4 DEF RemovePasskey, RowsOwned, history
<1>5. CASE UNCHANGED <<passkeys, registered, opened>>
  BY <1>5 DEF RowsOwned
<1>6. QED
  BY <1>1, <1>2, <1>3, <1>4, <1>5
  DEF Request, SetupAdmin, CreateFirstAdmin, Knock, AskAddress, AskAccount, WrongPassword,
      PortalPassword, RDPPassword, MFA, AskFactor, WrongFactor, RightFactor, DropPending,
      PasskeyRegisterFinish, PasskeyLoginFinish, TakeChallenge, FindPasskey,
      LoadOwner, DeletePasskey, CountPasskeys, Settling, Ends, keyVars, history

-----------------------------------------------------------------------------
(* The wizard. *)

FirstOfAll == /\ created \in Seq(Reqs \cup {None})
              /\ accounts = {} => created = <<>>
              /\ OneFirstAdmin

LEMMA NextCreators ==
  ASSUME FirstOfAll, [Next]_vars
  PROVE  FirstOfAll'
<1>1. ASSUME NEW q \in Reqs, CreateFirstAdmin(q) PROVE FirstOfAll'
  <2>1. CASE accounts = {}
    <3>1. created' = <<q>> /\ accounts' # {}
      BY <1>1, <2>1 DEF CreateFirstAdmin, FirstOfAll
    <3>2. QED BY <3>1 DEF FirstOfAll, OneFirstAdmin
  <2>2. CASE UNCHANGED <<accounts, created>>
    BY <2>2 DEF FirstOfAll, OneFirstAdmin
  <2>3. QED BY <1>1, <2>1, <2>2 DEF CreateFirstAdmin
<1>2. ASSUME NEW u \in Users, UserAdd(u) PROVE FirstOfAll'
  <2>1. created' = Append(created, None) /\ accounts' # {} /\ None \notin Reqs
    BY <1>2, CredentialsAssumption DEF UserAdd
  <2>2. created' \in Seq(Reqs \cup {None})
    BY <2>1 DEF FirstOfAll
  <2>3. \A i \in DOMAIN created' : \/ i \in DOMAIN created /\ created'[i] = created[i]
                                   \/ created'[i] = None
    BY <2>1 DEF FirstOfAll
  <2>4. QED BY <2>1, <2>2, <2>3 DEF FirstOfAll, OneFirstAdmin
<1>3. CASE UNCHANGED <<accounts, created>>
  BY <1>3 DEF FirstOfAll, OneFirstAdmin
<1>4. ASSUME NEW q \in Reqs, Request(q), ~CreateFirstAdmin(q)
      PROVE  UNCHANGED <<accounts, created>>
  BY <1>4
  DEF Request, SetupAdmin, Knock, AskAddress, AskAccount, WrongPassword,
      PortalPassword, RDPPassword, MFA, AskFactor, WrongFactor, RightFactor, DropPending,
      PasskeyRegisterFinish, PasskeyLoginFinish, TakeChallenge, AddPasskey, FindPasskey,
      LoadOwner, UpdateSignCount, DeletePasskey, CountPasskeys, RemovePasskey, StartSession,
      Settling, Ends, userVars, history
<1>5. QED
  BY <1>1, <1>2, <1>3, <1>4
  DEF Next, vars, PasskeyRegisterBegin, PasskeyLoginBegin, PutChallenge, ChallengeExpires,
      SetTOTPSecret, LockUser, SessionEnds, Restart, Housekeeping, Tick, userVars, history

-----------------------------------------------------------------------------
(* A challenge is in the map, or held by the one login that took it, or     *)
(* spent; and it never comes back.                                          *)

Waiting == {challenges[k].value : k \in DOMAIN challenges}
Spent == {a.challenge : a \in accepted}
Holds(q) == pc[q] = "find" /\ req[q].answers # 0

Apart ==
  /\ challengeSeq \in Nat
  /\ Waiting \subseteq 1..challengeSeq
  /\ \A k, l \in DOMAIN challenges : challenges[k].value = challenges[l].value => k = l
  /\ Spent \subseteq (1..challengeSeq) \ Waiting
  /\ \A q \in Reqs : Holds(q) => req[q].answers \in (1..challengeSeq) \ (Waiting \cup Spent)
  /\ \A q, r \in Reqs : Holds(q) /\ Holds(r) /\ req[q].answers = req[r].answers => q = r

ChallengesOK == Apart /\ ChallengeUsedOnce

\* Nobody takes or spends anything.
Quiet == UNCHANGED <<challenges, challengeSeq, accepted>>

LEMMA QuietKeeps ==
  ASSUME ChallengesOK, Quiet,
         \A q \in Reqs : Holds(q)' => Holds(q) /\ req'[q] = req[q]
  PROVE  ChallengesOK'
BY DEF ChallengesOK, Apart, ChallengeUsedOnce, Quiet, Waiting, Spent

LEMMA PutKeeps ==
  ASSUME ChallengesOK, NEW key, NEW u, PutChallenge(key, u)
  PROVE  ChallengesOK'
<1> DEFINE live == {k \in DOMAIN challenges : ~challenges[k].expired}
           n == challengeSeq + 1
           new == [value |-> n, user |-> u, expired |-> FALSE]
<1>1. /\ challengeSeq' = n /\ challengeSeq \in Nat
      /\ challenges' = [k \in live \cup {key} |-> IF k = key THEN new ELSE challenges[k]]
      /\ UNCHANGED <<pc, req, accepted>>
  BY DEF PutChallenge, ChallengesOK, Apart, history
<1>2. live \subseteq DOMAIN challenges /\ new.value = n
  OBVIOUS
<1> HIDE DEF live, new
<1>3. /\ DOMAIN challenges' = live \cup {key} /\ challenges'[key].value = n
      /\ \A k \in live \ {key} : challenges'[k].value = challenges[k].value
  BY <1>1, <1>2
<1>4. Waiting' \subseteq Waiting \cup {n}
  BY <1>2, <1>3 DEF Waiting
<1>5. n \notin 1..challengeSeq /\ 1..challengeSeq \subseteq 1..n /\ n \in 1..n /\ n \in Nat
  BY <1>1
<1>6. \A k, l \in DOMAIN challenges' : challenges'[k].value = challenges'[l].value => k = l
  <2>1. \A k \in live \ {key} : challenges'[k].value \in 1..challengeSeq
    BY <1>2, <1>3 DEF ChallengesOK, Apart, Waiting
  <2>2. QED BY <1>2, <1>3, <1>5, <2>1 DEF ChallengesOK, Apart
<1>7. Spent' = Spent /\ ChallengeUsedOnce'
  BY <1>1 DEF Spent, ChallengesOK, ChallengeUsedOnce
<1>8. \A q \in Reqs : (Holds(q)' <=> Holds(q)) /\ req'[q] = req[q]
  BY <1>1 DEF Holds
<1> HIDE DEF n
<1>9. challengeSeq' \in Nat /\ Waiting' \subseteq 1..challengeSeq'
  BY <1>1, <1>4, <1>5 DEF ChallengesOK, Apart
<1>10. Spent' \subseteq (1..challengeSeq') \ Waiting'
  <2>1. Spent \subseteq (1..challengeSeq) \ Waiting
    BY DEF ChallengesOK, Apart
  <2>2. QED BY <1>1, <1>4, <1>5, <1>7, <2>1
<1>11. ASSUME NEW q \in Reqs, Holds(q)'
       PROVE  req'[q].answers \in (1..challengeSeq') \ (Waiting' \cup Spent')
  <2>1. req[q].answers \in (1..challengeSeq) \ (Waiting \cup Spent) /\ req'[q] = req[q]
    BY <1>8, <1>11 DEF ChallengesOK, Apart
  <2>2. QED BY <1>1, <1>4, <1>5, <1>7, <2>1
<1>12. ASSUME NEW q \in Reqs, NEW r \in Reqs, Holds(q)', Holds(r)',
              req'[q].answers = req'[r].answers
       PROVE  q = r
  BY <1>8, <1>12 DEF ChallengesOK, Apart
<1>13. Apart'
  BY <1>6, <1>9, <1>10, <1>11, <1>12 DEF Apart
<1>14. QED BY <1>7, <1>13 DEF ChallengesOK

LEMMA ExpiresKeeps ==
  ASSUME ChallengesOK, ChallengeExpires
  PROVE  ChallengesOK'
<1>1. PICK k \in DOMAIN challenges : challenges' = [challenges EXCEPT ![k].expired = TRUE]
  BY DEF ChallengeExpires
<1>2. /\ DOMAIN challenges' = DOMAIN challenges
      /\ \A l \in DOMAIN challenges : challenges'[l].value = challenges[l].value
  BY <1>1
<1>3. UNCHANGED <<challengeSeq, pc, req, accepted>>
  BY DEF ChallengeExpires, history
<1>4. Waiting' = Waiting /\ Spent' = Spent
  BY <1>2, <1>3 DEF Waiting, Spent
<1>5. QED BY <1>2, <1>3, <1>4 DEF ChallengesOK, Apart, ChallengeUsedOnce, Holds

LEMMA TakeKeeps ==
  ASSUME Requests, NEW q \in Reqs, OnItsWay(q), ChallengesOK, TakeChallenge(q)
  PROVE  ChallengesOK'
<1> DEFINE v == IF Matches(q) THEN req[q].answers ELSE 0
<1>1. /\ challenges' = [k \in DOMAIN challenges \ {Slot(q)} |-> challenges[k]]
      /\ Keep(q, [req[q] EXCEPT !.answers = v])
      /\ UNCHANGED <<challengeSeq, accepted>>
  BY DEF TakeChallenge, history
<1>2. /\ DOMAIN challenges' = DOMAIN challenges \ {Slot(q)}
      /\ \A k \in DOMAIN challenges' : challenges'[k] = challenges[k]
  BY <1>1
<1>3. req'[q].answers = v /\ \A p \in Reqs \ {q} : req'[p] = req[p] /\ pc'[p] = pc[p]
  <2>1. [req[q] EXCEPT !.answers = v].answers = v
    BY DEF OnItsWay, Fields
  <2>2. \A p \in Reqs \ {q} : pc'[p] = pc[p]
    BY GotoOne DEF TakeChallenge
  <2> HIDE DEF v
  <2>3. QED BY <1>1, <2>1, <2>2, KeepOne
<1>4. Waiting' \subseteq Waiting /\ Spent' = Spent
  BY <1>1, <1>2 DEF Waiting, Spent
<1>5. CASE Matches(q)
  <2>1. Slot(q) \in DOMAIN challenges /\ challenges[Slot(q)].value = v
    BY <1>5 DEF Matches
  <2>2. v \in Waiting \ Waiting'
    BY <1>2, <2>1 DEF ChallengesOK, Apart, Waiting
  <2> HIDE DEF v
  <2>3. QED BY <1>1, <1>2, <1>3, <1>4, <2>2 DEF ChallengesOK, Apart, ChallengeUsedOnce, Holds
<1>6. CASE ~Matches(q)
  <2>1. v = 0
    BY <1>6
  <2> HIDE DEF v
  <2>2. QED BY <1>1, <1>2, <1>3, <1>4, <2>1 DEF ChallengesOK, Apart, ChallengeUsedOnce, Holds
<1>7. QED BY <1>5, <1>6

LEMMA FindKeeps ==
  ASSUME Requests, NEW q \in Reqs, ChallengesOK, FindPasskey(q)
  PROVE  ChallengesOK'
<1>1. pc[q] = "find" /\ UNCHANGED <<challenges, challengeSeq>>
  BY DEF FindPasskey, memory
<1>2. pc'[q] # "find" /\ \A p \in Reqs \ {q} : req'[p] = req[p] /\ pc'[p] = pc[p]
  <2>1. \E r, l : Keep(q, r) /\ Goto(q, l) /\ l # "find"
    BY DEF FindPasskey, Settle
  <2>2. QED BY <2>1, KeepOne, GotoOne
<1>3. CASE accepted' = accepted
  BY <1>1, <1>2, <1>3, QuietKeeps DEF Quiet, Holds
<1>4. CASE /\ accepted' = accepted \cup {[challenge |-> req[q].answers, by |-> q]}
           /\ req[q].answers # 0
  <2> DEFINE a == [challenge |-> req[q].answers, by |-> q]
  <2>1. a.challenge = req[q].answers /\ a.by = q /\ accepted' = accepted \cup {a}
    BY <1>4
  <2> HIDE DEF a
  <2>2. Spent' = Spent \cup {req[q].answers} /\ Waiting' = Waiting
    BY <1>1, <2>1 DEF Spent, Waiting
  <2>3. Holds(q) /\ ~Holds(q)' /\ \A p \in Reqs \ {q} : Holds(p)' <=> Holds(p)
    BY <1>1, <1>2, <1>4 DEF Holds
  <2>4. Apart'
    BY <1>1, <1>2, <2>2, <2>3 DEF ChallengesOK, Apart
  <2>5. ChallengeUsedOnce'
    BY <2>1, <2>3 DEF ChallengesOK, Apart, ChallengeUsedOnce, Spent
  <2>6. QED BY <2>4, <2>5 DEF ChallengesOK
<1>5. QED BY <1>3, <1>4 DEF FindPasskey, FinishAssertion

\* Every other request leaves the map alone, and none of them is where FindPasskey is.
LEMMA RequestChallenges ==
  ASSUME Requests, NEW q \in Reqs, OnItsWay(q), ChallengesOK, Request(q), Alone(q)
  PROVE  ChallengesOK'
<1>1. CASE TakeChallenge(q)
  BY <1>1, TakeKeeps
<1>2. CASE FindPasskey(q)
  BY <1>2, FindKeeps
<1>3. CASE ~TakeChallenge(q) /\ ~FindPasskey(q)
  <2>1. Quiet
    BY <1>3
    DEF Quiet, Request, SetupAdmin, CreateFirstAdmin, Knock, AskAddress, AskAccount,
        WrongPassword, PortalPassword, RDPPassword, MFA, AskFactor, WrongFactor, RightFactor,
        DropPending, PasskeyRegisterFinish, PasskeyLoginFinish, AddPasskey, LoadOwner,
        UpdateSignCount, DeletePasskey, CountPasskeys, RemovePasskey, StartSession, Settling,
        Ends, memory, history
  <2>2. pc'[q] # "find"
    <3>1. CASE Settling(q)
      BY <3>1, GotoOne DEF Settling, OnItsWay, ClearsOwn
    <3>2. CASE ~Settling(q)
      <4>1. CASE SetupAdmin(q) \/ CreateFirstAdmin(q)
        BY <4>1, GotoOne DEF SetupAdmin, CreateFirstAdmin
      <4>2. CASE Knock(q) \/ AskAddress(q) \/ AskAccount(q)
        BY <4>2, GotoOne DEF Knock, AskAddress, AskAccount
      <4>3. CASE WrongPassword(q) \/ PortalPassword(q) \/ RDPPassword(q)
        <5>1. Goto(q, "settle") \/ Goto(q, "done") \/ Goto(q, "start") \/ Goto(q, "factor")
          BY <4>3, Zenon DEF WrongPassword, PortalPassword, RDPPassword, Settle
        <5>2. QED BY <5>1, GotoOne
      <4>4. CASE MFA(q) \/ AskFactor(q) \/ DropPending(q)
        <5>1. Goto(q, "second") \/ Goto(q, "done") \/ Goto(q, "factor") \/ Goto(q, "start")
          BY <4>4, Zenon DEF MFA, AskFactor, DropPending
        <5>2. QED BY <5>1, GotoOne
      <4>5. CASE WrongFactor(q) \/ RightFactor(q)
        BY <4>5, GotoOne DEF WrongFactor, RightFactor, Settle
      <4>6. CASE PasskeyRegisterFinish(q) \/ PasskeyLoginFinish(q) \/ AddPasskey(q)
        BY <4>6, GotoOne DEF PasskeyRegisterFinish, PasskeyLoginFinish, AddPasskey
      <4>7. CASE LoadOwner(q) \/ UpdateSignCount(q)
        BY <4>7, GotoOne DEF LoadOwner, UpdateSignCount
      <4>8. CASE DeletePasskey(q) \/ CountPasskeys(q) \/ RemovePasskey(q)
        <5>1. Goto(q, "remain") \/ Goto(q, "done") \/ Goto(q, "remove")
          BY <4>8, Zenon DEF DeletePasskey, CountPasskeys, RemovePasskey
        <5>2. QED BY <5>1, GotoOne
      <4>9. CASE StartSession(q) \/ Ends(q)
        BY <4>9, GotoOne DEF StartSession, Ends
      <4>10. QED
        BY <1>3, <3>2, <4>1, <4>2, <4>3, <4>4, <4>5, <4>6, <4>7, <4>8, <4>9 DEF Request
    <3>3. QED BY <3>1, <3>2
  <2>3. QED BY <2>1, <2>2, QuietKeeps DEF Alone, Holds
<1>4. QED BY <1>1, <1>2, <1>3

-----------------------------------------------------------------------------
(* All together. *)

IInv == /\ Requests /\ CountersOK /\ RowsOwned /\ FirstOfAll /\ ChallengesOK
        /\ boots \in Nat
        /\ \A q \in Reqs : OnItsWay(q)

LEMMA InitIInv == Init => IInv
<1> SUFFICES ASSUME Init PROVE IInv
  OBVIOUS
<1>1. Requests /\ \A q \in Reqs : req[q] = NoReq /\ pc[q] = "idle"
  BY DEF Init, Requests
<1>2. \A q \in Reqs : OnItsWay(q)
  <2>1. NoReq.kind # "passkey"
    BY DEF NoReq
  <2>2. QED BY <1>1, <2>1, NoReqFields DEF OnItsWay, OwnerKnown, ClearsOwn
<1>3. CountersOK /\ boots \in Nat
  BY DEF Init, CountersOK
<1>4. RowsOwned
  <2>1. PICK w \in Worlds : /\ passkeys = w.passkeys /\ opened = {}
                            /\ registered = {[user |-> p.user, key |-> p.key] : p \in w.passkeys}
    BY DEF Init
  <2>2. \A p \in passkeys : DOMAIN p = Columns
    BY <2>1, CredentialsAssumption DEF Columns
  <2>3. QED BY <2>1, <2>2 DEF RowsOwned
<1>5. FirstOfAll
  <2>1. PICK w \in Worlds : /\ accounts = w.accounts
                            /\ created = (IF w.accounts = {} THEN <<>> ELSE <<None>>)
    BY DEF Init
  <2>2. \A i \in DOMAIN created : created[i] = None
    BY <2>1
  <2>3. created \in Seq(Reqs \cup {None}) /\ (accounts = {} => created = <<>>)
    <3> DEFINE S == Reqs \cup {None}
    <3>1. None \in S
      OBVIOUS
    <3> HIDE DEF S
    <3>2. <<>> \in Seq(S) /\ <<None>> \in Seq(S)
      BY <3>1
    <3>3. CASE w.accounts = {}
      BY <2>1, <3>2, <3>3 DEF S
    <3>4. CASE w.accounts # {}
      BY <2>1, <3>2, <3>4 DEF S
    <3>5. QED BY <3>3, <3>4
  <2>4. QED BY <2>2, <2>3, CredentialsAssumption DEF FirstOfAll, OneFirstAdmin
<1>6. ChallengesOK
  BY <1>1 DEF Init, ChallengesOK, Apart, ChallengeUsedOnce, Waiting, Spent, Holds
<1>7. QED BY <1>1, <1>2, <1>3, <1>4, <1>5, <1>6 DEF IInv

LEMMA Step == IInv /\ [Next]_vars => IInv'
<1> SUFFICES ASSUME IInv, [Next]_vars PROVE IInv'
  OBVIOUS
<1>0. CountersOK' /\ FirstOfAll'
  BY NextCounters, NextCreators DEF IInv
<1>1. ASSUME NEW q \in Reqs, Request(q) PROVE IInv'
  <2>1. OnItsWay(q)' /\ Alone(q) /\ Others(q)
    BY <1>1, RequestLocal DEF IInv
  <2>2. \A p \in Reqs : OnItsWay(p)'
    BY <2>1, UntouchedKeeps DEF IInv, Untouched, Alone, Others
  <2>3. RowsOwned' /\ ChallengesOK'
    BY <1>1, <2>1, RequestRows, RequestChallenges DEF IInv
  <2>4. boots' = boots
    BY <1>1
    DEF Request, SetupAdmin, CreateFirstAdmin, Knock, AskAddress, AskAccount,
        WrongPassword, PortalPassword, RDPPassword, MFA, AskFactor, WrongFactor, RightFactor,
        DropPending, PasskeyRegisterFinish, PasskeyLoginFinish, TakeChallenge, AddPasskey,
        FindPasskey, LoadOwner, UpdateSignCount, DeletePasskey, CountPasskeys, RemovePasskey,
        StartSession, Settling, Ends, memory
  <2>5. QED BY <1>0, <2>1, <2>2, <2>3, <2>4 DEF IInv, Alone
<1>2. CASE Aside
  <2>1. UNCHANGED <<pc, req, proven, registered, opened, passkeys, accepted, boots>>
    BY <1>2, AsideLocal
  <2>2. Requests' /\ RowsOwned' /\ boots' \in Nat
    BY <2>1 DEF IInv, Requests, RowsOwned
  <2>3. \A p \in Reqs : OnItsWay(p)'
    BY <2>1, UntouchedKeeps DEF IInv, Untouched
  <2>4. ChallengesOK'
    <3>1. CASE PasskeyRegisterBegin \/ PasskeyLoginBegin
      BY <3>1, PutKeeps DEF IInv, PasskeyRegisterBegin, PasskeyLoginBegin
    <3>2. CASE ChallengeExpires
      BY <3>2, ExpiresKeeps DEF IInv
    <3>3. CASE UNCHANGED memory
      BY <2>1, <3>3, QuietKeeps DEF IInv, Quiet, Holds, memory
    <3>4. QED
      BY <1>2, <3>1, <3>2, <3>3
      DEF Aside, UserAdd, SetTOTPSecret, LockUser, SessionEnds, Housekeeping, Tick, memory
  <2>5. QED BY <1>0, <2>2, <2>3, <2>4 DEF IInv
<1>3. CASE Restart
  <2>1. \A q \in Reqs : OnItsWay(q)'
    BY <1>3, RestartLocal DEF IInv
  <2>2. Requests' /\ boots' \in Nat /\ RowsOwned'
    BY <1>3 DEF Restart, IInv, Requests, RowsOwned, keyVars, history
  <2>3. ChallengesOK'
    <3>1. challenges' = [k \in {} |-> 0] /\ UNCHANGED <<challengeSeq, accepted>>
      BY <1>3 DEF Restart, history
    <3>2. Waiting' = {} /\ Spent' = Spent /\ DOMAIN challenges' = {}
      BY <3>1 DEF Waiting, Spent
    <3>3. \A q \in Reqs : ~Holds(q)'
      BY <1>3 DEF Restart, Holds
    <3>4. QED BY <3>1, <3>2, <3>3 DEF IInv, ChallengesOK, Apart, ChallengeUsedOnce
  <2>4. QED BY <1>0, <2>1, <2>2, <2>3 DEF IInv
<1>4. CASE UNCHANGED vars
  <2>1. UNCHANGED <<pc, req, proven, registered, opened, passkeys, accepted, boots,
                    challenges, challengeSeq>>
    BY <1>4 DEF vars, keyVars, memory, history
  <2>2. Requests' /\ RowsOwned' /\ boots' \in Nat
    BY <2>1 DEF IInv, Requests, RowsOwned
  <2>3. \A p \in Reqs : OnItsWay(p)'
    BY <2>1, UntouchedKeeps DEF IInv, Untouched
  <2>4. ChallengesOK'
    BY <2>1, QuietKeeps DEF IInv, Quiet, Holds
  <2>5. QED BY <1>0, <2>2, <2>3, <2>4 DEF IInv
<1>5. QED BY <1>1, <1>2, <1>3, <1>4 DEF Next, Aside

THEOREM Invariance == Spec => []IInv
BY InitIInv, Step, PTL DEF Spec

(* However long somebody goes on guessing at either door, no lock reaches   *)
(* further than auth.lockout_max from now (auth.go: Fail, backoff).         *)
THEOREM NoLockLastsForever == Spec => []LockBounded
<1>1. IInv => LockBounded
  BY DEF IInv, CountersOK, LockBounded
<1>2. QED BY <1>1, Invariance, PTL

(* Whichever browsers run the wizard and whatever the command line adds      *)
(* meanwhile, the wizard creates no account but the very first of all       *)
(* (repo.go: CreateFirstAdmin).                                             *)
THEOREM TheFirstIsAlone == Spec => []OneFirstAdmin
<1>1. IInv => OneFirstAdmin
  BY DEF IInv, FirstOfAll
<1>2. QED BY <1>1, Invariance, PTL

(* No challenge is answered for two logins (webauthn.go: take).             *)
THEOREM NoChallengeTwice == Spec => []ChallengeUsedOnce
<1>1. IInv => ChallengeUsedOnce
  BY DEF IInv, ChallengesOK
<1>2. QED BY <1>1, Invariance, PTL

(* A passkey login opens a session for whoever registered the key           *)
(* (webauthn.go: handlePasskeyLoginFinish).                                 *)
THEOREM PasskeysOpenTheirOwners == Spec => []PasskeyOpensItsOwner
<1>1. IInv => PasskeyOpensItsOwner
  BY DEF IInv, RowsOwned, PasskeyOpensItsOwner
<1>2. QED BY <1>1, Invariance, PTL

-----------------------------------------------------------------------------
(* What lifts a lock. *)

Lifts(k) == \/ boots' # boots
            \/ \E q \in proven : k \in Own(q) /\ req'[q] # req[q]

\* A sweep takes only what is no lock any more.
LEMMA SweepLeavesLocks ==
  ASSUME CountersOK, SweepLockouts, NEW k \in DOMAIN failures, Locked(k)
  PROVE  k \in DOMAIN failures'
<1>1. failures[k].until \in Int /\ now \in Nat /\ KeepAfter \in Nat /\ now <= failures[k].until
  BY LockoutAssumption DEF CountersOK, Locked
<1>2. failures[k].until # NoLock /\ ~(now > failures[k].until + KeepAfter)
  BY <1>1 DEF NoLock
<1>3. QED BY <1>2 DEF SweepLockouts, Without

LEMMA TailIsShorter ==
  ASSUME NEW S, NEW s \in Seq(S), s # <<>>
  PROVE  Tail(s) # s /\ Head(s) \in S
<1>1. Len(s) \in Nat \ {0}
  OBVIOUS
<1>2. Len(Tail(s)) = Len(s) - 1
  BY <1>1
<1>3. Head(s) \in S
  BY <1>1
<1>4. Len(s) - 1 # Len(s)
  BY <1>1
<1>5. Len(Tail(s)) # Len(s)
  BY <1>2, <1>4, Zenon
<1>6. QED BY <1>3, <1>5, Zenon

LEMMA SettlingLifts ==
  ASSUME Requests, NEW q \in Reqs, OnItsWay(q), Settling(q),
         NEW k \in DOMAIN failures, k \notin DOMAIN failures'
  PROVE  Lifts(k)
<1>1. CASE req[q].op = "Fail"
  <2>1. DOMAIN failures \subseteq DOMAIN failures'
    BY <1>1 DEF Settling, Fail
  <2>2. QED BY <2>1
<1>2. CASE req[q].op # "Fail"
  <2> DEFINE keys == req[q].keys
             r == [req[q] EXCEPT !.keys = Tail(keys)]
  <2>1. /\ keys \in Seq(Own(q)) /\ keys # <<>> /\ q \in proven
    BY <1>2 DEF Settling, OnItsWay, ClearsOwn
  <2>2. k = Head(keys)
    BY <1>2 DEF Settling, Succeed, Without
  <2>3. r.keys = Tail(keys) /\ Keep(q, r)
    BY DEF Settling, OnItsWay, Fields
  <2> HIDE DEF r
  <2>4. req'[q] = r
    BY <2>3, KeepOne
  <2>5. Tail(keys) # keys /\ Head(keys) \in Own(q)
    BY <2>1, TailIsShorter
  <2>6. QED BY <2>1, <2>2, <2>3, <2>4, <2>5 DEF Lifts
<1>3. QED BY <1>1, <1>2

LEMMA StepLifts ==
  ASSUME IInv, [Next]_vars, NEW k \in DOMAIN failures, Locked(k), k \notin DOMAIN failures'
  PROVE  Lifts(k)
<1>1. ASSUME NEW q \in Reqs, Request(q), ~Settling(q) PROVE UNCHANGED failures
  BY <1>1
  DEF Request, SetupAdmin, CreateFirstAdmin, Knock, AskAddress, AskAccount, WrongPassword,
      PortalPassword, RDPPassword, MFA, AskFactor, WrongFactor, RightFactor, DropPending,
      PasskeyRegisterFinish, PasskeyLoginFinish, TakeChallenge, AddPasskey, FindPasskey,
      LoadOwner, UpdateSignCount, DeletePasskey, CountPasskeys, RemovePasskey, StartSession,
      Ends, counters
<1>2. ASSUME NEW q \in Reqs, Settling(q) PROVE Lifts(k)
  BY <1>2, SettlingLifts DEF IInv
<1>3. CASE Restart
  BY <1>3 DEF Restart, Lifts, IInv
<1>4. CASE Housekeeping
  BY <1>4, SweepLeavesLocks DEF Housekeeping, IInv
<1>5. CASE UNCHANGED failures
  BY <1>5
<1>6. QED
  BY <1>1, <1>2, <1>3, <1>4, <1>5
  DEF Next, vars, counters, PasskeyRegisterBegin, PasskeyLoginBegin, PutChallenge,
      ChallengeExpires, UserAdd, SetTOTPSecret, LockUser, SessionEnds, Tick

(* A lock that still runs is lifted by a restart, or by a login that has    *)
(* proved all its account asks for and touches only its own locks           *)
(* (auth.go: Succeed, SweepLockouts).                                       *)
THEOREM OnlyProofLifts == Spec => LiftedByProof
<1>1. IInv /\ [Next]_vars =>
        [ \A k \in DOMAIN failures :
            Locked(k) /\ k \notin DOMAIN failures' =>
              boots' # boots \/ \E q \in proven : k \in Own(q) /\ req'[q] # req[q] ]_vars
  BY StepLifts DEF Lifts
<1>2. QED BY <1>1, Invariance, PTL DEF Spec, LiftedByProof
=============================================================================
