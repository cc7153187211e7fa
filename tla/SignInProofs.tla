---------------------------- MODULE SignInProofs ----------------------------
(***************************************************************************)
(* Theorems about SignIn, for every set of accounts and requests, every    *)
(* skew and every number of enrolments and backup codes.                   *)
(***************************************************************************)
EXTENDS SignIn, FiniteSetTheorems, TLAPS

-----------------------------------------------------------------------------
(* The inductive invariant.                                                 *)

\* TypeOK, and what a request has read by the time it needs it.
Typed ==
  /\ TypeOK
  /\ \A q \in Reqs : pc[q] # "idle" => req[q].user \in Users
  /\ \A q \in Reqs : pc[q] = "insert" => req[q].left >= 1
  /\ \A q \in Reqs : pc[q] = "start" => req[q].stage # "none"

\* Secrets are numbered upwards, and what a code of the secret in force let in
\* lies at or before the counter.
Burned ==
  /\ \A u \in Users : secret[u] <= secretSeq
  /\ \A q \in Reqs : req[q].secret <= secretSeq
  /\ \A a \in admitted : a.proof.secret <= secretSeq
  /\ \A a \in admitted :
       a.proof.value = 0 /\ a.proof.secret = secret[a.proof.user]
         => a.proof.at <= last[a.proof.user]
  /\ CodeAdmitsOnce

\* A row names one code for good, and a code that let somebody in is used.
Spent ==
  /\ codeSeq = codesMade
  /\ \A c \in codes : c.id = c.value /\ c.id \in 1..codeSeq
  /\ \A c, d \in codes : c.id = d.id => c = d
  /\ \A q \in Reqs : pc[q] = "spend" =>
       req[q].code = req[q].value /\ req[q].code \in 1..codeSeq
  /\ \A a \in admitted : a.proof.value <= codeSeq
  /\ \A a \in admitted, c \in codes :
       a.proof.value # 0 /\ c.value = a.proof.value => c.used
  /\ BackupCodeAdmitsOnce

\* Somebody who may change the account's factors started this session.
Backed(t, u) == \E e \in started : e.token = t /\ Proved(e.by, u)

\* Where full sessions come from, and who may start one or act under one.
Entitled(q) ==
  /\ pc[q] = "start" => req[q].stage = "pending" \/ Proved(q, User(q))
  /\ pc[q] \in {"drop", "full"} => Proved(q, User(q))
  /\ pc[q] = "load" /\ req[q].kind = "passkey" => Proved(q, User(q))
  /\ req[q].kind \in Changes => Backed(req[q].token, User(q))
Earned == RequireSecondFactor =>
  /\ \A s \in sessions : s.stage = "full" => Backed(s.id, s.user)
  /\ \A q \in Reqs : Entitled(q)

IInv == Typed /\ Burned /\ Spent /\ Earned

-----------------------------------------------------------------------------
(* Steps of a request that only read.                                       *)

\* More is admitted, vouched for and started, and nothing is taken back.
LEMMA BackedStays ==
  ASSUME admitted \subseteq admitted', vouched \subseteq vouched', started \subseteq started',
         NEW t, NEW u, NEW q
  PROVE  /\ Backed(t, u) => Backed(t, u)'
         /\ Proved(q, u) => Proved(q, u)'
<1>1. ASSUME NEW x, Proved(x, u) PROVE Proved(x, u)'
  BY <1>1 DEF Proved
<1>2. QED BY <1>1 DEF Backed

\* A step of one request that starts no session nobody stands behind.
LEMMA EarnedStays ==
  ASSUME Earned, NEW q \in Reqs,
         admitted \subseteq admitted', vouched \subseteq vouched', started \subseteq started',
         \A x \in Reqs \ {q} : pc'[x] = pc[x] /\ req'[x] = req[x],
         RequireSecondFactor =>
           /\ \A s \in sessions' \ sessions : s.stage = "full" => Backed(s.id, s.user)'
           /\ Entitled(q)'
  PROVE  Earned'
<1> SUFFICES ASSUME RequireSecondFactor PROVE Earned'
  BY DEF Earned
<1>1. ASSUME NEW s \in sessions', s.stage = "full" PROVE Backed(s.id, s.user)'
  <2>1. CASE s \in sessions
    <3>1. Backed(s.id, s.user)
      BY <1>1, <2>1 DEF Earned
    <3>2. QED BY <3>1, BackedStays
  <2>2. QED BY <1>1, <2>1
<1>2. ASSUME NEW x \in Reqs \ {q} PROVE Entitled(x)'
  <2>1. Entitled(x) /\ pc'[x] = pc[x] /\ req'[x] = req[x]
    BY <1>2 DEF Earned
  <2>2. PICK t, u : t = req[x].token /\ u = req[x].user
    OBVIOUS
  <2>3. /\ Proved(x, u) => Proved(x, u)'
        /\ Backed(t, u) => Backed(t, u)'
    BY BackedStays
  <2>4. req'[x].token = t /\ req'[x].user = u
    BY <2>1, <2>2
  <2>5. /\ Proved(x, User(x)) => Proved(x, User(x))'
        /\ Backed(req[x].token, User(x)) => Backed(req[x].token, User(x))'
    BY <2>2, <2>3, <2>4 DEF User, Proved, Backed
  <2>6. QED BY <2>1, <2>5 DEF Entitled, User
<1>3. QED BY <1>1, <1>2 DEF Earned

\* What a request may hold at a point of its handler.
Sane(q, l, r) ==
  /\ l \in PCs \ {"idle"} /\ r \in RequestRecord
  /\ r.user \in Users /\ r.kind # "none"
  /\ l = "insert" => r.left >= 1
  /\ l = "start" => r.stage # "none"
  /\ r.secret <= secretSeq
  /\ l = "spend" => r.code = r.value /\ r.code \in 1..codeSeq
  /\ RequireSecondFactor =>
       /\ l = "start" => r.stage = "pending" \/ Proved(q, r.user)
       /\ l \in {"drop", "full"} => Proved(q, r.user)
       /\ l = "load" /\ r.kind = "passkey" => Proved(q, r.user)
       /\ r.kind \in Changes => Backed(r.token, r.user)

LEMMA ReadingKeeps ==
  ASSUME IInv, NEW q \in Reqs, NEW l, NEW r, Sane(q, l, r),
         pc' = [pc EXCEPT ![q] = l], req' = [req EXCEPT ![q] = r],
         UNCHANGED <<step, accounts, codeVars, sessionVars, owner, destroying, history>>
  PROVE  IInv'
<1>1. UNCHANGED <<step, status, secret, secretSeq, last, codes, codeSeq, codesMade,
                  sessions, sessionSeq, owner, destroying, admitted, vouched, started>>
  BY DEF accounts, codeVars, sessionVars, history
<1>2. pc \in [Reqs -> PCs] /\ req \in [Reqs -> RequestRecord]
  BY DEF IInv, Typed, TypeOK
<1>3. \A x \in Reqs : pc'[x] = (IF x = q THEN l ELSE pc[x])
                      /\ req'[x] = (IF x = q THEN r ELSE req[x])
  BY <1>2
<1>4. Typed'
  <2>1. pc' \in [Reqs -> PCs] /\ req' \in [Reqs -> RequestRecord]
    BY <1>2 DEF Sane
  <2>2. \A x \in Reqs : (pc'[x] = "idle") <=> (req'[x].kind = "none")
    BY <1>3 DEF IInv, Typed, TypeOK, Sane
  <2>3. TypeOK'
    BY <1>1, <2>1, <2>2 DEF IInv, Typed, TypeOK
  <2>4. \A x \in Reqs : /\ pc'[x] # "idle" => req'[x].user \in Users
                        /\ pc'[x] = "insert" => req'[x].left >= 1
                        /\ pc'[x] = "start" => req'[x].stage # "none"
    BY <1>3 DEF IInv, Typed, Sane
  <2>5. QED BY <2>3, <2>4 DEF Typed
<1>5. Burned'
  <2>1. \A x \in Reqs : req'[x].secret <= secretSeq
    BY <1>3 DEF IInv, Burned, Sane
  <2>2. QED BY <1>1, <2>1 DEF IInv, Burned, CodeAdmitsOnce
<1>6. Spent'
  <2>1. \A x \in Reqs : pc'[x] = "spend" =>
          req'[x].code = req'[x].value /\ req'[x].code \in 1..codeSeq
    BY <1>3 DEF IInv, Spent, Sane
  <2>2. QED BY <1>1, <2>1 DEF IInv, Spent, BackupCodeAdmitsOnce
<1>7. Earned'
  <2>1. RequireSecondFactor => Entitled(q)'
    BY <1>1, <1>3 DEF Sane, Entitled, Backed, Proved, User
  <2>2. QED BY <1>1, <1>3, <2>1, EarnedStays DEF IInv
<1>8. QED BY <1>4, <1>5, <1>6, <1>7 DEF IInv

\* What any request holds, as far as its next step leaves it alone.
LEMMA SaneNow ==
  ASSUME IInv, NEW q \in Reqs, pc[q] # "idle", NEW l \in PCs \ {"idle"},
         l \notin {"insert", "spend", "start", "drop", "full", "load"}
  PROVE  Sane(q, l, req[q])
BY DEF IInv, Typed, TypeOK, Burned, Earned, Entitled, Sane, User

LEMMA Unread ==
  NoReq \in RequestRecord /\ NoReq.secret = 0 /\ NoReq.token = 0
BY DEF NoReq, RequestRecord, Kinds

LEMMA RowFields ==
  ASSUME Typed, NEW u \in Users
  PROVE  /\ Row(u) \in RequestRecord
         /\ Row(u).user = u /\ Row(u).secret = secret[u] /\ Row(u).token = 0
<1> DEFINE n == NoReq
<1>1. n \in RequestRecord /\ n.token = 0
  BY Unread
<1>2. secret[u] \in Nat /\ last[u] \in Nat
  BY DEF Typed, TypeOK
<1>3. Row(u) = [n EXCEPT !.user = u, !.secret = secret[u], !.last = last[u]]
  BY DEF Row
<1> HIDE DEF n
<1>4. QED BY <1>1, <1>2, <1>3 DEF RequestRecord

LEMMA FreshReads ==
  ASSUME IInv, NEW u \in Users, NEW q \in Reqs, NEW k \in {"password", "rdp", "cli"},
         NEW l \in {"count", "factor", "secret", "remove"},
         pc' = [pc EXCEPT ![q] = l], req' = [req EXCEPT ![q] = [Row(u) EXCEPT !.kind = k]],
         UNCHANGED <<step, accounts, codeVars, sessionVars, owner, destroying, history>>
  PROVE  IInv'
<1> DEFINE r == [Row(u) EXCEPT !.kind = k]
<1>1. secret[u] \in Nat /\ last[u] \in Nat /\ secret[u] <= secretSeq
  BY DEF IInv, Typed, TypeOK, Burned
<1>2. /\ Row(u) \in RequestRecord /\ Row(u).user = u /\ Row(u).secret = secret[u]
  BY RowFields DEF IInv
<1>3. /\ r \in RequestRecord /\ r.user = u /\ r.kind = k /\ r.secret = secret[u]
  BY <1>2 DEF RequestRecord, Kinds, Doors, Changes
<1> HIDE DEF r
<1>4. Sane(q, l, r)
  BY <1>1, <1>2, <1>3 DEF Sane, PCs, Changes
<1>5. req' = [req EXCEPT ![q] = r]
  BY DEF r
<1>6. QED BY <1>4, <1>5, ReadingKeeps

LEMMA ArriveKeeps ==
  ASSUME IInv, NEW q \in Reqs, Arrive(q)
  PROVE  IInv'
<1>1. PICK kind \in {"mfa"} \cup Changes, stage \in {"pending", "full"} :
        /\ Lookup(q, kind, stage)
        /\ kind # "mfa" => stage = "full"
  BY DEF Arrive
<1>2. PICK s \in sessions : Found(s, stage)
        /\ Keep(q, [NoReq EXCEPT !.kind = kind, !.user = s.user, !.token = s.id])
  BY <1>1 DEF Lookup
<1> DEFINE r == [NoReq EXCEPT !.kind = kind, !.user = s.user, !.token = s.id]
<1>3. s.id \in Nat /\ s.user \in Users
  BY DEF IInv, Typed, TypeOK
<1>4. kind \in Kinds /\ r = [NoReq EXCEPT !.kind = kind, !.user = s.user, !.token = s.id]
  BY DEF Kinds, Doors, Changes
<1>5. req' = [req EXCEPT ![q] = r] /\ pc' = [pc EXCEPT ![q] = "load"]
  BY <1>1, <1>2 DEF Keep, Lookup, Goto
<1> HIDE DEF r
<1>6. /\ r \in RequestRecord /\ r.user = s.user /\ r.kind = kind /\ r.token = s.id
      /\ r.secret = 0
  <2> DEFINE n == NoReq
  <2>1. n \in RequestRecord /\ n.secret = 0
    BY Unread
  <2>2. r = [n EXCEPT !.kind = kind, !.user = s.user, !.token = s.id]
    BY <1>4
  <2> HIDE DEF n
  <2>3. QED BY <1>3, <1>4, <2>1, <2>2 DEF RequestRecord
<1>7. RequireSecondFactor /\ r.kind \in Changes => Backed(r.token, r.user)
  BY <1>1, <1>2, <1>6 DEF Found, IInv, Earned, Changes
<1>8. secretSeq \in Nat
  BY DEF IInv, Typed, TypeOK
<1>9. Sane(q, "load", r)
  BY <1>3, <1>6, <1>7, <1>8 DEF Sane, PCs, Changes
<1>10. QED BY <1>1, <1>5, <1>9, ReadingKeeps DEF Lookup

LEMMA LoadUserKeeps ==
  ASSUME IInv, NEW q \in Reqs, LoadUser(q)
  PROVE  IInv'
<1> DEFINE u == User(q)
           r == [Row(u) EXCEPT !.kind = req[q].kind, !.token = req[q].token]
           l == Then(req[q].kind)
<1>1. /\ pc[q] = "load" /\ pc[q] # "idle"
      /\ UNCHANGED <<step, accounts, codeVars, sessionVars, owner, destroying, history>>
  BY DEF LoadUser
<1>2. /\ u \in Users /\ req[q] \in RequestRecord /\ req[q].kind # "none"
      /\ secret[u] \in Nat /\ last[u] \in Nat /\ secret[u] <= secretSeq
      /\ req \in [Reqs -> RequestRecord]
  BY <1>1 DEF IInv, Typed, TypeOK, Burned, User
<1>3. CASE IsActive(u)
  <2>0. /\ Row(u) \in RequestRecord /\ Row(u).user = u /\ Row(u).secret = secret[u]
    BY <1>2, RowFields DEF IInv
  <2>1. /\ r \in RequestRecord /\ r.user = u /\ r.kind = req[q].kind
        /\ r.token = req[q].token /\ r.secret = secret[u]
    BY <1>2, <2>0 DEF RequestRecord
  <2>2. pc' = [pc EXCEPT ![q] = l] /\ req' = [req EXCEPT ![q] = r]
    BY <1>3 DEF LoadUser, Goto, Keep
  <2>4. RequireSecondFactor =>
          /\ req[q].kind \in Changes => Backed(req[q].token, u)
          /\ req[q].kind = "passkey" => Proved(q, u)
    BY <1>1 DEF IInv, Earned, Entitled
  <2>5. /\ l \in {"secret", "register", "remove", "full", "factor"}
        /\ l = "full" => req[q].kind = "passkey"
    BY DEF Then
  <2> HIDE DEF r, u, l
  <2>6. Sane(q, l, r)
    BY <1>2, <2>1, <2>4, <2>5 DEF Sane, PCs
  <2>7. QED BY <1>1, <2>2, <2>6, ReadingKeeps
<1>4. CASE ~IsActive(u)
  <2>1. pc' = [pc EXCEPT ![q] = "done"] /\ req' = [req EXCEPT ![q] = req[q]]
    BY <1>2, <1>4 DEF LoadUser, Goto
  <2>2. Sane(q, "done", req[q])
    BY <1>1, SaneNow DEF PCs
  <2>3. QED BY <1>1, <2>1, <2>2, ReadingKeeps
<1>5. QED BY <1>3, <1>4

\* A request that goes on with what it has, but for a few fields.
LEMMA SameFields ==
  ASSUME IInv, NEW q \in Reqs, pc[q] # "idle"
  PROVE  /\ req \in [Reqs -> RequestRecord] /\ req[q] \in RequestRecord
         /\ req[q].user \in Users /\ req[q].kind # "none"
         /\ req[q].secret <= secretSeq /\ req[q].secret \in Nat /\ req[q].left \in Nat
         /\ req[q].last \in Nat
         /\ secretSeq \in Nat /\ codeSeq \in Nat
         /\ RequireSecondFactor /\ req[q].kind \in Changes
              => Backed(req[q].token, req[q].user)
BY DEF IInv, Typed, TypeOK, Burned, Earned, Entitled, User, RequestRecord

LEMMA CountKeeps ==
  ASSUME IInv, NEW q \in Reqs, CountBackupCodes(q)
  PROVE  IInv'
<1> DEFINE p == [req[q] EXCEPT !.stage = "pending"]
           f == [req[q] EXCEPT !.stage = "full"]
<1>1. /\ pc[q] = "count" /\ pc[q] # "idle"
      /\ UNCHANGED <<step, accounts, codeVars, sessionVars, owner, destroying, history>>
      /\ \/ pc' = [pc EXCEPT ![q] = "start"] /\ req' = [req EXCEPT ![q] = p]
         \/ pc' = [pc EXCEPT ![q] = "done"] /\ UNCHANGED req
         \/ /\ pc' = [pc EXCEPT ![q] = "start"] /\ req' = [req EXCEPT ![q] = f]
            /\ ~RequireSecondFactor
  BY DEF CountBackupCodes, Goto, Keep
<1>2. /\ req[q] \in RequestRecord /\ req[q].user \in Users /\ req[q].kind # "none"
      /\ req[q].secret <= secretSeq
      /\ RequireSecondFactor /\ req[q].kind \in Changes
           => Backed(req[q].token, req[q].user)
  BY <1>1, SameFields
<1>3. /\ p \in RequestRecord /\ f \in RequestRecord
      /\ p.user = req[q].user /\ p.kind = req[q].kind /\ p.secret = req[q].secret
      /\ p.token = req[q].token /\ p.stage = "pending" /\ f.stage = "full"
      /\ f.user = req[q].user /\ f.kind = req[q].kind /\ f.secret = req[q].secret
  BY <1>2 DEF RequestRecord
<1> HIDE DEF p, f
<1>4. Sane(q, "start", p)
  BY <1>2, <1>3 DEF Sane, PCs
<1>5. ~RequireSecondFactor => Sane(q, "start", f)
  BY <1>2, <1>3 DEF Sane, PCs
<1>6. Sane(q, "done", req[q])
  BY <1>1, SaneNow DEF PCs
<1>7. UNCHANGED req => req' = [req EXCEPT ![q] = req[q]]
  BY <1>1, SameFields
<1>8. QED BY <1>1, <1>4, <1>5, <1>6, <1>7, ReadingKeeps

LEMMA VerifyKeeps ==
  ASSUME IInv, NEW q \in Reqs, VerifyTOTP(q)
  PROVE  IInv'
<1>1. PICK s \in (step - Skew)..(step + Skew) :
        s > req[q].last /\ Keep(q, [req[q] EXCEPT !.at = s])
  BY DEF VerifyTOTP
<1> DEFINE r == [req[q] EXCEPT !.at = s]
<1>2. /\ pc[q] # "idle" /\ pc' = [pc EXCEPT ![q] = "claim"] /\ req' = [req EXCEPT ![q] = r]
      /\ UNCHANGED <<step, accounts, codeVars, sessionVars, owner, destroying, history>>
  BY <1>1 DEF VerifyTOTP, Goto, Keep
<1>3. /\ req[q] \in RequestRecord /\ req[q].user \in Users /\ req[q].kind # "none"
      /\ req[q].secret <= secretSeq /\ req[q].last \in Nat
      /\ RequireSecondFactor /\ req[q].kind \in Changes
           => Backed(req[q].token, req[q].user)
  BY <1>2, SameFields
<1>4. s \in Nat
  BY <1>1, <1>3, SignInAssumption DEF IInv, Typed, TypeOK
<1>5. /\ r \in RequestRecord
      /\ r.user = req[q].user /\ r.kind = req[q].kind /\ r.secret = req[q].secret
      /\ r.token = req[q].token
  BY <1>3, <1>4 DEF RequestRecord
<1> HIDE DEF r
<1>6. Sane(q, "claim", r)
  BY <1>3, <1>5 DEF Sane, PCs
<1>7. QED BY <1>2, <1>6, ReadingKeeps

LEMMA OpenCodesKeeps ==
  ASSUME IInv, NEW q \in Reqs, OpenBackupCodes(q)
  PROVE  IInv'
<1>1. PICK c \in OpenCodes(User(q)) :
        Keep(q, [req[q] EXCEPT !.code = c.id, !.value = c.value])
  BY DEF OpenBackupCodes
<1> DEFINE r == [req[q] EXCEPT !.code = c.id, !.value = c.value]
<1>2. /\ pc[q] # "idle" /\ pc' = [pc EXCEPT ![q] = "spend"] /\ req' = [req EXCEPT ![q] = r]
      /\ UNCHANGED <<step, accounts, codeVars, sessionVars, owner, destroying, history>>
  BY <1>1 DEF OpenBackupCodes, Goto, Keep
<1>3. /\ req[q] \in RequestRecord /\ req[q].user \in Users /\ req[q].kind # "none"
      /\ req[q].secret <= secretSeq
      /\ RequireSecondFactor /\ req[q].kind \in Changes
           => Backed(req[q].token, req[q].user)
  BY <1>2, SameFields
<1>4. c.id = c.value /\ c.id \in 1..codeSeq /\ c.id \in Nat /\ c.value \in Nat
  BY DEF OpenCodes, IInv, Spent, Typed, TypeOK
<1>5. /\ r \in RequestRecord
      /\ r.user = req[q].user /\ r.kind = req[q].kind /\ r.secret = req[q].secret
      /\ r.token = req[q].token /\ r.code = c.id /\ r.value = c.value
  BY <1>3, <1>4 DEF RequestRecord
<1> HIDE DEF r
<1>6. Sane(q, "spend", r)
  BY <1>3, <1>4, <1>5 DEF Sane, PCs
<1>7. QED BY <1>2, <1>6, ReadingKeeps

LEMMA EndsKeeps ==
  ASSUME IInv, NEW q \in Reqs, Ends(q)
  PROVE  IInv'
<1>1. /\ pc[q] # "idle" /\ pc' = [pc EXCEPT ![q] = "done"] /\ UNCHANGED req
      /\ UNCHANGED <<step, accounts, codeVars, sessionVars, owner, destroying, history>>
  BY DEF Ends, Goto
<1>2. Sane(q, "done", req[q]) /\ req' = [req EXCEPT ![q] = req[q]]
  BY <1>1, SaneNow, SameFields DEF PCs
<1>3. QED BY <1>1, <1>2, ReadingKeeps

-----------------------------------------------------------------------------
(* Steps that write.                                                        *)

\* A request that goes on to a line where no session is started.
LEMMA EntitledStill ==
  ASSUME IInv, NEW q \in Reqs, UNCHANGED <<req, admitted, vouched, started>>,
         pc'[q] \notin {"start", "drop", "full", "load"}
  PROVE  RequireSecondFactor => Entitled(q)'
<1>1. RequireSecondFactor => Entitled(q)
  BY DEF IInv, Earned
<1>2. QED BY <1>1 DEF Entitled, Backed, Proved, User

\* The request itself when one of its steps writes: it goes to l.
LEMMA GoesOn ==
  ASSUME IInv, NEW q \in Reqs, NEW l \in PCs \ {"idle"}, pc[q] # "idle",
         l \notin {"insert", "spend", "start"},
         pc' = [pc EXCEPT ![q] = l], UNCHANGED req
  PROVE  /\ pc' \in [Reqs -> PCs]
         /\ \A x \in Reqs : pc'[x] = (IF x = q THEN l ELSE pc[x]) /\ req'[x] = req[x]
         /\ \A x \in Reqs : /\ (pc'[x] = "idle") <=> (req'[x].kind = "none")
                            /\ pc'[x] # "idle" => req'[x].user \in Users
                            /\ pc'[x] = "insert" => req'[x].left >= 1
                            /\ pc'[x] = "start" => req'[x].stage # "none"
                            /\ pc'[x] = "spend" =>
                                 req'[x].code = req'[x].value /\ req'[x].code \in 1..codeSeq
                            /\ req'[x].secret <= secretSeq
<1>1. pc \in [Reqs -> PCs]
  BY DEF IInv, Typed, TypeOK
<1>2. /\ pc' \in [Reqs -> PCs]
      /\ \A x \in Reqs : pc'[x] = (IF x = q THEN l ELSE pc[x]) /\ req'[x] = req[x]
  BY <1>1
<1>3. QED BY <1>2 DEF IInv, Typed, TypeOK, Burned, Spent

\* A session is started at the end of a login.
LEMMA StartKeeps ==
  ASSUME IInv, NEW q \in Reqs, NEW st \in {"pending", "full"},
         pc[q] # "idle", Start(q, st), Goto(q, "done"),
         UNCHANGED <<step, accounts, codeVars, owner, destroying, req, admitted, vouched>>,
         RequireSecondFactor /\ st = "full" => Proved(q, User(q))
  PROVE  IInv'
<1> DEFINE s == Session(sessionSeq + 1, User(q), st)
           e == [token |-> sessionSeq + 1, by |-> q]
<1>1. UNCHANGED <<step, status, secret, secretSeq, last, codes, codeSeq, codesMade,
                  owner, destroying, req, admitted, vouched>>
      /\ pc' = [pc EXCEPT ![q] = "done"]
  BY DEF accounts, codeVars, Goto
<1>2. /\ sessionSeq' = sessionSeq + 1 /\ sessions' = sessions \cup {s}
      /\ started' = started \cup {e}
  BY DEF Start
<1>3. sessionSeq + 1 \in Nat /\ User(q) \in Users
  BY DEF IInv, Typed, TypeOK, User
<1>4. /\ s \in [id: Nat, user: Users, stage: {"pending", "full"}]
      /\ s.id = sessionSeq + 1 /\ s.user = User(q) /\ s.stage = st
      /\ e \in [token: Nat, by: Reqs]
  BY <1>3 DEF Session
<1>5. "done" \in PCs
  BY DEF PCs
<1>6. /\ pc' \in [Reqs -> PCs]
      /\ \A x \in Reqs : pc'[x] = (IF x = q THEN "done" ELSE pc[x]) /\ req'[x] = req[x]
      /\ \A x \in Reqs : /\ (pc'[x] = "idle") <=> (req'[x].kind = "none")
                         /\ pc'[x] # "idle" => req'[x].user \in Users
                         /\ pc'[x] = "insert" => req'[x].left >= 1
                         /\ pc'[x] = "start" => req'[x].stage # "none"
                         /\ pc'[x] = "spend" =>
                              req'[x].code = req'[x].value /\ req'[x].code \in 1..codeSeq
                         /\ req'[x].secret <= secretSeq
  BY <1>1, <1>5, GoesOn
<1>7. Typed'
  <2>1. sessions' \subseteq [id: Nat, user: Users, stage: {"pending", "full"}]
        /\ started' \subseteq [token: Nat, by: Reqs] /\ sessionSeq' \in Nat
    <3> HIDE DEF s, e
    <3>1. QED BY <1>2, <1>3, <1>4 DEF IInv, Typed, TypeOK
  <2>2. TypeOK'
    BY <1>1, <1>6, <2>1 DEF IInv, Typed, TypeOK
  <2>3. QED BY <1>6, <2>2 DEF Typed
<1>8. Burned' /\ Spent'
  BY <1>1, <1>6 DEF IInv, Burned, Spent, CodeAdmitsOnce, BackupCodeAdmitsOnce
<1>9. Earned'
  <2>1. started \subseteq started' /\ User(q) = req[q].user
    BY <1>2 DEF User
  <2>2. ASSUME RequireSecondFactor, NEW x \in sessions' \ sessions, x.stage = "full"
        PROVE  Backed(x.id, x.user)'
    <3>1. x = s /\ Proved(q, User(q))
      BY <1>2, <1>4, <2>2
    <3>2. e \in started' /\ e.token = x.id /\ e.by = q /\ x.user = User(q)
      BY <1>2, <1>4, <3>1
    <3>3. QED BY <1>1, <3>1, <3>2 DEF Backed, Proved
  <2>3. ASSUME RequireSecondFactor PROVE Entitled(q)'
    <3>1. req[q].kind \in Changes => Backed(req[q].token, User(q))
      BY <2>3 DEF IInv, Earned, Entitled
    <3>2. Backed(req[q].token, User(q)) => Backed(req[q].token, User(q))'
      BY <1>1, <2>1 DEF Backed, Proved, User
    <3>3. QED BY <1>6, <3>1, <3>2 DEF Entitled, User
  <2>4. QED BY <1>1, <1>6, <2>1, <2>2, <2>3, EarnedStays DEF IInv
<1>10. QED BY <1>7, <1>8, <1>9 DEF IInv

LEMMA StartsKeep ==
  ASSUME IInv, NEW q \in Reqs, StartSession(q) \/ StartFull(q)
  PROVE  IInv'
<1>1. CASE StartFull(q)
  <2>1. RequireSecondFactor => Proved(q, User(q))
    BY <1>1 DEF StartFull, IInv, Earned, Entitled
  <2>2. QED BY <1>1, <2>1, StartKeeps DEF StartFull
<1>2. CASE StartSession(q)
  <2>1. req[q].stage \in {"pending", "full"}
    <3>1. pc[q] = "start" /\ req[q] \in RequestRecord /\ req[q].stage # "none"
      BY <1>2 DEF StartSession, IInv, Typed, TypeOK
    <3>2. QED BY <3>1 DEF RequestRecord
  <2>2. RequireSecondFactor /\ req[q].stage = "full" => Proved(q, User(q))
    BY <1>2 DEF StartSession, IInv, Earned, Entitled
  <2>3. QED BY <1>2, <2>1, <2>2, StartKeeps DEF StartSession
<1>3. QED BY <1>1, <1>2

\* A one-time secret was spent: whoever logs in with it is written down.
Proofs == [user: Users, secret: Nat, at: Nat, value: Nat]

LEMMA PassedKeeps ==
  ASSUME IInv, NEW q \in Reqs, pc[q] \in {"claim", "spend"},
         NEW proof \in Proofs, proof.user = User(q), Passed(q, proof),
         UNCHANGED <<step, status, secret, secretSeq, codeSeq, codesMade, sessionVars,
                     owner, destroying, req>>,
         last' \in [Users -> Nat],
         codes' \subseteq [id: Nat, user: Users, value: Nat, used: BOOLEAN]
  PROVE  /\ Typed' /\ Earned'
         /\ admitted' \in {admitted, admitted \cup {[proof |-> proof, by |-> q]}}
         /\ \A x \in Reqs : /\ req'[x].secret <= secretSeq
                            /\ pc'[x] = "spend" =>
                                 req'[x].code = req'[x].value /\ req'[x].code \in 1..codeSeq
<1> DEFINE l == IF req[q].kind = "mfa" THEN "drop" ELSE "done"
           a == [proof |-> proof, by |-> q]
<1>1. /\ pc' = [pc EXCEPT ![q] = l] /\ UNCHANGED <<vouched, started>>
      /\ UNCHANGED <<step, status, secret, secretSeq, codeSeq, codesMade, sessions,
                     sessionSeq, owner, destroying, req>>
      /\ admitted' = IF req[q].kind = "confirm" THEN admitted ELSE admitted \cup {a}
  BY DEF Passed, Goto, sessionVars
<1>2. a \in [proof: Proofs, by: Reqs] /\ a.by = q /\ a.proof.user = User(q)
  OBVIOUS
<1>3. l \in PCs \ {"idle"} /\ l \notin {"insert", "spend", "start"}
  BY DEF PCs
<1> HIDE DEF a, l
<1>4. /\ pc' \in [Reqs -> PCs]
      /\ \A x \in Reqs : pc'[x] = (IF x = q THEN l ELSE pc[x]) /\ req'[x] = req[x]
      /\ \A x \in Reqs : /\ (pc'[x] = "idle") <=> (req'[x].kind = "none")
                         /\ pc'[x] # "idle" => req'[x].user \in Users
                         /\ pc'[x] = "insert" => req'[x].left >= 1
                         /\ pc'[x] = "start" => req'[x].stage # "none"
                         /\ pc'[x] = "spend" =>
                              req'[x].code = req'[x].value /\ req'[x].code \in 1..codeSeq
                         /\ req'[x].secret <= secretSeq
  BY <1>1, <1>3, GoesOn
<1>5. Typed'
  <2>1. admitted' \subseteq [proof: Proofs, by: Reqs]
    BY <1>1, <1>2 DEF IInv, Typed, TypeOK, Proofs
  <2>2. TypeOK'
    BY <1>1, <1>4, <2>1 DEF IInv, Typed, TypeOK, Proofs
  <2>3. QED BY <1>4, <2>2 DEF Typed
<1>6. Earned'
  <2>1. admitted \subseteq admitted' /\ User(q) = req[q].user
    BY <1>1 DEF User
  <2>2. ASSUME RequireSecondFactor PROVE Entitled(q)'
    <3>1. req[q].kind \in Changes => Backed(req[q].token, User(q))
      BY <2>2 DEF IInv, Earned, Entitled
    <3>2. Backed(req[q].token, User(q)) => Backed(req[q].token, User(q))'
      BY <1>1, <2>1 DEF Backed, Proved, User
    <3>3. l = "drop" => Proved(q, User(q))'
      <4>1. l = "drop" => req[q].kind = "mfa"
        BY DEF l
      <4>2. l = "drop" => a \in admitted'
        BY <1>1, <4>1
      <4>3. QED BY <1>1, <1>2, <4>2 DEF Proved, User
    <3>4. l \notin {"start", "load", "full"}
      BY DEF l
    <3>5. QED BY <1>4, <3>1, <3>2, <3>3, <3>4 DEF Entitled, User
  <2>3. QED BY <1>1, <1>4, <2>1, <2>2, EarnedStays DEF IInv
<1>7. admitted' \in {admitted, admitted \cup {[proof |-> proof, by |-> q]}}
  BY <1>1 DEF a
<1>8. QED BY <1>4, <1>5, <1>6, <1>7

LEMMA RefusedKeeps ==
  ASSUME IInv, NEW q \in Reqs, pc[q] # "idle", Refused(q),
         UNCHANGED <<step, accounts, codeVars, sessionVars, owner, destroying, req>>
  PROVE  IInv'
<1>1. /\ pc' = [pc EXCEPT ![q] = "done"] /\ req' = [req EXCEPT ![q] = req[q]]
      /\ UNCHANGED history
  BY SameFields DEF Refused, Goto
<1>2. Sane(q, "done", req[q])
  BY SaneNow DEF PCs
<1>3. QED BY <1>1, <1>2, ReadingKeeps

LEMMA ClaimCounterKeeps ==
  ASSUME IInv, NEW q \in Reqs, ClaimTOTPCounter(q)
  PROVE  IInv'
<1> DEFINE u == User(q)
           at == req[q].at
           p == TOTPProof(u, req[q].secret, at)
<1>1. /\ pc[q] = "claim" /\ pc[q] # "idle"
      /\ UNCHANGED <<step, status, secret, secretSeq, codeVars, sessionVars, owner, destroying,
                     req>>
  BY DEF ClaimTOTPCounter
<1>2. CASE ~(last[u] < at)
  BY <1>1, <1>2, RefusedKeeps DEF ClaimTOTPCounter, accounts
<1>3. CASE last[u] < at
  <2>1. last' = [last EXCEPT ![u] = at] /\ Passed(q, p)
    BY <1>3 DEF ClaimTOTPCounter
  <2>2. /\ u \in Users /\ at \in Nat /\ req[q].secret \in Nat /\ req[q].secret <= secretSeq
        /\ last \in [Users -> Nat] /\ codeSeq \in Nat /\ secret \in [Users -> Nat]
        /\ admitted \subseteq [proof: Proofs, by: Reqs]
        /\ codes \subseteq [id: Nat, user: Users, value: Nat, used: BOOLEAN]
    BY <1>1, SameFields DEF IInv, Typed, TypeOK, User, RequestRecord, Proofs
  <2>3. /\ p \in Proofs /\ p.user = u /\ p.secret = req[q].secret /\ p.at = at /\ p.value = 0
    BY <2>2 DEF Proofs, TOTPProof
  <2>4. last' \in [Users -> Nat] /\ last'[u] = at
        /\ \A x \in Users : last[x] <= last'[x]
    BY <1>3, <2>1, <2>2
  <2>5. UNCHANGED <<codes, codeSeq, codesMade, secret, secretSeq>>
    BY <1>1 DEF codeVars
  <2> HIDE DEF p, u, at
  <2>6. /\ Typed' /\ Earned'
        /\ admitted' \in {admitted, admitted \cup {[proof |-> p, by |-> q]}}
        /\ \A x \in Reqs : /\ req'[x].secret <= secretSeq
                           /\ pc'[x] = "spend" =>
                                req'[x].code = req'[x].value /\ req'[x].code \in 1..codeSeq
    <3>1. p.user = User(q)
      BY <2>3 DEF u
    <3>2. QED BY <1>1, <2>1, <2>2, <2>3, <2>4, <2>5, <3>1, PassedKeeps
  <2>7. ASSUME NEW a \in admitted' PROVE a \in admitted \/ (a.proof = p /\ a.by = q)
    BY <2>6
  <2>8. ASSUME NEW a \in admitted' PROVE a.proof.secret <= secretSeq
    BY <2>2, <2>3, <2>7 DEF IInv, Burned
  <2>9. ASSUME NEW a \in admitted', a.proof.value = 0, a.proof.secret = secret[a.proof.user]
        PROVE  a.proof.at <= last'[a.proof.user]
    <3>1. CASE a \in admitted
      <4>1. a.proof.at <= last[a.proof.user] /\ a.proof.user \in Users /\ a.proof.at \in Nat
        BY <2>2, <2>9, <3>1 DEF IInv, Burned, Proofs
      <4>2. QED BY <2>2, <2>4, <4>1
    <3>2. CASE a.proof = p
      BY <2>2, <2>3, <2>4, <3>2
    <3>3. QED BY <2>7, <3>1, <3>2
  <2>10. ASSUME NEW a \in admitted, a.proof = p, p.secret = secret[p.user] PROVE FALSE
    <3>1. a.proof.at <= last[u]
      BY <2>3, <2>10 DEF IInv, Burned
    <3>2. QED BY <1>3, <2>2, <2>3, <2>10, <3>1 DEF u, at
  <2>11. CodeAdmitsOnce'
    <3> SUFFICES ASSUME NEW a \in admitted', NEW b \in admitted', a.proof = b.proof,
                        a.proof.value = 0, a.proof.secret = secret[a.proof.user]
                 PROVE  a.by = b.by
      BY <2>5 DEF CodeAdmitsOnce
    <3>1. CASE a \in admitted /\ b \in admitted
      BY <3>1 DEF IInv, Burned, CodeAdmitsOnce
    <3>2. CASE a \notin admitted \/ b \notin admitted
      BY <2>7, <2>10, <3>2
    <3>3. QED BY <3>1, <3>2
  <2>12. Burned'
    BY <2>5, <2>6, <2>8, <2>9, <2>11 DEF IInv, Burned
  <2>13. Spent'
    <3>1. \A a \in admitted' : a.proof.value <= codeSeq
      BY <2>2, <2>3, <2>7 DEF IInv, Spent
    <3>2. \A a \in admitted', c \in codes : a.proof.value # 0 /\ c.value = a.proof.value => c.used
      BY <2>3, <2>7 DEF IInv, Spent
    <3>3. BackupCodeAdmitsOnce'
      BY <2>3, <2>7 DEF IInv, Spent, BackupCodeAdmitsOnce
    <3>4. QED BY <2>5, <2>6, <3>1, <3>2, <3>3 DEF IInv, Spent
  <2>14. QED BY <2>6, <2>12, <2>13 DEF IInv
<1>4. QED BY <1>2, <1>3

LEMMA ClaimBackupKeeps ==
  ASSUME IInv, NEW q \in Reqs, ClaimBackupCode(q)
  PROVE  IInv'
<1> DEFINE v == req[q].value
           p == CodeProof(User(q), v)
           spent == {IF c.id = req[q].code THEN [c EXCEPT !.used = TRUE] ELSE c : c \in codes}
<1>1. /\ pc[q] = "spend" /\ pc[q] # "idle"
      /\ UNCHANGED <<step, status, secret, secretSeq, last, codeSeq, codesMade, sessionVars,
                     owner, destroying, req>>
  BY DEF ClaimBackupCode, accounts
<1>2. CASE ~(\E c \in codes : c.id = req[q].code /\ ~c.used)
  BY <1>1, <1>2, RefusedKeeps DEF ClaimBackupCode, accounts, codeVars
<1>3. CASE \E c \in codes : c.id = req[q].code /\ ~c.used
  <2>1. codes' = spent /\ Passed(q, p)
    BY <1>3 DEF ClaimBackupCode
  <2>2. /\ User(q) \in Users /\ v \in Nat /\ v = req[q].code /\ v \in 1..codeSeq
        /\ codeSeq \in Nat /\ last \in [Users -> Nat]
        /\ admitted \subseteq [proof: Proofs, by: Reqs]
        /\ codes \subseteq [id: Nat, user: Users, value: Nat, used: BOOLEAN]
    BY <1>1, SameFields DEF IInv, Typed, TypeOK, User, RequestRecord, Proofs, Spent
  <2>3. /\ p \in Proofs /\ p.user = User(q) /\ p.value = v /\ v # 0
    BY <2>2 DEF Proofs, CodeProof
  <2>4. PICK mine \in codes : mine.id = v /\ ~mine.used
    BY <1>3, <2>2
  <2>5. \A d \in codes' : /\ d \in [id: Nat, user: Users, value: Nat, used: BOOLEAN]
                          /\ \E c \in codes : d.id = c.id /\ d.value = c.value
                                             /\ d.user = c.user
                                             /\ IF c.id = v THEN d.used ELSE d = c
    BY <2>1, <2>2
  <2> HIDE DEF p, v, spent
  <2>6. /\ Typed' /\ Earned'
        /\ admitted' \in {admitted, admitted \cup {[proof |-> p, by |-> q]}}
        /\ \A x \in Reqs : /\ req'[x].secret <= secretSeq
                           /\ pc'[x] = "spend" =>
                                req'[x].code = req'[x].value /\ req'[x].code \in 1..codeSeq
    <3>1. last' \in [Users -> Nat]
      BY <1>1, <2>2
    <3>2. codes' \subseteq [id: Nat, user: Users, value: Nat, used: BOOLEAN]
      BY <2>5
    <3>3. QED BY <1>1, <2>1, <2>3, <3>1, <3>2, PassedKeeps
  <2>7. ASSUME NEW a \in admitted' PROVE a \in admitted \/ (a.proof = p /\ a.by = q)
    BY <2>6
  <2>8. ASSUME NEW a \in admitted, a.proof.value = v PROVE FALSE
    <3>1. mine.value = v
      BY <2>4 DEF IInv, Spent
    <3>2. QED BY <2>3, <2>4, <2>8, <3>1 DEF IInv, Spent
  <2>9. Burned'
    <3>1. \A a \in admitted' : a.proof.secret <= secretSeq
      <4>1. p.secret = 0 /\ secretSeq \in Nat
        BY DEF p, CodeProof, IInv, Typed, TypeOK
      <4>2. QED BY <2>7, <4>1 DEF IInv, Burned
    <3>2. \A a \in admitted' : a.proof.value = 0 => a \in admitted
      BY <2>3, <2>7
    <3>3. CodeAdmitsOnce'
      BY <1>1, <3>2 DEF IInv, Burned, CodeAdmitsOnce
    <3>4. QED BY <1>1, <2>6, <3>1, <3>2, <3>3 DEF IInv, Burned
  <2>10. Spent'
    <3>1. \A c \in codes' : c.id = c.value /\ c.id \in 1..codeSeq
      BY <2>5 DEF IInv, Spent
    <3>2. ASSUME NEW c \in codes', NEW d \in codes', c.id = d.id PROVE c = d
      <4>1. PICK x \in codes : /\ c.id = x.id /\ c.value = x.value /\ c.user = x.user
                               /\ IF x.id = v THEN c.used ELSE c = x
        BY <2>5
      <4>2. PICK y \in codes : /\ d.id = y.id /\ d.value = y.value /\ d.user = y.user
                               /\ IF y.id = v THEN d.used ELSE d = y
        BY <2>5
      <4>3. x = y
        <5>1. \A a, b \in codes : a.id = b.id => a = b
          BY DEF IInv, Spent
        <5>2. x.id = y.id
          BY <3>2, <4>1, <4>2
        <5>3. QED BY <5>1, <5>2
      <4>4. c.used = d.used
        BY <2>5, <4>1, <4>2, <4>3
      <4>5. /\ c \in [id: Nat, user: Users, value: Nat, used: BOOLEAN]
            /\ d \in [id: Nat, user: Users, value: Nat, used: BOOLEAN]
        BY <2>5
      <4>6. QED BY <3>2, <4>1, <4>2, <4>3, <4>4, <4>5
    <3>3. \A a \in admitted' : a.proof.value <= codeSeq
      BY <2>2, <2>3, <2>7 DEF IInv, Spent
    <3>4. ASSUME NEW a \in admitted', NEW c \in codes', a.proof.value # 0,
                 c.value = a.proof.value
          PROVE  c.used
      <4>1. PICK x \in codes : /\ c.id = x.id /\ c.value = x.value
                               /\ IF x.id = v THEN c.used ELSE c = x
        BY <2>5
      <4>2. x.id = x.value
        BY DEF IInv, Spent
      <4>3. CASE a \in admitted
        BY <3>4, <4>1, <4>3 DEF IInv, Spent
      <4>4. CASE a.proof = p
        BY <2>3, <3>4, <4>1, <4>2, <4>4
      <4>5. QED BY <2>7, <4>3, <4>4
    <3>5. BackupCodeAdmitsOnce'
      <4> SUFFICES ASSUME NEW a \in admitted', NEW b \in admitted', a.proof = b.proof,
                          a.proof.value # 0
                   PROVE  a.by = b.by
        BY DEF BackupCodeAdmitsOnce
      <4>1. CASE a \in admitted /\ b \in admitted
        BY <4>1 DEF IInv, Spent, BackupCodeAdmitsOnce
      <4>2. CASE a \notin admitted \/ b \notin admitted
        BY <2>3, <2>7, <2>8, <4>2
      <4>3. QED BY <4>1, <4>2
    <3>6. QED BY <1>1, <2>6, <3>1, <3>2, <3>3, <3>4, <3>5 DEF IInv, Spent
  <2>11. QED BY <2>6, <2>9, <2>10 DEF IInv
<1>4. QED BY <1>2, <1>3

-----------------------------------------------------------------------------
(* Enrolment.                                                               *)

LEMMA SecretKeeps ==
  ASSUME IInv, NEW q \in Reqs, SetTOTPSecret(q)
  PROVE  IInv'
<1> DEFINE u == User(q)
<1>1. /\ pc[q] = "secret" /\ pc[q] # "idle" /\ pc' = [pc EXCEPT ![q] = "clear"]
      /\ secretSeq' = secretSeq + 1
      /\ secret' = [secret EXCEPT ![u] = secretSeq + 1] /\ last' = [last EXCEPT ![u] = 0]
      /\ UNCHANGED <<step, status, codes, codeSeq, codesMade, sessions, sessionSeq,
                     owner, destroying, req, admitted, vouched, started>>
  BY DEF SetTOTPSecret, Goto, codeVars, sessionVars, history
<1>2. /\ u \in Users /\ secretSeq \in Nat /\ secret \in [Users -> Nat]
      /\ last \in [Users -> Nat] /\ req \in [Reqs -> RequestRecord]
      /\ admitted \subseteq [proof: Proofs, by: Reqs]
  BY <1>1 DEF IInv, Typed, TypeOK, User, Proofs
<1> HIDE DEF u
<1>3. /\ secretSeq' \in Nat /\ secret' \in [Users -> Nat] /\ last' \in [Users -> Nat]
      /\ \A x \in Users : /\ secret'[x] = (IF x = u THEN secretSeq + 1 ELSE secret[x])
                          /\ last'[x] = (IF x = u THEN 0 ELSE last[x])
  BY <1>1, <1>2
<1>4. "clear" \in PCs \ {"idle"}
  BY DEF PCs
<1>5. /\ pc' \in [Reqs -> PCs]
      /\ \A x \in Reqs : pc'[x] = (IF x = q THEN "clear" ELSE pc[x]) /\ req'[x] = req[x]
      /\ \A x \in Reqs : /\ (pc'[x] = "idle") <=> (req'[x].kind = "none")
                         /\ pc'[x] # "idle" => req'[x].user \in Users
                         /\ pc'[x] = "insert" => req'[x].left >= 1
                         /\ pc'[x] = "start" => req'[x].stage # "none"
                         /\ pc'[x] = "spend" =>
                              req'[x].code = req'[x].value /\ req'[x].code \in 1..codeSeq
                         /\ req'[x].secret <= secretSeq
  BY <1>1, <1>4, GoesOn
<1>6. Typed'
  <2>1. TypeOK'
    BY <1>1, <1>3, <1>5 DEF IInv, Typed, TypeOK
  <2>2. QED BY <1>5, <2>1 DEF Typed
<1>7. Burned'
  <2>1. \A x \in Users : secret'[x] <= secretSeq'
    BY <1>1, <1>2, <1>3 DEF IInv, Burned
  <2>2. ASSUME NEW x \in Reqs PROVE req'[x].secret <= secretSeq'
    <3>1. req[x].secret \in Nat
      BY <1>2 DEF RequestRecord
    <3>2. QED BY <1>1, <1>2, <1>5, <3>1
  <2>3. ASSUME NEW a \in admitted
        PROVE  a.proof.secret \in Nat /\ a.proof.secret <= secretSeq
               /\ a.proof.user \in Users
    BY <1>2 DEF IInv, Burned, Proofs
  <2>4. \A a \in admitted' : a.proof.secret <= secretSeq'
    BY <1>1, <1>2, <2>3
  <2>5. ASSUME NEW a \in admitted, a.proof.secret = secret'[a.proof.user]
        PROVE  a.proof.user # u /\ a.proof.secret = secret[a.proof.user]
    BY <1>2, <1>3, <2>3, <2>5
  <2>6. \A a \in admitted' : a.proof.value = 0 /\ a.proof.secret = secret'[a.proof.user]
          => a.proof.at <= last'[a.proof.user]
    BY <1>1, <1>3, <2>3, <2>5 DEF IInv, Burned
  <2>7. CodeAdmitsOnce'
    BY <1>1, <2>5 DEF IInv, Burned, CodeAdmitsOnce
  <2>8. QED BY <2>1, <2>2, <2>4, <2>6, <2>7 DEF Burned
<1>8. Spent'
  BY <1>1, <1>5 DEF IInv, Spent, BackupCodeAdmitsOnce
<1>9. Earned'
  <2>1. RequireSecondFactor => Entitled(q)'
    BY <1>1, <1>5, EntitledStill
  <2>2. QED BY <1>1, <1>5, <2>1, EarnedStays DEF IInv
<1>10. QED BY <1>6, <1>7, <1>8, <1>9 DEF IInv

\* Rows of codes go, or one that never was comes.
LEMMA RewriteKeeps ==
  ASSUME IInv, NEW q \in Reqs, NEW l, NEW r, Sane(q, l, r), l # "spend",
         pc' = [pc EXCEPT ![q] = l], req' = [req EXCEPT ![q] = r],
         UNCHANGED <<step, accounts, sessionVars, owner, destroying, history>>,
         codeSeq' \in {codeSeq, codeSeq + 1}, codesMade' = codeSeq',
         codes' \subseteq [id: Nat, user: Users, value: Nat, used: BOOLEAN],
         \A c \in codes' : \/ c \in codes
                           \/ /\ codeSeq' = codeSeq + 1
                              /\ c.id = codeSeq + 1 /\ c.value = codeSeq + 1,
         \A c, d \in codes' : c.id = d.id => c = d
  PROVE  IInv'
<1>1. UNCHANGED <<step, status, secret, secretSeq, last, sessions, sessionSeq, owner, destroying,
                  admitted, vouched, started>>
  BY DEF accounts, sessionVars, history
<1>2. /\ pc \in [Reqs -> PCs] /\ req \in [Reqs -> RequestRecord] /\ codeSeq \in Nat
      /\ admitted \subseteq [proof: Proofs, by: Reqs]
  BY DEF IInv, Typed, TypeOK, Proofs
<1>3. \A x \in Reqs : pc'[x] = (IF x = q THEN l ELSE pc[x])
                      /\ req'[x] = (IF x = q THEN r ELSE req[x])
  BY <1>2
<1>4. Typed'
  <2>1. pc' \in [Reqs -> PCs] /\ req' \in [Reqs -> RequestRecord] /\ codeSeq' \in Nat
    BY <1>2 DEF Sane
  <2>2. \A x \in Reqs : (pc'[x] = "idle") <=> (req'[x].kind = "none")
    BY <1>3 DEF IInv, Typed, TypeOK, Sane
  <2>3. TypeOK'
    BY <1>1, <2>1, <2>2 DEF IInv, Typed, TypeOK
  <2>4. \A x \in Reqs : /\ pc'[x] # "idle" => req'[x].user \in Users
                        /\ pc'[x] = "insert" => req'[x].left >= 1
                        /\ pc'[x] = "start" => req'[x].stage # "none"
    BY <1>3 DEF IInv, Typed, Sane
  <2>5. QED BY <2>3, <2>4 DEF Typed
<1>5. Burned'
  <2>1. \A x \in Reqs : req'[x].secret <= secretSeq
    BY <1>3 DEF IInv, Burned, Sane
  <2>2. QED BY <1>1, <2>1 DEF IInv, Burned, CodeAdmitsOnce
<1>6. Spent'
  <2>1. \A c \in codes' : c.id = c.value /\ c.id \in 1..codeSeq'
    BY <1>2 DEF IInv, Spent
  <2>2. \A x \in Reqs : pc'[x] = "spend" =>
          req'[x].code = req'[x].value /\ req'[x].code \in 1..codeSeq'
    BY <1>2, <1>3 DEF IInv, Spent, Sane
  <2>3. ASSUME NEW a \in admitted'
        PROVE  /\ a.proof.value <= codeSeq'
               /\ \A c \in codes' : a.proof.value # 0 /\ c.value = a.proof.value => c.used
    <3>1. a \in admitted /\ a.proof.value \in Nat /\ a.proof.value <= codeSeq
      BY <1>1, <1>2 DEF IInv, Spent, Proofs
    <3>2. QED BY <1>2, <3>1 DEF IInv, Spent
  <2>4. QED BY <1>1, <2>1, <2>2, <2>3 DEF IInv, Spent, BackupCodeAdmitsOnce
<1>7. Earned'
  <2>1. RequireSecondFactor => Entitled(q)'
    BY <1>1, <1>3 DEF Sane, Entitled, Backed, Proved, User
  <2>2. QED BY <1>1, <1>3, <2>1, EarnedStays DEF IInv
<1>8. QED BY <1>4, <1>5, <1>6, <1>7 DEF IInv

LEMMA ClearKeeps ==
  ASSUME IInv, NEW q \in Reqs, ClearBackupCodes(q)
  PROVE  IInv'
<1> DEFINE r == [req[q] EXCEPT !.left = BackupCodes]
           l == IF BackupCodes = 0 THEN "enrolled" ELSE "insert"
<1>1. /\ pc[q] # "idle" /\ pc' = [pc EXCEPT ![q] = l] /\ req' = [req EXCEPT ![q] = r]
      /\ codes' = {c \in codes : c.user # User(q)} /\ UNCHANGED <<codeSeq, codesMade>>
      /\ UNCHANGED <<step, accounts, sessionVars, owner, destroying, history>>
  BY DEF ClearBackupCodes, Goto, Keep
<1>2. /\ req[q] \in RequestRecord /\ req[q].user \in Users /\ req[q].kind # "none"
      /\ req[q].secret <= secretSeq
      /\ RequireSecondFactor /\ req[q].kind \in Changes
           => Backed(req[q].token, req[q].user)
  BY <1>1, SameFields
<1>3. /\ r \in RequestRecord /\ r.user = req[q].user /\ r.kind = req[q].kind
      /\ r.secret = req[q].secret /\ r.token = req[q].token /\ r.left = BackupCodes
  BY <1>2, SignInAssumption DEF RequestRecord
<1> HIDE DEF r
<1>4. Sane(q, l, r)
  BY <1>2, <1>3, SignInAssumption DEF Sane, PCs
<1>5. l # "spend" /\ codesMade = codeSeq
      /\ codes \subseteq [id: Nat, user: Users, value: Nat, used: BOOLEAN]
      /\ \A c, d \in codes : c.id = d.id => c = d
  BY DEF IInv, Spent, Typed, TypeOK
<1> HIDE DEF l
<1>6. /\ codes' \subseteq [id: Nat, user: Users, value: Nat, used: BOOLEAN]
      /\ \A c \in codes' : c \in codes
      /\ \A c, d \in codes' : c.id = d.id => c = d
      /\ codeSeq' \in {codeSeq, codeSeq + 1} /\ codesMade' = codeSeq'
  BY <1>1, <1>5
<1>7. QED BY <1>1, <1>4, <1>5, <1>6, RewriteKeeps

LEMMA StoreKeeps ==
  ASSUME IInv, NEW q \in Reqs, StoreBackupCode(q)
  PROVE  IInv'
<1> DEFINE r == [req[q] EXCEPT !.left = @ - 1]
           l == IF req[q].left = 1 THEN "enrolled" ELSE "insert"
           c == Code(codeSeq + 1, User(q), codesMade + 1)
<1>1. /\ pc[q] = "insert" /\ pc[q] # "idle"
      /\ pc' = [pc EXCEPT ![q] = l] /\ req' = [req EXCEPT ![q] = r]
      /\ codes' = codes \cup {c} /\ codeSeq' = codeSeq + 1 /\ codesMade' = codesMade + 1
      /\ UNCHANGED <<step, accounts, sessionVars, owner, destroying, history>>
  BY DEF StoreBackupCode, Goto, Keep, NextCodeId
<1>2. /\ req[q] \in RequestRecord /\ req[q].user \in Users /\ req[q].kind # "none"
      /\ req[q].secret <= secretSeq /\ req[q].left \in Nat /\ req[q].left >= 1
      /\ RequireSecondFactor /\ req[q].kind \in Changes
           => Backed(req[q].token, req[q].user)
  BY <1>1, SameFields DEF IInv, Typed
<1>3. req[q].left - 1 \in Nat /\ (req[q].left # 1 => req[q].left - 1 >= 1)
  BY <1>2
<1>4. /\ r \in RequestRecord /\ r.user = req[q].user /\ r.kind = req[q].kind
      /\ r.secret = req[q].secret /\ r.token = req[q].token /\ r.left = req[q].left - 1
  BY <1>2, <1>3 DEF RequestRecord
<1> HIDE DEF r
<1>5. Sane(q, l, r)
  BY <1>2, <1>3, <1>4 DEF Sane, PCs
<1>6. /\ l # "spend" /\ codesMade = codeSeq /\ codeSeq \in Nat /\ User(q) \in Users
      /\ codes \subseteq [id: Nat, user: Users, value: Nat, used: BOOLEAN]
      /\ \A x, y \in codes : x.id = y.id => x = y
      /\ \A x \in codes : x.id \in 1..codeSeq
  BY <1>2 DEF IInv, Spent, Typed, TypeOK, User
<1>7. /\ c \in [id: Nat, user: Users, value: Nat, used: BOOLEAN]
      /\ c.id = codeSeq + 1 /\ c.value = codeSeq + 1
  BY <1>6 DEF Code
<1> HIDE DEF l, c
<1>8. /\ codes' \subseteq [id: Nat, user: Users, value: Nat, used: BOOLEAN]
      /\ \A x \in codes' : x \in codes \/ /\ codeSeq' = codeSeq + 1
                                          /\ x.id = codeSeq + 1 /\ x.value = codeSeq + 1
      /\ codeSeq' \in {codeSeq, codeSeq + 1} /\ codesMade' = codeSeq'
  BY <1>1, <1>6, <1>7
<1>9. \A x, y \in codes' : x.id = y.id => x = y
  BY <1>1, <1>6, <1>7
<1>10. QED BY <1>1, <1>5, <1>6, <1>8, <1>9, RewriteKeeps

-----------------------------------------------------------------------------
(* The wizard and the passkeys.                                             *)

\* A request arrives that is vouched for, and reads no row of secrets.
LEMMA VouchKeeps ==
  ASSUME IInv, NEW q \in Reqs, NEW u \in Users, NEW k \in {"setup", "passkey"},
         NEW l \in {"start", "load"}, NEW r \in RequestRecord,
         r.user = u, r.kind = k, r.secret = 0, l = "start" => r.stage # "none",
         pc' = [pc EXCEPT ![q] = l], req' = [req EXCEPT ![q] = r],
         vouched' = vouched \cup {[user |-> u, by |-> q]},
         status' \in [Users -> {"none", "active", "locked"}],
         UNCHANGED <<step, secret, secretSeq, last, codeVars, sessionVars, owner, destroying,
                     admitted, started>>
  PROVE  IInv'
<1>1. UNCHANGED <<step, secret, secretSeq, last, codes, codeSeq, codesMade, sessions,
                  sessionSeq, owner, destroying, admitted, started>>
  BY DEF codeVars, sessionVars
<1>2. pc \in [Reqs -> PCs] /\ req \in [Reqs -> RequestRecord] /\ secretSeq \in Nat
  BY DEF IInv, Typed, TypeOK
<1>3. \A x \in Reqs : pc'[x] = (IF x = q THEN l ELSE pc[x])
                      /\ req'[x] = (IF x = q THEN r ELSE req[x])
  BY <1>2
<1>4. Typed'
  <2>1. pc' \in [Reqs -> PCs] /\ req' \in [Reqs -> RequestRecord]
    BY <1>2 DEF PCs
  <2>2. \A x \in Reqs : (pc'[x] = "idle") <=> (req'[x].kind = "none")
    BY <1>3 DEF IInv, Typed, TypeOK
  <2>3. vouched' \subseteq [user: Users, by: Reqs]
    BY DEF IInv, Typed, TypeOK
  <2>4. TypeOK'
    BY <1>1, <2>1, <2>2, <2>3 DEF IInv, Typed, TypeOK
  <2>5. \A x \in Reqs : /\ pc'[x] # "idle" => req'[x].user \in Users
                        /\ pc'[x] = "insert" => req'[x].left >= 1
                        /\ pc'[x] = "start" => req'[x].stage # "none"
    BY <1>3 DEF IInv, Typed
  <2>6. QED BY <2>4, <2>5 DEF Typed
<1>5. Burned'
  <2>1. \A x \in Reqs : req'[x].secret <= secretSeq
    BY <1>2, <1>3 DEF IInv, Burned
  <2>2. QED BY <1>1, <2>1 DEF IInv, Burned, CodeAdmitsOnce
<1>6. Spent'
  <2>1. \A x \in Reqs : pc'[x] = "spend" =>
          req'[x].code = req'[x].value /\ req'[x].code \in 1..codeSeq
    BY <1>3 DEF IInv, Spent
  <2>2. QED BY <1>1, <2>1 DEF IInv, Spent, BackupCodeAdmitsOnce
<1>7. Earned'
  <2>1. Entitled(q)'
    BY <1>3 DEF Entitled, Proved, User, Changes
  <2>2. QED BY <1>1, <1>3, <2>1, EarnedStays DEF IInv
<1>8. QED BY <1>4, <1>5, <1>6, <1>7 DEF IInv

LEMMA DoorsKeep ==
  ASSUME IInv, NEW q \in Reqs, SetupAdmin(q) \/ PasskeyLoginFinish(q)
  PROVE  IInv'
<1> DEFINE n == NoReq
<1>0. n \in RequestRecord /\ n.secret = 0
  BY Unread
<1>1. CASE SetupAdmin(q)
  <2>1. PICK u \in Users :
          /\ status' = [status EXCEPT ![u] = "active"]
          /\ vouched' = vouched \cup {[user |-> u, by |-> q]}
          /\ Keep(q, [NoReq EXCEPT !.kind = "setup", !.user = u, !.stage = "full"])
    BY <1>1 DEF SetupAdmin
  <2>2. status' \in [Users -> {"none", "active", "locked"}]
    BY <2>1 DEF IInv, Typed, TypeOK
  <2> DEFINE r == [n EXCEPT !.kind = "setup", !.user = u, !.stage = "full"]
  <2>3. req' = [req EXCEPT ![q] = r] /\ pc' = [pc EXCEPT ![q] = "start"]
    BY <1>1, <2>1 DEF SetupAdmin, Keep, Goto
  <2> HIDE DEF n
  <2>4. /\ r \in RequestRecord /\ r.user = u /\ r.kind = "setup" /\ r.secret = 0
        /\ r.stage = "full"
    BY <1>0 DEF RequestRecord, Kinds, Doors
  <2> HIDE DEF r
  <2>5. QED BY <1>1, <2>1, <2>2, <2>3, <2>4, VouchKeeps DEF SetupAdmin
<1>2. CASE PasskeyLoginFinish(q)
  <2>1. PICK u \in Users :
          /\ vouched' = vouched \cup {[user |-> u, by |-> q]}
          /\ Keep(q, [NoReq EXCEPT !.kind = "passkey", !.user = u])
    BY <1>2 DEF PasskeyLoginFinish, IInv, Typed, TypeOK
  <2>2. UNCHANGED <<step, status, secret, secretSeq, last>>
        /\ status \in [Users -> {"none", "active", "locked"}]
    BY <1>2 DEF PasskeyLoginFinish, accounts, IInv, Typed, TypeOK
  <2> DEFINE r == [n EXCEPT !.kind = "passkey", !.user = u]
  <2>3. req' = [req EXCEPT ![q] = r] /\ pc' = [pc EXCEPT ![q] = "load"]
    BY <1>2, <2>1 DEF PasskeyLoginFinish, Keep, Goto
  <2> HIDE DEF n
  <2>4. r \in RequestRecord /\ r.user = u /\ r.kind = "passkey" /\ r.secret = 0
    BY <1>0 DEF RequestRecord, Kinds, Doors
  <2> HIDE DEF r
  <2>5. QED BY <1>2, <2>1, <2>2, <2>3, <2>4, VouchKeeps DEF PasskeyLoginFinish
<1>3. QED BY <1>1, <1>2

\* Whose a passkey is decides nothing for a request that has its session already.
LEMMA PasskeyRowKeeps ==
  ASSUME IInv, NEW q \in Reqs, AddPasskey(q) \/ DeletePasskey(q)
  PROVE  IInv'
<1>1. /\ pc[q] # "idle" /\ pc' = [pc EXCEPT ![q] = "done"]
      /\ UNCHANGED <<step, status, secret, secretSeq, last, codes, codeSeq, codesMade, sessions,
                     sessionSeq, destroying, req, admitted, vouched, started>>
  BY DEF AddPasskey, DeletePasskey, Goto, accounts, codeVars, sessionVars, history
<1>2. owner' \in [Keys -> Users \cup {None}]
  <2>1. owner \in [Keys -> Users \cup {None}] /\ User(q) \in Users
    BY <1>1 DEF IInv, Typed, TypeOK, User
  <2>2. QED BY <2>1 DEF AddPasskey, DeletePasskey
<1>3. "done" \in PCs \ {"idle"}
  BY DEF PCs
<1>4. /\ pc' \in [Reqs -> PCs]
      /\ \A x \in Reqs : pc'[x] = (IF x = q THEN "done" ELSE pc[x]) /\ req'[x] = req[x]
      /\ \A x \in Reqs : /\ (pc'[x] = "idle") <=> (req'[x].kind = "none")
                         /\ pc'[x] # "idle" => req'[x].user \in Users
                         /\ pc'[x] = "insert" => req'[x].left >= 1
                         /\ pc'[x] = "start" => req'[x].stage # "none"
                         /\ pc'[x] = "spend" =>
                              req'[x].code = req'[x].value /\ req'[x].code \in 1..codeSeq
                         /\ req'[x].secret <= secretSeq
  BY <1>1, <1>3, GoesOn
<1>5. Typed'
  <2>1. TypeOK'
    BY <1>1, <1>2, <1>4 DEF IInv, Typed, TypeOK
  <2>2. QED BY <1>4, <2>1 DEF Typed
<1>6. Burned' /\ Spent'
  BY <1>1, <1>4 DEF IInv, Burned, Spent, CodeAdmitsOnce, BackupCodeAdmitsOnce
<1>7. Earned'
  <2>1. RequireSecondFactor => Entitled(q)'
    BY <1>1, <1>4, EntitledStill
  <2>2. QED BY <1>1, <1>4, <2>1, EarnedStays DEF IInv
<1>8. QED BY <1>5, <1>6, <1>7 DEF IInv

-----------------------------------------------------------------------------
(* Sessions that end, accounts that come or are locked, and the clock.      *)

LEMMA DropKeeps ==
  ASSUME IInv, NEW q \in Reqs, DropPending(q)
  PROVE  IInv'
<1>1. /\ pc[q] = "drop" /\ pc[q] # "idle" /\ pc' = [pc EXCEPT ![q] = "full"]
      /\ \A s \in sessions' : s \in sessions
      /\ UNCHANGED <<step, status, secret, secretSeq, last, codes, codeSeq, codesMade,
                     sessionSeq, owner, destroying, req, admitted, vouched, started>>
  BY DEF DropPending, Goto, accounts, codeVars, history
<1>2. "full" \in PCs \ {"idle"}
  BY DEF PCs
<1>3. /\ pc' \in [Reqs -> PCs]
      /\ \A x \in Reqs : pc'[x] = (IF x = q THEN "full" ELSE pc[x]) /\ req'[x] = req[x]
      /\ \A x \in Reqs : /\ (pc'[x] = "idle") <=> (req'[x].kind = "none")
                         /\ pc'[x] # "idle" => req'[x].user \in Users
                         /\ pc'[x] = "insert" => req'[x].left >= 1
                         /\ pc'[x] = "start" => req'[x].stage # "none"
                         /\ pc'[x] = "spend" =>
                              req'[x].code = req'[x].value /\ req'[x].code \in 1..codeSeq
                         /\ req'[x].secret <= secretSeq
  BY <1>1, <1>2, GoesOn
<1>4. Typed'
  <2>1. TypeOK'
    BY <1>1, <1>3 DEF IInv, Typed, TypeOK
  <2>2. QED BY <1>3, <2>1 DEF Typed
<1>5. Burned' /\ Spent'
  BY <1>1, <1>3 DEF IInv, Burned, Spent, CodeAdmitsOnce, BackupCodeAdmitsOnce
<1>6. Earned'
  <2>1. RequireSecondFactor => Entitled(q)'
    BY <1>1, <1>3 DEF IInv, Earned, Entitled, Backed, Proved, User
  <2>2. QED BY <1>1, <1>3, <2>1, EarnedStays DEF IInv
<1>7. QED BY <1>4, <1>5, <1>6 DEF IInv

\* What happens to the sessions, the accounts' status and the clock while no
\* request takes a step.
LEMMA WorldKeeps ==
  ASSUME IInv, step' \in Nat, status' \in [Users -> {"none", "active", "locked"}],
         destroying' \subseteq Users, \A s \in sessions' : s \in sessions,
         UNCHANGED <<secret, secretSeq, last, codeVars, sessionSeq, owner, requests, history>>
  PROVE  IInv'
<1>1. UNCHANGED <<secret, secretSeq, last, codes, codeSeq, codesMade, sessionSeq, owner, pc,
                  req, admitted, vouched, started>>
  BY DEF codeVars, requests, history
<1>2. Typed'
  BY <1>1 DEF IInv, Typed, TypeOK
<1>3. Burned' /\ Spent'
  BY <1>1 DEF IInv, Burned, Spent, CodeAdmitsOnce, BackupCodeAdmitsOnce
<1>4. Earned'
  BY <1>1 DEF IInv, Earned, Entitled, Backed, Proved, User
<1>5. QED BY <1>2, <1>3, <1>4 DEF IInv

LEMMA OutsideKeeps ==
  ASSUME IInv,
         \/ \E u \in Users : CreateUser(u) \/ DestroyAllForUser(u)
                            \/ \E s \in {"active", "locked"} : SetStatus(u, s)
         \/ SessionEnds \/ NextStep
         \/ UNCHANGED vars
  PROVE  IInv'
<1>1. /\ step \in Nat /\ status \in [Users -> {"none", "active", "locked"}]
      /\ destroying \subseteq Users
  BY DEF IInv, Typed, TypeOK
<1>2. ASSUME NEW u \in Users, DestroyAllForUser(u) PROVE IInv'
  BY <1>1, <1>2, WorldKeeps DEF DestroyAllForUser, accounts
<1>3. ASSUME NEW u \in Users, NEW s \in {"active", "locked"}, SetStatus(u, s) PROVE IInv'
  <2>1. status' \in [Users -> {"none", "active", "locked"}] /\ destroying' \subseteq Users
    BY <1>1, <1>3 DEF SetStatus
  <2>2. QED BY <1>1, <1>3, <2>1, WorldKeeps DEF SetStatus, sessionVars
<1>4. CASE SessionEnds
  BY <1>1, <1>4, WorldKeeps DEF SessionEnds, accounts
<1>5. CASE NextStep
  <2>1. step' \in Nat
    BY <1>1, <1>5 DEF NextStep
  <2>2. QED BY <1>1, <1>5, <2>1, WorldKeeps DEF NextStep, accounts, sessionVars
<1>6. CASE UNCHANGED vars
  BY <1>1, <1>6, WorldKeeps DEF vars, accounts, sessionVars
<1>7. ASSUME NEW u \in Users, CreateUser(u) PROVE IInv'
  <2>1. status' \in [Users -> {"none", "active", "locked"}]
    BY <1>1, <1>7 DEF CreateUser
  <2>2. QED BY <1>1, <1>7, <2>1, WorldKeeps DEF CreateUser, sessionVars
<1>8. QED BY <1>2, <1>3, <1>4, <1>5, <1>6, <1>7

-----------------------------------------------------------------------------
(* The invariant holds.                                                     *)

LEMMA InitIInv ==
  ASSUME Init
  PROVE  IInv
<1>0. PICK w \in Worlds :
        /\ status = [u \in Users |-> IF u \in w.accounts THEN "active" ELSE "none"]
        /\ secret = [u \in Users |-> IF u \in w.enrolled THEN 1 ELSE 0]
        /\ owner = w.owner
        /\ codeSeq = Cardinality(w.enrolled) /\ codesMade = codeSeq
        /\ \E made \in [w.enrolled -> 1..codeSeq] :
             /\ \A u, v \in w.enrolled : made[u] = made[v] => u = v
             /\ codes = IF BackupCodes = 0 THEN {}
                        ELSE {Code(made[u], u, made[u]) : u \in w.enrolled}
  BY DEF Init
<1> DEFINE n == Cardinality(w.enrolled)
<1>1. n \in Nat
  BY SignInAssumption, FS_CardinalityType
<1>2. PICK made \in [w.enrolled -> 1..n] :
        /\ \A u, v \in w.enrolled : made[u] = made[v] => u = v
        /\ codes = IF BackupCodes = 0 THEN {} ELSE {Code(made[u], u, made[u]) : u \in w.enrolled}
  BY <1>0
<1>3. /\ step = FirstStep /\ status \in [Users -> {"none", "active", "locked"}]
      /\ owner \in [Keys -> Users \cup {None}]
      /\ secret \in [Users -> Nat] /\ \A u \in Users : secret[u] <= 1
      /\ secretSeq = 1 /\ last = [u \in Users |-> 0]
      /\ codeSeq = n /\ codesMade = n /\ sessions = {} /\ sessionSeq = 0 /\ destroying = {}
      /\ pc = [q \in Reqs |-> "idle"] /\ req = [q \in Reqs |-> NoReq]
      /\ admitted = {} /\ vouched = {} /\ started = {}
  BY <1>0, SignInAssumption DEF Init
<1> HIDE DEF n
<1>4. \A c \in codes : /\ c \in [id: Nat, user: Users, value: Nat, used: BOOLEAN]
                      /\ c.id = c.value /\ c.id \in 1..n
  <2> SUFFICES ASSUME NEW c \in codes
               PROVE  /\ c \in [id: Nat, user: Users, value: Nat, used: BOOLEAN]
                      /\ c.id = c.value /\ c.id \in 1..n
    OBVIOUS
  <2>1. PICK u \in w.enrolled : c = Code(made[u], u, made[u])
    BY <1>2
  <2>2. made[u] \in 1..n /\ made[u] \in Nat /\ u \in Users
    BY <1>1, <1>2, SignInAssumption
  <2>3. QED BY <2>1, <2>2 DEF Code
<1>5. \A c, d \in codes : c.id = d.id => c = d
  <2> SUFFICES ASSUME NEW c \in codes, NEW d \in codes, c.id = d.id PROVE c = d
    OBVIOUS
  <2>1. PICK u \in w.enrolled : c = Code(made[u], u, made[u])
    BY <1>2
  <2>2. PICK v \in w.enrolled : d = Code(made[v], v, made[v])
    BY <1>2
  <2>3. made[u] = made[v]
    BY <2>1, <2>2 DEF Code
  <2>4. QED BY <1>2, <2>1, <2>2, <2>3
<1>6. NoReq \in RequestRecord /\ NoReq.kind = "none" /\ NoReq.secret = 0
  BY DEF NoReq, RequestRecord, Kinds
<1>7. \A q \in Reqs : pc[q] = "idle" /\ req[q] = NoReq
  BY <1>3
<1>8. TypeOK
  BY <1>1, <1>3, <1>4, <1>6, <1>7, SignInAssumption DEF TypeOK, PCs
<1>9. Typed
  BY <1>7, <1>8 DEF Typed
<1>10. Burned
  BY <1>3, <1>6, <1>7 DEF Burned, CodeAdmitsOnce
<1>11. Spent
  BY <1>3, <1>4, <1>5, <1>7 DEF Spent, BackupCodeAdmitsOnce
<1>12. Earned
  BY <1>3, <1>6, <1>7 DEF Earned, Entitled, Changes
<1>13. QED BY <1>9, <1>10, <1>11, <1>12 DEF IInv

LEMMA RequestKeeps ==
  ASSUME IInv, NEW q \in Reqs, Request(q)
  PROVE  IInv'
<1>1. CASE Password(q) \/ RDPLogin(q) \/ EnrolCommand(q) \/ RemoveCommand(q)
  BY <1>1, FreshReads DEF Password, RDPLogin, EnrolCommand, RemoveCommand, Accounts, Keep, Goto
<1>2. CASE CountBackupCodes(q) \/ StartSession(q) \/ Arrive(q) \/ LoadUser(q)
  BY <1>2, CountKeeps, StartsKeep, ArriveKeeps, LoadUserKeeps
<1>3. CASE VerifyTOTP(q) \/ OpenBackupCodes(q) \/ ClaimTOTPCounter(q) \/ ClaimBackupCode(q)
  BY <1>3, VerifyKeeps, OpenCodesKeeps, ClaimCounterKeeps, ClaimBackupKeeps
<1>4. CASE DropPending(q) \/ StartFull(q) \/ Ends(q)
  BY <1>4, DropKeeps, StartsKeep, EndsKeeps
<1>5. CASE SetTOTPSecret(q) \/ ClearBackupCodes(q) \/ StoreBackupCode(q)
  BY <1>5, SecretKeeps, ClearKeeps, StoreKeeps
<1>6. CASE SetupAdmin(q) \/ PasskeyLoginFinish(q) \/ AddPasskey(q) \/ DeletePasskey(q)
  BY <1>6, DoorsKeep, PasskeyRowKeeps
<1>7. QED BY <1>1, <1>2, <1>3, <1>4, <1>5, <1>6 DEF Request

\* The invariant the theorems below rest on.
THEOREM Invariance == Spec => []IInv
<1>1. Init => IInv
  BY InitIInv
<1>2. IInv /\ [Next]_vars => IInv'
  BY RequestKeeps, OutsideKeeps DEF Next
<1>3. QED BY <1>1, <1>2, PTL DEF Spec

-----------------------------------------------------------------------------
(* What the runs check, for every gateway.                                  *)

\* Rows, sessions and what a request has read of them are of their types.
THEOREM TypeCorrect == Spec => []TypeOK
<1>1. IInv => TypeOK
  BY DEF IInv, Typed
<1>2. QED BY <1>1, Invariance, PTL

\* ClaimTOTPCounter picks one of the requests that verified a code.
THEOREM OneLoginPerCode == Spec => []CodeAdmitsOnce
<1>1. IInv => CodeAdmitsOnce
  BY DEF IInv, Burned
<1>2. QED BY <1>1, Invariance, PTL

\* ClaimBackupCode picks one of the requests that found a code unused.
THEOREM OneLoginPerBackupCode == Spec => []BackupCodeAdmitsOnce
<1>1. IInv => BackupCodeAdmitsOnce
  BY DEF IInv, Spent
<1>2. QED BY <1>1, Invariance, PTL

\* Behind authed there is always a login that spent one of the account's secrets or
\* presented a passkey of it, or the wizard that created the first account: Start is
\* called with StageFull nowhere else while a second factor is required.
THEOREM EnrolmentNeedsProof == Spec => []FactorsNeedProof
<1>1. IInv => FactorsNeedProof
  BY DEF IInv, Earned, Entitled, Backed, FactorsNeedProof
<1>2. QED BY <1>1, Invariance, PTL

\* A row's number is never given to another code, so a claim finds the code that
\* was typed or nothing, whatever regenerateBackupCodes did in between.
THEOREM ReplacedIsDead == Spec => ReplacedCodesAdmitNobody
<1>1. ASSUME IInv, [Next]_vars, NEW a \in admitted' \ admitted, a.proof.value # 0
      PROVE  \E c \in codes : c.value = a.proof.value
  <2>0. admitted' # admitted
    BY <1>1
  <2>1. PICK q \in Reqs : ClaimTOTPCounter(q) \/ ClaimBackupCode(q)
    <3>1. ASSUME NEW q \in Reqs, Request(q), ~ClaimTOTPCounter(q), ~ClaimBackupCode(q)
          PROVE  UNCHANGED admitted
      <4>1. CASE Password(q) \/ CountBackupCodes(q) \/ StartSession(q) \/ Arrive(q) \/ LoadUser(q)
        BY <4>1 DEF Password, CountBackupCodes, StartSession, Arrive, Lookup, LoadUser, history
      <4>2. CASE RDPLogin(q) \/ VerifyTOTP(q) \/ OpenBackupCodes(q) \/ DropPending(q) \/ StartFull(q)
        BY <4>2 DEF RDPLogin, VerifyTOTP, OpenBackupCodes, DropPending, StartFull, history
      <4>3. CASE EnrolCommand(q) \/ SetTOTPSecret(q) \/ ClearBackupCodes(q) \/ StoreBackupCode(q)
        BY <4>3 DEF EnrolCommand, SetTOTPSecret, ClearBackupCodes, StoreBackupCode, history
      <4>4. CASE SetupAdmin(q) \/ PasskeyLoginFinish(q) \/ AddPasskey(q)
        BY <4>4 DEF SetupAdmin, PasskeyLoginFinish, AddPasskey, history
      <4>5. CASE RemoveCommand(q) \/ DeletePasskey(q) \/ Ends(q)
        BY <4>5 DEF RemoveCommand, DeletePasskey, Ends, history
      <4>6. QED BY <3>1, <4>1, <4>2, <4>3, <4>4, <4>5 DEF Request
    <3>2. ASSUME NEW u \in Users, CreateUser(u) \/ DestroyAllForUser(u)
                                  \/ \E s \in {"active", "locked"} : SetStatus(u, s)
          PROVE  UNCHANGED admitted
      BY <3>2 DEF CreateUser, DestroyAllForUser, SetStatus, history
    <3>3. SessionEnds \/ NextStep \/ UNCHANGED vars => UNCHANGED admitted
      BY DEF SessionEnds, NextStep, vars, history
    <3>4. QED BY <1>1, <2>0, <3>1, <3>2, <3>3 DEF Next
  <2>2. CASE ClaimTOTPCounter(q)
    <3>1. a.proof = TOTPProof(User(q), req[q].secret, req[q].at)
      BY <1>1, <2>2 DEF ClaimTOTPCounter, Passed, Refused, history
    <3>2. QED BY <1>1, <3>1 DEF TOTPProof
  <2>3. CASE ClaimBackupCode(q)
    <3>1. /\ pc[q] = "spend" /\ \E c \in codes : c.id = req[q].code
          /\ a.proof = CodeProof(User(q), req[q].value)
      BY <1>1, <2>3 DEF ClaimBackupCode, Passed, Refused, history
    <3>2. a.proof.value = req[q].value
      BY <3>1 DEF CodeProof
    <3>3. QED BY <1>1, <3>1, <3>2 DEF IInv, Spent
  <2>4. QED BY <2>1, <2>2, <2>3
<1>2. IInv /\ [Next]_vars =>
        [\A a \in admitted' \ admitted :
           a.proof.value # 0 => \E c \in codes : c.value = a.proof.value]_vars
  BY <1>1
<1>3. QED BY <1>2, Invariance, PTL DEF Spec, ReplacedCodesAdmitNobody

=============================================================================
