------------------------------- MODULE SignIn -------------------------------
(***************************************************************************)
(* Signing in: the sessions of internal/auth and the one-time secrets of   *)
(* internal/mfa and internal/store that both doors spend, the portal       *)
(* (handleLogin, handleMFA, enrolment) and the RDP login                   *)
(* (Engine.checkSecondFactor), together with what else starts a session    *)
(* or changes a factor: the setup wizard, passkeys, the command line that  *)
(* adds accounts and enrols anew, and the administrator who locks.         *)
(*                                                                         *)
(* A request is a process; a step of it is one SQL statement, and req      *)
(* holds what it has read.  A session token is shown to its owner only and *)
(* bound to one address, so a request arrives with a session of its own    *)
(* user; wrong passwords and codes are the requests that never arrive.     *)
(* Which response a passkey login is accepted on is decided in Credentials *)
(* and who deletes an account in Gateway.                                  *)
(***************************************************************************)
EXTENDS Integers, FiniteSets

CONSTANTS
  Users, None,          \* names, with or without an account behind them
  Keys,                 \* passkeys, by credential id
  Worlds,               \* [accounts, enrolled, owner] to start from: those enrolled
                        \* have an authenticator and codes, and whose passkeys are
  Reqs,                 \* requests of the portal, logins over RDP, enrol commands
  RequireSecondFactor,  \* auth.require_second_factor
  BackupCodes,          \* auth.backup_codes
  Skew,                 \* auth.totp_skew
  FirstStep, LastStep,  \* bound: the TOTP steps the clock passes through
  MaxEnrols             \* bound: how many secrets are ever issued

ASSUME SignInAssumption ==
  /\ None \notin Users
  /\ \A w \in Worlds :
       /\ w.accounts \subseteq Users /\ w.enrolled \subseteq w.accounts
       /\ IsFiniteSet(w.enrolled) /\ w.owner \in [Keys -> w.accounts \cup {None}]
  /\ RequireSecondFactor \in BOOLEAN
  /\ BackupCodes \in Nat /\ Skew \in Nat /\ MaxEnrols \in Nat
  /\ FirstStep \in Nat /\ LastStep \in Nat /\ FirstStep > Skew

VARIABLES
  step,        \* time / Period
  status,      \* users.status, "none" without a row
  secret,      \* users.totp_secret_enc: 0 for none, else which enrolment made it
  secretSeq,   \* enrolments so far
  last,        \* users.totp_last_counter
  codes,       \* backup_codes; value is what the user typed down
  codeSeq,     \* the last id handed out
  codesMade,   \* the last code value made up
  sessions,    \* sessions, named by their token
  sessionSeq,
  owner,       \* webauthn_creds: whose passkey it is
  destroying,  \* accounts whose DestroyAllForUser is still to run
  pc, req,
  (* History, read by no action: *)
  admitted,    \* which one-time secret let which request in
  vouched,     \* which request presented a passkey of an account, or created it
               \* as the first
  started      \* which request started which session

accounts == <<status, secret, secretSeq, last>>
codeVars == <<codes, codeSeq, codesMade>>
sessionVars == <<sessions, sessionSeq>>
requests == <<pc, req>>
history == <<admitted, vouched, started>>
vars == <<step, accounts, codeVars, sessionVars, owner, destroying, requests, history>>

PCs == {"idle", "count", "start", "load", "factor", "claim", "spend", "drop", "full",
        "secret", "clear", "insert", "enrolled", "register", "remove", "done"}
Doors == {"password", "mfa", "rdp", "setup", "passkey", "cli"}
Changes == {"enrol", "confirm", "register", "remove"}   \* of factors, behind authed
Kinds == {"none"} \cup Doors \cup Changes
RequestRecord == [kind: Kinds, user: Users \cup {None}, token: Nat,
                  stage: {"none", "pending", "full"}, secret: Nat, last: Nat,
                  at: Nat, code: Nat, value: Nat, left: Nat]
NoReq == [kind |-> "none", user |-> None, token |-> 0, stage |-> "none",
          secret |-> 0, last |-> 0, at |-> 0, code |-> 0, value |-> 0, left |-> 0]

IsActive(u) == status[u] = "active"

\* One backup code of user u, in a row of its own.
Code(i, u, v) == [id |-> i, user |-> u, value |-> v, used |-> FALSE]

Session(i, u, s) == [id |-> i, user |-> u, stage |-> s]

TOTPProof(u, gen, at) == [user |-> u, secret |-> gen, at |-> at, value |-> 0]
CodeProof(u, v) == [user |-> u, secret |-> 0, at |-> 0, value |-> v]

Init ==
  /\ step = FirstStep
  /\ secretSeq = 1
  /\ last = [u \in Users |-> 0]
  /\ \E w \in Worlds :
       /\ status = [u \in Users |-> IF u \in w.accounts THEN "active" ELSE "none"]
       /\ secret = [u \in Users |-> IF u \in w.enrolled THEN 1 ELSE 0]
       /\ owner = w.owner
       /\ codeSeq = Cardinality(w.enrolled) /\ codesMade = codeSeq
       /\ \E made \in [w.enrolled -> 1..codeSeq] :
            /\ \A u, v \in w.enrolled : made[u] = made[v] => u = v
            /\ codes = IF BackupCodes = 0 THEN {}
                       ELSE {Code(made[u], u, made[u]) : u \in w.enrolled}
  /\ sessions = {} /\ sessionSeq = 0
  /\ destroying = {}
  /\ pc = [q \in Reqs |-> "idle"]
  /\ req = [q \in Reqs |-> NoReq]
  /\ admitted = {} /\ vouched = {} /\ started = {}

Goto(q, l) == pc' = [pc EXCEPT ![q] = l]
Keep(q, r) == req' = [req EXCEPT ![q] = r]
User(q) == req[q].user
Accounts == {u \in Users : status[u] # "none"}
OpenCodes(u) == {c \in codes : c.user = u /\ ~c.used}

-----------------------------------------------------------------------------
(* Sessions (internal/auth). *)

\* Mutant: the stage is not part of the hash.
FoundAnyStage(s, stage) == s.stage \in {"pending", "full"}

\* Sessions are matched by the hash of token and stage.
Found(s, stage) == s.stage = stage

Start(q, stage) ==
  /\ sessionSeq' = sessionSeq + 1
  /\ sessions' = sessions \cup {Session(sessionSeq + 1, User(q), stage)}
  /\ started' = started \cup {[token |-> sessionSeq + 1, by |-> q]}

\* Lookup for handleMFA and for authed, which then re-reads the account.
Lookup(q, kind, stage) ==
  /\ pc[q] = "idle"
  /\ \E s \in sessions :
       /\ Found(s, stage)
       /\ Keep(q, [NoReq EXCEPT !.kind = kind, !.user = s.user, !.token = s.id])
  /\ Goto(q, "load")
  /\ UNCHANGED <<step, accounts, codeVars, sessionVars, owner, destroying, history>>

Arrive(q) ==
  \/ Lookup(q, "mfa", "pending")
  \/ \E kind \in Changes : Lookup(q, kind, "full")

\* What UserByID and UserByName read of the account.
Row(u) == [NoReq EXCEPT !.user = u, !.secret = secret[u], !.last = last[u]]

\* UserByID, and the line the handler of a kind goes on with.
Then(kind) == CASE kind = "enrol" -> "secret"
                [] kind = "register" -> "register"
                [] kind = "remove" -> "remove"
                [] kind = "passkey" -> "full"
                [] OTHER -> "factor"

LoadUser(q) ==
  /\ pc[q] = "load"
  /\ IF IsActive(User(q))
       THEN /\ Goto(q, Then(req[q].kind))
            /\ Keep(q, [Row(User(q)) EXCEPT !.kind = req[q].kind, !.token = req[q].token])
       ELSE Goto(q, "done") /\ UNCHANGED req
  /\ UNCHANGED <<step, accounts, codeVars, sessionVars, owner, destroying, history>>

\* Logout, expiry, idleness.
SessionEnds ==
  /\ \E s \in sessions : sessions' = sessions \ {s}
  /\ UNCHANGED <<step, accounts, codeVars, sessionSeq, owner, destroying, requests, history>>

-----------------------------------------------------------------------------
(* The password step (CheckPassword, handleLogin). *)

Password(q) ==
  /\ pc[q] = "idle"
  /\ \E u \in Users :
       IsActive(u) /\ Keep(q, [Row(u) EXCEPT !.kind = "password"])
  /\ Goto(q, "count")
  /\ UNCHANGED <<step, accounts, codeVars, sessionVars, owner, destroying, history>>

\* Nothing enrolled: refused, or let through on the password alone.
CountBackupCodes(q) ==
  /\ pc[q] = "count"
  /\ IF req[q].secret # 0 \/ OpenCodes(User(q)) # {}
       THEN Goto(q, "start") /\ Keep(q, [req[q] EXCEPT !.stage = "pending"])
       ELSE IF RequireSecondFactor
         THEN Goto(q, "done") /\ UNCHANGED req
         ELSE Goto(q, "start") /\ Keep(q, [req[q] EXCEPT !.stage = "full"])
  /\ UNCHANGED <<step, accounts, codeVars, sessionVars, owner, destroying, history>>

StartSession(q) ==
  /\ pc[q] = "start"
  /\ Start(q, req[q].stage)
  /\ Goto(q, "done")
  /\ UNCHANGED <<step, accounts, codeVars, owner, destroying, req, admitted, vouched>>

-----------------------------------------------------------------------------
(* The second factor (verifySecondFactor, checkSecondFactor). *)

\* An account that owes no factor is let through here and touches none of this.
RDPLogin(q) ==
  /\ pc[q] = "idle"
  /\ \E u \in Users :
       IsActive(u) /\ Keep(q, [Row(u) EXCEPT !.kind = "rdp"])
  /\ Goto(q, "factor")
  /\ UNCHANGED <<step, accounts, codeVars, sessionVars, owner, destroying, history>>

\* Verify, against the row that was read: a step of the window, not yet burned.
VerifyTOTP(q) ==
  /\ pc[q] = "factor" /\ req[q].secret # 0
  /\ \E s \in (step - Skew)..(step + Skew) :
       s > req[q].last /\ Keep(q, [req[q] EXCEPT !.at = s])
  /\ Goto(q, "claim")
  /\ UNCHANGED <<step, accounts, codeVars, sessionVars, owner, destroying, history>>

\* OpenBackupCodes, and the one whose hash fits what was typed.
OpenBackupCodes(q) ==
  /\ pc[q] = "factor"
  /\ \E c \in OpenCodes(User(q)) :
       Keep(q, [req[q] EXCEPT !.code = c.id, !.value = c.value])
  /\ Goto(q, "spend")
  /\ UNCHANGED <<step, accounts, codeVars, sessionVars, owner, destroying, history>>

\* Confirming an enrolment lets nobody in; a login of either kind does.
Passed(q, proof) ==
  /\ Goto(q, IF req[q].kind = "mfa" THEN "drop" ELSE "done")
  /\ admitted' = IF req[q].kind = "confirm" THEN admitted
                 ELSE admitted \cup {[proof |-> proof, by |-> q]}
  /\ UNCHANGED <<vouched, started>>

Refused(q) == Goto(q, "done") /\ UNCHANGED history

\* Mutant: the counter is written without looking at it again.
BurnAlways(q) ==
  /\ pc[q] = "claim"
  /\ last' = [last EXCEPT ![User(q)] = req[q].at]
  /\ Passed(q, TOTPProof(User(q), req[q].secret, req[q].at))
  /\ UNCHANGED <<step, status, secret, secretSeq, codeVars, sessionVars, owner, destroying, req>>

\* WHERE id = ? AND totp_last_counter < ?
ClaimTOTPCounter(q) ==
  /\ pc[q] = "claim"
  /\ IF last[User(q)] < req[q].at
       THEN /\ last' = [last EXCEPT ![User(q)] = req[q].at]
            /\ Passed(q, TOTPProof(User(q), req[q].secret, req[q].at))
       ELSE UNCHANGED last /\ Refused(q)
  /\ UNCHANGED <<step, status, secret, secretSeq, codeVars, sessionVars, owner, destroying, req>>

\* Mutant: the row only has to be there.
SpendAgain(q) ==
  /\ pc[q] = "spend"
  /\ IF \E c \in codes : c.id = req[q].code
       THEN /\ codes' = {IF c.id = req[q].code THEN [c EXCEPT !.used = TRUE] ELSE c
                           : c \in codes}
            /\ Passed(q, CodeProof(User(q), req[q].value))
       ELSE UNCHANGED codes /\ Refused(q)
  /\ UNCHANGED <<step, accounts, codeSeq, codesMade, sessionVars, owner, destroying, req>>

\* WHERE id = ? AND used_at IS NULL
ClaimBackupCode(q) ==
  /\ pc[q] = "spend"
  /\ IF \E c \in codes : c.id = req[q].code /\ ~c.used
       THEN /\ codes' = {IF c.id = req[q].code THEN [c EXCEPT !.used = TRUE] ELSE c
                           : c \in codes}
            /\ Passed(q, CodeProof(User(q), req[q].value))
       ELSE UNCHANGED codes /\ Refused(q)
  /\ UNCHANGED <<step, accounts, codeSeq, codesMade, sessionVars, owner, destroying, req>>

\* Promote: first the pending session goes, whether it was still there or not,
DropPending(q) ==
  /\ pc[q] = "drop"
  /\ sessions' = {s \in sessions : s.id # req[q].token}
  /\ Goto(q, "full")
  /\ UNCHANGED <<step, accounts, codeVars, sessionSeq, owner, destroying, req, history>>

\* then the full one is started.
StartFull(q) ==
  /\ pc[q] = "full"
  /\ Start(q, "full")
  /\ Goto(q, "done")
  /\ UNCHANGED <<step, accounts, codeVars, owner, destroying, req, admitted, vouched>>

-----------------------------------------------------------------------------
(* Enrolment (handleEnrollStart, enrollUser). *)

EnrolCommand(q) ==
  /\ pc[q] = "idle"
  /\ \E u \in Accounts : Keep(q, [Row(u) EXCEPT !.kind = "cli"])
  /\ Goto(q, "secret")
  /\ UNCHANGED <<step, accounts, codeVars, sessionVars, owner, destroying, history>>

SetTOTPSecret(q) ==
  /\ pc[q] = "secret" /\ secretSeq < MaxEnrols
  /\ secretSeq' = secretSeq + 1
  /\ secret' = [secret EXCEPT ![User(q)] = secretSeq + 1]
  /\ last' = [last EXCEPT ![User(q)] = 0]
  /\ Goto(q, "clear")
  /\ UNCHANGED <<step, status, codeVars, sessionVars, owner, destroying, req, history>>

ClearBackupCodes(q) ==
  /\ pc[q] = "clear"
  /\ codes' = {c \in codes : c.user # User(q)}
  /\ IF BackupCodes = 0 THEN Goto(q, "enrolled") ELSE Goto(q, "insert")
  /\ Keep(q, [req[q] EXCEPT !.left = BackupCodes])
  /\ UNCHANGED <<step, accounts, codeSeq, codesMade, sessionVars, owner, destroying, history>>

\* Mutant: without AUTOINCREMENT, the highest id in use plus one.
NextFreeCodeId ==
  CHOOSE n \in 1..(codeSeq + 1) :
    /\ \A c \in codes : c.id < n
    /\ n = 1 \/ \E c \in codes : c.id = n - 1

\* AUTOINCREMENT: an id is never used twice, not even after a deletion.
NextCodeId == codeSeq + 1

StoreBackupCode(q) ==
  /\ pc[q] = "insert"
  /\ codes' = codes \cup {Code(NextCodeId, User(q), codesMade + 1)}
  /\ codeSeq' = codeSeq + 1 /\ codesMade' = codesMade + 1
  /\ Keep(q, [req[q] EXCEPT !.left = @ - 1])
  /\ Goto(q, IF req[q].left = 1 THEN "enrolled" ELSE "insert")
  /\ UNCHANGED <<step, accounts, sessionVars, owner, destroying, history>>

-----------------------------------------------------------------------------
(* Sessions that owe no code: the wizard, passkeys. *)

\* createFirstAdmin counts the accounts and inserts in one transaction; the
\* administrator is signed in at once.
SetupAdmin(q) ==
  /\ pc[q] = "idle" /\ Accounts = {}
  /\ \E u \in Users :
       /\ status' = [status EXCEPT ![u] = "active"]
       /\ vouched' = vouched \cup {[user |-> u, by |-> q]}
       /\ Keep(q, [NoReq EXCEPT !.kind = "setup", !.user = u, !.stage = "full"])
  /\ Goto(q, "start")
  /\ UNCHANGED <<step, secret, secretSeq, last, codeVars, sessionVars, owner, destroying,
                 admitted, started>>

\* PasskeyByCredentialID: the account is the one the key is registered for, and
\* it is read once more before the session is started.
PasskeyLoginFinish(q) ==
  /\ pc[q] = "idle"
  /\ \E k \in Keys :
       /\ owner[k] # None
       /\ vouched' = vouched \cup {[user |-> owner[k], by |-> q]}
       /\ Keep(q, [NoReq EXCEPT !.kind = "passkey", !.user = owner[k]])
  /\ Goto(q, "load")
  /\ UNCHANGED <<step, accounts, codeVars, sessionVars, owner, destroying, admitted, started>>

\* credential_id is UNIQUE.
AddPasskey(q) ==
  /\ pc[q] = "register"
  /\ \E k \in Keys : owner[k] = None /\ owner' = [owner EXCEPT ![k] = User(q)]
  /\ Goto(q, "done")
  /\ UNCHANGED <<step, accounts, codeVars, sessionVars, destroying, req, history>>

\* passkeyRemove, on the command line.
RemoveCommand(q) ==
  /\ pc[q] = "idle"
  /\ \E u \in Accounts : Keep(q, [Row(u) EXCEPT !.kind = "cli"])
  /\ Goto(q, "remove")
  /\ UNCHANGED <<step, accounts, codeVars, sessionVars, owner, destroying, history>>

\* The count before it refuses the last factor of an account, unless the count
\* fails; a refusal is Ends.
DeletePasskey(q) ==
  /\ pc[q] = "remove"
  /\ \E k \in Keys : owner[k] = User(q) /\ owner' = [owner EXCEPT ![k] = None]
  /\ Goto(q, "done")
  /\ UNCHANGED <<step, accounts, codeVars, sessionVars, destroying, req, history>>

-----------------------------------------------------------------------------

\* A refusal, a statement that fails, a client that gives up, a stop of the
\* service: the request ends where it is.
Ends(q) ==
  /\ pc[q] \notin {"idle", "enrolled", "done"}
  /\ Goto(q, "done")
  /\ UNCHANGED <<step, accounts, codeVars, sessionVars, owner, destroying, req, history>>

\* `user add`, or an administrator: without any factor.
CreateUser(u) ==
  /\ u \notin Accounts
  /\ status' = [status EXCEPT ![u] = "active"]
  /\ UNCHANGED <<step, secret, secretSeq, last, codeVars, sessionVars, owner, destroying,
                 requests, history>>

SetStatus(u, s) ==
  /\ u \in Accounts /\ s # status[u]
  /\ status' = [status EXCEPT ![u] = s]
  /\ destroying' = IF s = "active" THEN destroying ELSE destroying \cup {u}
  /\ UNCHANGED <<step, secret, secretSeq, last, codeVars, sessionVars, owner, requests, history>>

DestroyAllForUser(u) ==
  /\ u \in destroying
  /\ destroying' = destroying \ {u}
  /\ sessions' = {s \in sessions : s.user # u}
  /\ UNCHANGED <<step, accounts, codeVars, sessionSeq, owner, requests, history>>

NextStep ==
  /\ step < LastStep
  /\ step' = step + 1
  /\ UNCHANGED <<accounts, codeVars, sessionVars, owner, destroying, requests, history>>

Request(q) ==
  \/ Password(q) \/ CountBackupCodes(q) \/ StartSession(q)
  \/ Arrive(q) \/ LoadUser(q) \/ RDPLogin(q)
  \/ VerifyTOTP(q) \/ OpenBackupCodes(q) \/ ClaimTOTPCounter(q) \/ ClaimBackupCode(q)
  \/ DropPending(q) \/ StartFull(q)
  \/ EnrolCommand(q) \/ SetTOTPSecret(q) \/ ClearBackupCodes(q) \/ StoreBackupCode(q)
  \/ SetupAdmin(q) \/ PasskeyLoginFinish(q) \/ AddPasskey(q)
  \/ RemoveCommand(q) \/ DeletePasskey(q)
  \/ Ends(q)

Next ==
  \/ \E q \in Reqs : Request(q)
  \/ \E u \in Users : CreateUser(u) \/ DestroyAllForUser(u)
                     \/ \E s \in {"active", "locked"} : SetStatus(u, s)
  \/ SessionEnds
  \/ NextStep

Spec == Init /\ [][Next]_vars

-----------------------------------------------------------------------------
(* Properties. *)

\* The rows of users, backup_codes and sessions, and what a request has read.
TypeOK ==
  /\ step \in Nat
  /\ status \in [Users -> {"none", "active", "locked"}]
  /\ secret \in [Users -> Nat] /\ secretSeq \in Nat
  /\ last \in [Users -> Nat]
  /\ codes \subseteq [id: Nat, user: Users, value: Nat, used: BOOLEAN]
  /\ codeSeq \in Nat /\ codesMade \in Nat
  /\ sessions \subseteq [id: Nat, user: Users, stage: {"pending", "full"}]
  /\ sessionSeq \in Nat
  /\ owner \in [Keys -> Users \cup {None}]
  /\ destroying \subseteq Users
  /\ pc \in [Reqs -> PCs]
  /\ req \in [Reqs -> RequestRecord]
  /\ \A q \in Reqs : (pc[q] = "idle") <=> (req[q].kind = "none")
  /\ admitted \subseteq [proof: [user: Users, secret: Nat, at: Nat, value: Nat], by: Reqs]
  /\ vouched \subseteq [user: Users, by: Reqs]
  /\ started \subseteq [token: Nat, by: Reqs]

\* However many requests verify one code against the same row, at either door, it
\* lets at most one of them in, as long as the secret it was made from is the one
\* in force: ClaimTOTPCounter decides, not Verify.
CodeAdmitsOnce ==
  \A a, b \in admitted :
    a.proof = b.proof /\ a.proof.value = 0 /\ a.proof.secret = secret[a.proof.user]
      => a.by = b.by

\* A backup code lets in one request ever (ClaimBackupCode).
BackupCodeAdmitsOnce ==
  \A a, b \in admitted : a.proof = b.proof /\ a.proof.value # 0 => a.by = b.by

\* A backup code that an enrolment has replaced lets nobody in, not even a request
\* that read the old codes and spends its row only now (regenerateBackupCodes).
ReplacedCodesAdmitNobody ==
  [][\A a \in admitted' \ admitted :
       a.proof.value # 0 => \E c \in codes : c.value = a.proof.value]_vars

\* Who may change the factors of u: a request that spent one of u's one-time
\* secrets, presented a passkey registered for u, or created u as the first
\* administrator of the gateway.
Proved(q, u) ==
  \/ \E a \in admitted : a.by = q /\ a.proof.user = u
  \/ [user |-> u, by |-> q] \in vouched

\* Where a second factor is required throughout, an account's authenticator, codes
\* and passkeys are changed only under a session whose very login proved more than
\* the password: the token of the password step resolves to nothing behind authed
\* (stageHash), and no other door starts a full session.
FactorsNeedProof ==
  RequireSecondFactor =>
    \A q \in Reqs : req[q].kind \in Changes =>
      \E e \in started : e.token = req[q].token /\ Proved(e.by, User(q))

=============================================================================
