----------------------------- MODULE Credentials -----------------------------
(***************************************************************************)
(* What proves who somebody is, besides the codes of SignIn: the first     *)
(* administrator of the setup wizard (api/setup.go), passwords at both     *)
(* doors under the failure counters (auth.CheckPassword, the head of       *)
(* policy.Authenticate), and passkeys (api/webauthn.go, mfa/webauthn).     *)
(*                                                                         *)
(* A request is a process and a step of it one statement, one use of the   *)
(* challenge map or one use of the counters; what lies between is local.   *)
(* Whether a password, a code or a signature is right is the client's      *)
(* choice; SignIn decides which codes are.                                 *)
(***************************************************************************)
EXTENDS Lockout, Sequences, FiniteSets

CONSTANTS
  None,
  Users,                \* names, with or without an account behind them
  Addrs,                \* client addresses, as /32 prefixes
  Keys,                 \* authenticators, by credential id
  Reqs,
  RequireSecondFactor,  \* auth.require_second_factor
  Worlds,               \* [accounts, totp, passkeys, sessions, traffic] to start from
  MaxTime, MaxChallenges, MaxSessions, MaxCount, MaxRestarts  \* bounds

ASSUME CredentialsAssumption ==
  /\ None \notin Users \cup Addrs \cup Keys \cup Reqs
  /\ \A w \in Worlds :
       /\ w.accounts \subseteq Users /\ w.totp \subseteq w.accounts
       /\ w.passkeys \subseteq [id: Nat, user: Users, key: Keys, count: Nat]

VARIABLES
  accounts, active,     \* users, and those with status active
  totp,                 \* accounts with a TOTP secret, set before any backup code is
  passkeys,             \* webauthn_creds; credential_id is UNIQUE
  keySeq,
  sessions, sessionSeq,
  challenges,           \* challengeStore.items
  challengeSeq,
  boots,
  traffic,              \* bound: which requests and events this behaviour has
  pc, req,
  (* History, read by no action: *)
  created,              \* who created the accounts, in order: a request of the
                        \* wizard, or None for anything else
  proven,               \* requests that proved all their account asks for
  accepted,             \* which challenge a login was accepted on
  registered,           \* [user, key] ever registered under a session of user
  opened                \* [user, key] a passkey login opened a session for

userVars == <<accounts, active, totp>>
keyVars == <<passkeys, keySeq>>
sessionVars == <<sessions, sessionSeq>>
memory == <<challenges, challengeSeq, boots, traffic>>
counters == <<now, failures>>
history == <<created, proven, accepted, registered, opened>>
vars == <<counters, userVars, keyVars, sessionVars, memory, pc, req, history>>

Kinds == {"setup", "password", "rdp", "mfa", "register", "passkey", "delete", "cli"}
PCs == {"idle", "create", "address", "account", "verify", "owed", "second", "factor",
        "settle", "drop", "start", "take", "add", "find", "owner", "advance",
        "remain", "remove", "done"}

Passkey(i, u, k, n) == [id |-> i, user |-> u, key |-> k, count |-> n]
NoReq == [kind |-> "none", user |-> None, addr |-> None, stage |-> "none", token |-> 0,
          totp |-> FALSE, key |-> None, row |-> 0, count |-> 0, answers |-> 0,
          op |-> "none", keys |-> <<>>, then |-> "done"]

Init ==
  \E w \in Worlds :
    /\ accounts = w.accounts /\ active = w.accounts /\ totp = w.totp
    /\ passkeys = w.passkeys /\ keySeq = Cardinality(w.passkeys)
    /\ sessions = w.sessions /\ sessionSeq = Cardinality(w.sessions)
    /\ registered = {[user |-> p.user, key |-> p.key] : p \in w.passkeys}
    /\ traffic = w.traffic
    /\ now = 0 /\ failures = [k \in {} |-> 0]
    /\ challenges = [k \in {} |-> 0] /\ challengeSeq = 0 /\ boots = 1
    /\ pc = [q \in Reqs |-> "idle"] /\ req = [q \in Reqs |-> NoReq]
    /\ created = (IF w.accounts = {} THEN <<>> ELSE <<None>>)
    /\ proven = {} /\ accepted = {} /\ opened = {}

User(q) == req[q].user
Goto(q, l) == pc' = [pc EXCEPT ![q] = l]
Keep(q, r) == req' = [req EXCEPT ![q] = r]

Arrive(q, kind, u, a) ==
  /\ pc[q] = "idle" /\ kind \in traffic
  /\ Keep(q, [NoReq EXCEPT !.kind = kind, !.user = u, !.addr = a])

\* The counters a finished attempt goes through, one after the other.
Settle(q, op, keys, then) ==
  /\ Keep(q, [req[q] EXCEPT !.op = op, !.keys = keys, !.then = then])
  /\ Goto(q, "settle")

ByAddress(q) == Keyed("ip", req[q].addr)
ByAccount(q) == Keyed("user", User(q))
ByFactor(q) == Keyed("mfa", User(q))

Settling(q) ==
  /\ pc[q] = "settle"
  /\ LET k == Head(req[q].keys) rest == Tail(req[q].keys)
     IN  /\ IF req[q].op = "Fail" THEN Fail(k) ELSE Succeed(k)
         /\ Keep(q, [req[q] EXCEPT !.keys = rest])
         /\ Goto(q, IF rest = <<>> THEN req[q].then ELSE "settle")
  /\ UNCHANGED <<now, userVars, keyVars, sessionVars, memory, history>>

Start(u, a, stage) ==
  /\ sessionSeq < MaxSessions
  /\ sessionSeq' = sessionSeq + 1
  /\ sessions' = sessions \cup {[id |-> sessionSeq + 1, user |-> u, addr |-> a, stage |-> stage]}

StartSession(q) ==
  /\ pc[q] = "start"
  /\ Start(User(q), req[q].addr, req[q].stage)
  /\ opened' = IF req[q].kind = "passkey"
                 THEN opened \cup {[user |-> User(q), key |-> req[q].key]} ELSE opened
  /\ Goto(q, "done")
  /\ UNCHANGED <<counters, userVars, keyVars, memory, req, created, proven, accepted, registered>>

-----------------------------------------------------------------------------
(* The first-run wizard. *)

\* openDuringSetup counts the accounts before every handler it guards.
SetupNeeded == accounts = {}

SetupAdmin(q) ==
  /\ \E u \in Users, a \in Addrs : Arrive(q, "setup", u, a)
  /\ Goto(q, IF SetupNeeded THEN "create" ELSE "done")
  /\ UNCHANGED <<counters, userVars, keyVars, sessionVars, memory, history>>

\* Mutant: the count of openDuringSetup is enough.
CreateUnchecked(q) ==
  /\ pc[q] = "create"
  /\ IF User(q) \notin accounts
       THEN /\ accounts' = accounts \cup {User(q)} /\ active' = active \cup {User(q)}
            /\ created' = Append(created, q)
            /\ Keep(q, [req[q] EXCEPT !.stage = "full"]) /\ Goto(q, "start")
       ELSE Goto(q, "done") /\ UNCHANGED <<accounts, active, created, req>>
  /\ UNCHANGED <<counters, totp, keyVars, sessionVars, memory, proven, accepted, registered, opened>>

\* One transaction: count again, then insert.
CreateFirstAdmin(q) ==
  /\ pc[q] = "create"
  /\ IF accounts = {}
       THEN /\ accounts' = {User(q)} /\ active' = {User(q)}
            /\ created' = Append(created, q)
            /\ Keep(q, [req[q] EXCEPT !.stage = "full"]) /\ Goto(q, "start")
       ELSE Goto(q, "done") /\ UNCHANGED <<accounts, active, created, req>>
  /\ UNCHANGED <<counters, totp, keyVars, sessionVars, memory, proven, accepted, registered, opened>>

-----------------------------------------------------------------------------
(* Passwords. *)

Knock(q) ==
  /\ \E u \in Users, a \in Addrs, door \in {"password", "rdp"} : Arrive(q, door, u, a)
  /\ Goto(q, "address")
  /\ UNCHANGED <<counters, userVars, keyVars, sessionVars, memory, history>>

\* Locked by address: for a password, or for a passkey login that then goes on.
AskAddress(q) ==
  /\ pc[q] = "address"
  /\ Goto(q, IF Locked(ByAddress(q)) THEN "done"
             ELSE IF req[q].kind = "passkey" THEN "take" ELSE "account")
  /\ UNCHANGED <<counters, userVars, keyVars, sessionVars, memory, req, history>>

AskAccount(q) ==
  /\ pc[q] = "account"
  /\ Goto(q, IF Locked(ByAccount(q)) THEN "done" ELSE "verify")
  /\ UNCHANGED <<counters, userVars, keyVars, sessionVars, memory, req, history>>

\* The row is read, the rest is local: at the portal only a wrong password counts
\* against the account; over RDP every refusal does.
WrongPassword(q) ==
  /\ pc[q] = "verify"
  /\ Settle(q, "Fail", IF req[q].kind = "password" /\ User(q) \notin accounts
                         THEN <<ByAddress(q)>> ELSE <<ByAddress(q), ByAccount(q)>>, "done")
  /\ UNCHANGED <<counters, userVars, keyVars, sessionVars, memory, history>>

\* Mutant: a right password clears the counters before the second factor.
PasswordClears(q) ==
  /\ pc[q] = "verify" /\ req[q].kind = "password" /\ User(q) \in active
  /\ Settle(q, "Succeed", <<ByAddress(q), ByAccount(q)>>, "done")
  /\ UNCHANGED <<counters, userVars, keyVars, sessionVars, memory, history>>

\* The portal: an account that is not active is refused, but not counted; nothing
\* enrolled is refused too, or let in on the password alone.
PortalPassword(q) ==
  /\ pc[q] = "verify" /\ req[q].kind = "password" /\ User(q) \in accounts
  /\ IF User(q) \notin active \/ (User(q) \notin totp /\ RequireSecondFactor)
       THEN Goto(q, "done") /\ UNCHANGED req
       ELSE /\ Keep(q, [req[q] EXCEPT !.stage = IF User(q) \in totp THEN "pending" ELSE "full"])
            /\ Goto(q, "start")
  /\ UNCHANGED <<counters, userVars, keyVars, sessionVars, memory, history>>

\* RDP: with a factor behind the comma, or without one.
RDPPassword(q) ==
  /\ pc[q] = "verify" /\ req[q].kind = "rdp" /\ User(q) \in active
  /\ \/ /\ Goto(q, "factor") /\ Keep(q, [req[q] EXCEPT !.totp = User(q) \in totp])
        /\ UNCHANGED proven
     \/ /\ RequireSecondFactor \/ User(q) \in totp
        /\ Settle(q, "Fail", <<ByAddress(q), ByAccount(q)>>, "done") /\ UNCHANGED proven
     \/ /\ ~RequireSecondFactor /\ User(q) \notin totp
        /\ Settle(q, "Succeed", <<ByAddress(q), ByAccount(q)>>, "done")
        /\ proven' = proven \cup {q}
  /\ UNCHANGED <<counters, userVars, keyVars, sessionVars, memory, created, accepted, registered, opened>>

-----------------------------------------------------------------------------
(* The second step. *)

\* Lookup of the pending session, UserByID.
MFA(q) ==
  /\ \E s \in sessions :
       /\ s.stage = "pending" /\ s.user \in active
       /\ pc[q] = "idle" /\ "mfa" \in traffic
       /\ Keep(q, [NoReq EXCEPT !.kind = "mfa", !.user = s.user, !.addr = s.addr,
                                !.token = s.id, !.totp = s.user \in totp])
  /\ Goto(q, "second")
  /\ UNCHANGED <<counters, userVars, keyVars, sessionVars, memory, history>>

AskFactor(q) ==
  /\ pc[q] = "second"
  /\ Goto(q, IF Locked(ByFactor(q)) THEN "done" ELSE "factor")
  /\ UNCHANGED <<counters, userVars, keyVars, sessionVars, memory, req, history>>

FactorKeys(q) == IF req[q].kind = "mfa" THEN <<ByFactor(q), ByAddress(q)>>
                                        ELSE <<ByAddress(q), ByAccount(q)>>

WrongFactor(q) ==
  /\ pc[q] = "factor"
  /\ Settle(q, "Fail", FactorKeys(q), "done")
  /\ UNCHANGED <<counters, userVars, keyVars, sessionVars, memory, history>>

\* A code wants something enrolled; ",push", over RDP only, asks a person instead.
RightFactor(q) ==
  /\ pc[q] = "factor" /\ (req[q].totp \/ req[q].kind = "rdp")
  /\ Settle(q, "Succeed", FactorKeys(q), IF req[q].kind = "mfa" THEN "drop" ELSE "done")
  /\ proven' = proven \cup {q}
  /\ UNCHANGED <<counters, userVars, keyVars, sessionVars, memory, created, accepted, registered, opened>>

\* Promote: the pending session goes, a full one is started.
DropPending(q) ==
  /\ pc[q] = "drop"
  /\ sessions' = {s \in sessions : s.id # req[q].token}
  /\ Keep(q, [req[q] EXCEPT !.stage = "full"])
  /\ Goto(q, "start")
  /\ UNCHANGED <<counters, userVars, keyVars, sessionSeq, memory, history>>

-----------------------------------------------------------------------------
(* Passkeys. *)

RegKey(u, a) == <<"reg", u, a>>
LoginKey(a) == <<"login", None, a>>

\* put: what expired is swept, and the newest challenge of a key replaces the last.
PutChallenge(key, u) ==
  /\ challengeSeq < MaxChallenges
  /\ challengeSeq' = challengeSeq + 1
  /\ LET live == {k \in DOMAIN challenges : ~challenges[k].expired}
     IN  challenges' = [k \in live \cup {key} |->
           IF k = key THEN [value |-> challengeSeq + 1, user |-> u, expired |-> FALSE]
           ELSE challenges[k]]
  /\ UNCHANGED <<counters, userVars, keyVars, sessionVars, boots, traffic, pc, req, history>>

\* Behind a session; the challenge is all it leaves.
PasskeyRegisterBegin ==
  /\ "register" \in traffic
  /\ \E s \in sessions : s.stage = "full" /\ s.user \in active
                         /\ PutChallenge(RegKey(s.user, s.addr), s.user)

\* Whoever asks, for whatever name.
PasskeyLoginBegin ==
  /\ "passkey" \in traffic
  /\ \E u \in active \cup {None}, a \in Addrs : PutChallenge(LoginKey(a), u)

ChallengeExpires ==
  /\ \E k \in DOMAIN challenges : ~challenges[k].expired
       /\ challenges' = [challenges EXCEPT ![k].expired = TRUE]
  /\ UNCHANGED <<counters, userVars, keyVars, sessionVars, challengeSeq, boots, traffic, pc, req, history>>

\* A response is signed by one authenticator over one challenge it was shown, with
\* the authenticator's counter, or its copy's, in it; 0 is one that is malformed,
\* of another origin or not signed by that key.
Response(q, kind, u, a) ==
  /\ pc[q] = "idle" /\ kind \in traffic
  /\ \E k \in Keys, v \in 0..challengeSeq, n \in 0..MaxCount :
       /\ v = 0 => n = 0
       /\ Keep(q, [NoReq EXCEPT !.kind = kind, !.user = u, !.addr = a,
                                !.key = k, !.answers = v, !.count = n])

PasskeyRegisterFinish(q) ==
  /\ \E s \in sessions : s.stage = "full" /\ s.user \in active /\ Response(q, "register", s.user, s.addr)
  /\ Goto(q, "take")
  /\ UNCHANGED <<counters, userVars, keyVars, sessionVars, memory, history>>

PasskeyLoginFinish(q) ==
  /\ \E a \in Addrs : Response(q, "passkey", None, a)
  /\ Goto(q, "address")
  /\ UNCHANGED <<counters, userVars, keyVars, sessionVars, memory, history>>

Slot(q) == IF req[q].kind = "register" THEN RegKey(User(q), req[q].addr) ELSE LoginKey(req[q].addr)

\* checkClientData: there is one, it has not expired, and it is the one signed.
Matches(q) == /\ Slot(q) \in DOMAIN challenges
              /\ ~challenges[Slot(q)].expired
              /\ challenges[Slot(q)].value = req[q].answers

FinishRegistration(q) == Matches(q)

\* Mutant: the challenge stays until it expires.
TakeAndLeave(q) ==
  /\ pc[q] = "take"
  /\ Keep(q, [req[q] EXCEPT !.answers = IF Matches(q) THEN @ ELSE 0])
  /\ Goto(q, IF req[q].kind = "passkey" THEN "find" ELSE IF FinishRegistration(q) THEN "add" ELSE "done")
  /\ UNCHANGED <<counters, userVars, keyVars, sessionVars, memory, history>>

\* take: whatever becomes of the response, the challenge is gone.
TakeChallenge(q) ==
  /\ pc[q] = "take"
  /\ challenges' = [k \in DOMAIN challenges \ {Slot(q)} |-> challenges[k]]
  /\ Keep(q, [req[q] EXCEPT !.answers = IF Matches(q) THEN @ ELSE 0])
  /\ Goto(q, IF req[q].kind = "passkey" THEN "find" ELSE IF FinishRegistration(q) THEN "add" ELSE "done")
  /\ UNCHANGED <<counters, userVars, keyVars, sessionVars, challengeSeq, boots, traffic, history>>

AddPasskey(q) ==
  /\ pc[q] = "add"
  /\ IF \E p \in passkeys : p.key = req[q].key
       THEN UNCHANGED <<keyVars, registered>>
       ELSE /\ keySeq' = keySeq + 1
            /\ passkeys' = passkeys \cup {Passkey(keySeq + 1, User(q), req[q].key, req[q].count)}
            /\ registered' = registered \cup {[user |-> User(q), key |-> req[q].key]}
  /\ Goto(q, "done")
  /\ UNCHANGED <<counters, userVars, sessionVars, memory, req, created, proven, accepted, opened>>

\* Zero on both sides: the authenticator keeps no counter.
Advances(stored, n) == (stored = 0 /\ n = 0) \/ n > stored

\* Against the row that was read: the challenge was the right one when it was taken.
FinishAssertion(q, p) == req[q].answers # 0 /\ Advances(p.count, req[q].count)

\* Mutant: the session is opened for the account the login was begun for.
FindForName(q) ==
  /\ pc[q] = "find"
  /\ \E p \in passkeys :
       /\ p.key = req[q].key /\ FinishAssertion(q, p)
       /\ \E u \in active : Keep(q, [req[q] EXCEPT !.user = u, !.row = p.id])
  /\ accepted' = accepted \cup {[challenge |-> req[q].answers, by |-> q]}
  /\ Goto(q, "owner")
  /\ UNCHANGED <<counters, userVars, keyVars, sessionVars, memory, created, proven, registered, opened>>

\* PasskeyByCredentialID, and what the rest of the login is decided on.
FindPasskey(q) ==
  /\ pc[q] = "find"
  /\ \/ /\ \A p \in passkeys : p.key = req[q].key => ~FinishAssertion(q, p)
        /\ Settle(q, "Fail", <<ByAddress(q)>>, "done")
        /\ UNCHANGED accepted
     \/ \E p \in passkeys :
          /\ p.key = req[q].key /\ FinishAssertion(q, p)
          /\ Keep(q, [req[q] EXCEPT !.user = p.user, !.row = p.id])
          /\ accepted' = accepted \cup {[challenge |-> req[q].answers, by |-> q]}
          /\ Goto(q, "owner")
  /\ UNCHANGED <<counters, userVars, keyVars, sessionVars, memory, created, proven, registered, opened>>

LoadOwner(q) ==
  /\ pc[q] = "owner"
  /\ Goto(q, IF User(q) \in active THEN "advance" ELSE "done")
  /\ UNCHANGED <<counters, userVars, keyVars, sessionVars, memory, req, history>>

\* UPDATE ... WHERE id = ?, whatever is there by now.
UpdateSignCount(q) ==
  /\ pc[q] = "advance"
  /\ passkeys' = {IF p.id = req[q].row THEN [p EXCEPT !.count = req[q].count] ELSE p : p \in passkeys}
  /\ proven' = proven \cup {q}
  /\ Keep(q, [req[q] EXCEPT !.op = "Succeed", !.keys = <<ByAddress(q)>>,
                            !.then = "start", !.stage = "full"])
  /\ Goto(q, "settle")
  /\ UNCHANGED <<counters, userVars, keySeq, sessionVars, memory, created, accepted, registered, opened>>

\* handlePasskeyDelete behind a session, passkeyRemove on the command line.
DeletePasskey(q) ==
  /\ pc[q] = "idle"
  /\ \E u \in accounts, p \in passkeys, kind \in {"delete", "cli"} \cap traffic :
       /\ p.user = u
       /\ kind = "delete" => u \in active /\ \E s \in sessions : s.stage = "full" /\ s.user = u
       /\ Keep(q, [NoReq EXCEPT !.kind = kind, !.user = u, !.row = p.id, !.totp = u \in totp])
  /\ Goto(q, "remain")
  /\ UNCHANGED <<counters, userVars, keyVars, sessionVars, memory, history>>

\* A count that fails holds nothing up.
CountPasskeys(q) ==
  /\ pc[q] = "remain"
  /\ \/ Goto(q, IF ~req[q].totp /\ Cardinality({p \in passkeys : p.user = User(q)}) <= 1
                  THEN "done" ELSE "remove")
     \/ ~req[q].totp /\ Goto(q, "remove")
  /\ UNCHANGED <<counters, userVars, keyVars, sessionVars, memory, req, history>>

RemovePasskey(q) ==
  /\ pc[q] = "remove"
  /\ passkeys' = {p \in passkeys : ~(p.id = req[q].row /\ p.user = User(q))}
  /\ Goto(q, "done")
  /\ UNCHANGED <<counters, userVars, keySeq, sessionVars, memory, req, history>>

-----------------------------------------------------------------------------
(* Around the requests. *)

\* Accounts are not removed here: Gateway does that.
UserAdd(u) ==
  /\ "cli" \in traffic /\ u \notin accounts
  /\ accounts' = accounts \cup {u} /\ active' = active \cup {u}
  /\ created' = Append(created, None)
  /\ UNCHANGED <<counters, totp, keyVars, sessionVars, memory, pc, req, proven, accepted, registered, opened>>

\* Enrolment, whole; SignIn takes it apart.
SetTOTPSecret(u) ==
  /\ u \in accounts \ totp /\ "enrol" \in traffic
  /\ totp' = totp \cup {u}
  /\ UNCHANGED <<counters, accounts, active, keyVars, sessionVars, memory, pc, req, history>>

LockUser(u) ==
  /\ "lock" \in traffic /\ u \in active
  /\ active' = active \ {u}
  /\ sessions' = {s \in sessions : s.user # u}
  /\ UNCHANGED <<counters, accounts, totp, keyVars, sessionSeq, memory, pc, req, history>>

SessionEnds ==
  /\ "logout" \in traffic
  /\ \E s \in sessions : sessions' = sessions \ {s}
  /\ UNCHANGED <<counters, userVars, keyVars, sessionSeq, memory, pc, req, history>>

\* The counters and the challenges are lost, requests end, the rest is on disk.
Restart ==
  /\ boots <= MaxRestarts /\ "restart" \in traffic
  /\ boots' = boots + 1
  /\ failures' = [k \in {} |-> 0] /\ challenges' = [k \in {} |-> 0]
  /\ pc' = [q \in Reqs |-> IF pc[q] = "idle" THEN "idle" ELSE "done"]
  /\ UNCHANGED <<now, userVars, keyVars, sessionVars, challengeSeq, traffic, req, history>>

Housekeeping ==
  /\ SweepLockouts
  /\ UNCHANGED <<now, userVars, keyVars, sessionVars, memory, pc, req, history>>

Tick ==
  /\ now < MaxTime /\ "clock" \in traffic
  /\ now' = now + 1
  /\ UNCHANGED <<failures, userVars, keyVars, sessionVars, memory, pc, req, history>>

\* A statement fails, or the client gives up; elsewhere that counts as a failure.
Ends(q) ==
  /\ pc[q] \in {"create", "start", "drop", "add", "owner", "advance", "remove"}
  /\ Goto(q, "done")
  /\ UNCHANGED <<counters, userVars, keyVars, sessionVars, memory, req, history>>

Request(q) ==
  \/ SetupAdmin(q) \/ CreateFirstAdmin(q)
  \/ Knock(q) \/ AskAddress(q) \/ AskAccount(q)
  \/ WrongPassword(q) \/ PortalPassword(q) \/ RDPPassword(q)
  \/ MFA(q) \/ AskFactor(q) \/ WrongFactor(q) \/ RightFactor(q) \/ DropPending(q)
  \/ PasskeyRegisterFinish(q) \/ PasskeyLoginFinish(q) \/ TakeChallenge(q) \/ AddPasskey(q)
  \/ FindPasskey(q) \/ LoadOwner(q) \/ UpdateSignCount(q)
  \/ DeletePasskey(q) \/ CountPasskeys(q) \/ RemovePasskey(q)
  \/ StartSession(q) \/ Settling(q) \/ Ends(q)

Next ==
  \/ \E q \in Reqs : Request(q)
  \/ PasskeyRegisterBegin \/ PasskeyLoginBegin \/ ChallengeExpires
  \/ \E u \in Users : UserAdd(u) \/ SetTOTPSecret(u) \/ LockUser(u)
  \/ SessionEnds \/ Restart \/ Housekeeping \/ Tick

Spec == Init /\ [][Next]_vars

-----------------------------------------------------------------------------
(* Properties. *)

\* The rows, the two maps in memory and what a request has read.
TypeOK ==
  /\ now \in Nat /\ boots \in Nat
  /\ \A k \in DOMAIN failures : failures[k].count \in Nat /\ failures[k].until \in Nat \cup {NoLock}
  /\ active \subseteq accounts /\ totp \subseteq accounts /\ accounts \subseteq Users
  /\ passkeys \subseteq [id: 1..keySeq, user: Users, key: Keys, count: 0..MaxCount]
  /\ sessions \subseteq [id: 1..sessionSeq, user: Users, addr: Addrs, stage: {"pending", "full"}]
  /\ \A k \in DOMAIN challenges : challenges[k].value \in 1..challengeSeq
  /\ pc \in [Reqs -> PCs]
  /\ \A q \in Reqs : req[q].kind \in Kinds \cup {"none"} /\ req[q].user \in Users \cup {None}

\* However many attempts fail, at whatever moments and at either door, nobody is
\* locked out for longer than auth.lockout_max from now (Manager.Fail).
LockBounded == \A k \in DOMAIN failures : failures[k].until <= now + LockoutMax

\* The keys a request may clear: its own address, and its own account.
Own(q) == {ByAddress(q), ByAccount(q), ByFactor(q)}

\* While a lock runs, nothing lifts it but a restart of the service and a login
\* that has proved everything its account asks for, and that login lifts no
\* lock of another account (Succeed after the last check; SweepLockouts).
LiftedByProof ==
  [][ \A k \in DOMAIN failures :
        Locked(k) /\ k \notin DOMAIN failures' =>
          boots' # boots \/ \E q \in proven : k \in Own(q) /\ req'[q] # req[q] ]_vars

\* Whoever saw an empty gateway in the wizard becomes administrator only as the
\* first of all accounts: not after another browser that saw it too, nor after an
\* account that the command line made in between (createFirstAdmin).
OneFirstAdmin == \A i \in DOMAIN created : created[i] \in Reqs => i = 1

\* One challenge, one login: a response that is sent twice, or two responses over
\* the challenge two browsers of one address share, open one door (take).
ChallengeUsedOnce ==
  \A a, b \in accepted : a.challenge = b.challenge => a.by = b.by

\* Whatever is deleted and registered anew while a login runs, a passkey opens
\* the account of somebody who registered it under a session of that account.
PasskeyOpensItsOwner == opened \subseteq registered
=============================================================================
