------------------------------- MODULE Gateway -------------------------------
(***************************************************************************)
(* The core of the gateway: the relay that holds every TCP connection      *)
(* (internal/proxy/relay), the policy engine that decides what becomes of  *)
(* it (internal/policy), the portal's unlock request, and the              *)
(* administrator, all interleaving on the tables of GrantStore.            *)
(*                                                                         *)
(* A connection is a process; one step of it is one statement, one wait or *)
(* one in-memory critical section of relay.handle and of the policy method *)
(* it calls.  What a handler has already read stays in its local record    *)
(* dec, which is how a decision can be stale when it is used.              *)
(***************************************************************************)
EXTENDS GrantStore

CONSTANTS
  Addrs,          \* source addresses of clients
  KeyOf,          \* NormalizeIP: the key an address is stored under
  Reqs,           \* unlock requests of the web portal
  LoginEnabled,   \* rdp_login.enabled: relay.Options.Login is not nil
  JITEnabled,     \* jit.enabled
  DefaultTarget,  \* jit.default_target, None when it is empty
  MaxConnsPerIP,  \* relay.max_conns_per_ip, 0 for no limit
  GrantTTL,       \* grant.ttl
  ReuseWindow,    \* grant.reuse_window
  RedirectTTL,    \* redirectTTL
  HoldTimeout,    \* jit.hold_timeout
  MaxTime,        \* bound: the clock stops here
  MaxStops        \* bound: how often the service stops

ASSUME GatewayAssumption ==
  /\ KeyOf \in [Addrs -> Keys]
  /\ None \notin Addrs
  /\ LoginEnabled \in BOOLEAN /\ JITEnabled \in BOOLEAN
  /\ DefaultTarget \in Targets \cup {None}
  /\ MaxConnsPerIP \in Nat
  /\ GrantTTL \in Nat /\ ReuseWindow \in Nat /\ RedirectTTL \in Nat
  /\ HoldTimeout \in Nat
  /\ MaxTime \in Nat /\ MaxStops \in Nat

VARIABLES
  up,         \* the service is running
  stops,      \* how often it has stopped so far
  revoking,   \* accounts whose RevokeGrantsForUser is still to run
  pc,         \* where each connection is
  addr,       \* its source address
  dec,        \* what its handler has read so far
  slots,      \* relay.Server.perIP
  web,        \* the unlock requests
  (* History, read by no action: *)
  mfa,        \* <<user, key>> pairs that completed a login or approved a request
  spent,      \* for each token, the connections its claim succeeded for
  sawActive,  \* accounts a connection could have found active since it arrived
  sawReach    \* <<user, target>> pairs it could have found in user_targets

relayVars == <<pc, addr, dec, slots>>
history == <<mfa, spent, sawActive, sawReach>>
service == <<up, stops, revoking>>
vars == <<storeVars, service, relayVars, web, history>>

\* via: which of the paths of relay.handle the connection is on.
\* at:  the time Authorize read, and in Review the deadline of the hold.
Begin(path, time) == [via |-> path, token |-> None, grant |-> None, user |-> None,
                      target |-> None, at |-> time]
NoDec == Begin("none", 0)
Dec == [via: {"none", "grant", "token", "login", "jit"},
        token: Conns \cup {None}, grant: Nat \cup {None},
        user: Users \cup {None}, target: Targets \cup {None}, at: Nat]

NoWeb == [pc |-> "idle", user |-> None, target |-> None, addr |-> None]
Web == [pc: {"idle", "reach", "load", "issue", "done"},
        user: Users \cup {None}, target: Targets \cup {None},
        addr: Addrs \cup {None}]

PCs == {"idle", "peek", "lookup", "claim", "target", "user", "reach", "consume",
        "issue", "login", "factor", "pick", "wake", "mint", "hint", "jitpick",
        "jitreach", "jitcreate", "ask", "boot", "jitissue", "jitmark", "dial",
        "open", "pump", "close", "tarpit", "done"}

Key(c) == KeyOf[addr[c]]
Forwarded == {"pump", "close"}
Held(c) == pc[c] \notin {"idle", "done"}

Init ==
  /\ now = 0
  /\ status = [u \in Users |-> "active"]
  /\ reach = (Users \ Admins) \X Targets
  /\ machines = Targets
  /\ grants = {} /\ grantSeq = 0 /\ tokens = {} /\ requests = {} /\ rows = {}
  /\ up = TRUE /\ stops = 0 /\ revoking = {}
  /\ pc = [c \in Conns |-> "idle"]
  /\ addr = [c \in Conns |-> None]
  /\ dec = [c \in Conns |-> NoDec]
  /\ slots = [a \in Addrs |-> 0]
  /\ web = [r \in Reqs |-> NoWeb]
  /\ mfa = {}
  /\ spent = [c \in Conns |-> {}]
  /\ sawActive = [c \in Conns |-> {}]
  /\ sawReach = [c \in Conns |-> {}]

-----------------------------------------------------------------------------
(* Steps of relay.handle. *)

Goto(c, l) == pc' = [pc EXCEPT ![c] = l]
Keep(c, d) == dec' = [dec EXCEPT ![c] = d]

Acquire(a) ==
  slots' = IF MaxConnsPerIP = 0 THEN slots ELSE [slots EXCEPT ![a] = @ + 1]

Release(a) ==
  slots' = IF MaxConnsPerIP = 0 THEN slots ELSE [slots EXCEPT ![a] = @ - 1]

\* Mutant: a return that forgets the slot.
ReturnKeepsSlot(c) ==
  /\ Goto(c, "done")
  /\ Keep(c, NoDec)
  /\ UNCHANGED <<addr, slots>>

\* Every return of handle past acquire runs the deferred release.
Return(c) ==
  /\ Goto(c, "done")
  /\ Keep(c, NoDec)
  /\ Release(addr[c])
  /\ UNCHANGED addr

\* Rejected, then the tarpit: the slot is held until that is over.
Reject(c) ==
  /\ Goto(c, "tarpit")
  /\ Keep(c, NoDec)
  /\ UNCHANGED <<addr, slots>>

Advance(c, l, d) ==
  /\ Goto(c, l)
  /\ Keep(c, d)
  /\ UNCHANGED <<addr, slots>>

Quiet == UNCHANGED <<storeVars, service, web, history>>

\* Over the limit there is no slot to give back: the connection only waits.
Connect(c, a) ==
  /\ up /\ pc[c] = "idle"
  /\ addr' = [addr EXCEPT ![c] = a]
  /\ IF MaxConnsPerIP = 0 \/ slots[a] < MaxConnsPerIP
       THEN Goto(c, "peek") /\ Acquire(a)
       ELSE Goto(c, "done") /\ UNCHANGED slots
  /\ sawActive' = [sawActive EXCEPT ![c] = {u \in Users : IsActive(u)}]
  /\ sawReach' = [sawReach EXCEPT ![c] = reach]
  /\ UNCHANGED <<storeVars, service, web, dec, mfa, spent>>

\* A malformed or late connection request.
PeekFails(c) == pc[c] = "peek" /\ Reject(c) /\ Quiet

PeekPlain(c) ==
  /\ pc[c] = "peek"
  /\ Advance(c, "lookup", Begin("grant", now))
  /\ Quiet

\* None stands for a routing token that no login ever minted.
PeekToken(c) ==
  /\ pc[c] = "peek"
  /\ \E t \in {tk.id : tk \in tokens} \cup {None} :
       Advance(c, "claim", [Begin("token", 0) EXCEPT !.token = t])
  /\ Quiet

\* A refused token is final; otherwise the login or the approval takes over.
Deny(c) ==
  IF dec[c].via = "token" THEN Reject(c)
  ELSE IF LoginEnabled
    THEN \/ Advance(c, "login", Begin("login", 0))
         \/ Reject(c)   \* the client sent data before it was answered
  ELSE IF JITEnabled
    THEN Advance(c, "hint", Begin("jit", now + HoldTimeout))
  ELSE Reject(c)

DialOK(c) == pc[c] = "dial" /\ Advance(c, "open", dec[c]) /\ Quiet

\* The backend is unreachable, or the replay to it fails: no tarpit.
DialFails(c) == pc[c] = "dial" /\ Return(c) /\ Quiet

\* Opened: a row that cannot be written leaves the session unrecorded.
Opened(c) ==
  /\ pc[c] = "open"
  /\ Advance(c, "pump", dec[c])
  /\ IF CanOpenRDPSession(dec[c].grant, dec[c].target)
       THEN OpenRDPSession(c, dec[c].grant, dec[c].target)
       ELSE UNCHANGED rows
  /\ UNCHANGED <<now, accounts, grants, grantSeq, tokens, requests>>
  /\ UNCHANGED <<service, web, history>>

PumpEnds(c) == pc[c] = "pump" /\ Advance(c, "close", dec[c]) /\ Quiet

Closed(c) ==
  /\ pc[c] = "close"
  /\ CloseRDPSession(c)
  /\ Return(c)
  /\ UNCHANGED <<now, accounts, grants, grantSeq, tokens, requests>>
  /\ UNCHANGED <<service, web, history>>

TarpitEnds(c) == pc[c] = "tarpit" /\ Return(c) /\ Quiet

-----------------------------------------------------------------------------
(* Authorize and AuthorizeToken. *)

\* A statement that fails refuses, like a row that is not there.
LookupFails(c) ==
  /\ pc[c] \in {"lookup", "claim", "target", "user", "reach"}
  /\ Deny(c)
  /\ Quiet

ActiveGrant(c) ==
  /\ pc[c] = "lookup"
  /\ IF LiveGrants(Key(c), dec[c].at) = {}
       THEN Deny(c)
       ELSE \E g \in grants :
              /\ IsActiveGrant(g, Key(c), dec[c].at)
              /\ Advance(c, "target", [dec[c] EXCEPT !.grant = g.id,
                                         !.user = g.user, !.target = g.target])
  /\ Quiet

ConsumeRedirectToken(c) ==
  /\ pc[c] = "claim"
  /\ ClaimRedirectToken(dec[c].token, Key(c))
  /\ IF \E tk \in tokens : Claimable(tk, dec[c].token, Key(c))
       THEN \E tk \in tokens :
              /\ Claimable(tk, dec[c].token, Key(c))
              /\ Advance(c, "target", [dec[c] EXCEPT !.user = tk.user,
                                                     !.target = tk.target])
              /\ spent' = [spent EXCEPT ![tk.id] = @ \cup {c}]
       ELSE Deny(c) /\ UNCHANGED spent
  /\ UNCHANGED <<now, accounts, grants, grantSeq, requests, rows>>
  /\ UNCHANGED <<service, web, mfa, sawActive, sawReach>>

TargetByID(c) ==
  /\ pc[c] = "target"
  /\ IF dec[c].target \in machines THEN Advance(c, "user", dec[c]) ELSE Deny(c)
  /\ Quiet

UserByID(c) ==
  /\ pc[c] = "user"
  /\ IF IsActive(dec[c].user) THEN Advance(c, "reach", dec[c]) ELSE Deny(c)
  /\ Quiet

CheckReach(c) ==
  /\ pc[c] = "reach"
  /\ IF CanReach(dec[c].user, dec[c].target)
       THEN Advance(c, IF dec[c].via = "token" THEN "issue" ELSE "consume", dec[c])
       ELSE Deny(c)
  /\ Quiet

\* A failure to extend the grant is only logged.
MarkConsumed(c) ==
  /\ pc[c] = "consume"
  /\ \/ ConsumeGrant(dec[c].grant, dec[c].at + ReuseWindow)
     \/ UNCHANGED grants
  /\ Advance(c, "dial", dec[c])
  /\ UNCHANGED <<now, accounts, grantSeq, tokens, requests, rows>>
  /\ UNCHANGED <<service, web, history>>

\* A failure to issue is only logged: the connection goes on without a grant.
IssueFollowOn(c) ==
  /\ pc[c] = "issue"
  /\ \/ /\ UserAndTargetExist(dec[c].user, dec[c].target)
        /\ CreateGrant(dec[c].user, dec[c].target, Key(c), ReuseWindow)
        /\ Advance(c, "dial", [dec[c] EXCEPT !.grant = grantSeq'])
     \/ /\ Advance(c, "dial", [dec[c] EXCEPT !.grant = None])
        /\ UNCHANGED <<grants, grantSeq>>
  /\ UNCHANGED <<now, accounts, tokens, requests, rows>>
  /\ UNCHANGED <<service, web, history>>

-----------------------------------------------------------------------------
(* Login.Run and Authenticate. *)

\* The sequence breaks off, or the credentials or the account are refused.
LoginRefused(c) ==
  /\ pc[c] \in {"login", "factor", "pick", "wake", "mint"}
  /\ Return(c)
  /\ Quiet

\* Unlocked, known, active, and the password is right.
LoginIdentifies(c) ==
  /\ pc[c] = "login"
  /\ \E u \in Users :
       IsActive(u) /\ Advance(c, "factor", [dec[c] EXCEPT !.user = u])
  /\ Quiet

\* The code, the backup code or the push is accepted; an account with nothing
\* enrolled owes none where auth.require_second_factor is off.
LoginFactor(c) ==
  /\ pc[c] = "factor"
  /\ Advance(c, "pick", dec[c])
  /\ mfa' = mfa \cup {<<dec[c].user, Key(c)>>}
  /\ UNCHANGED <<storeVars, service, web, spent, sawActive, sawReach>>

\* targetFor and jitTarget: the only machine listed, or the default one.
Chosen(u, t) ==
  /\ t \in ListTargetsForUser(u)
  /\ t = DefaultTarget \/ ListTargetsForUser(u) = {t}

TargetFor(c) ==
  /\ pc[c] = "pick"
  /\ \E t \in Targets :
       Chosen(dec[c].user, t) /\ Advance(c, "wake", [dec[c] EXCEPT !.target = t])
  /\ Quiet

\* wake, then waitReady: the machine answers.
LoginAwake(c) == pc[c] = "wake" /\ Advance(c, "mint", dec[c]) /\ Quiet

\* The redirection is sent and the connection is over.
MintToken(c) ==
  /\ pc[c] = "mint"
  /\ UserAndTargetExist(dec[c].user, dec[c].target)
  /\ CreateRedirectToken(c, dec[c].user, dec[c].target, Key(c), RedirectTTL)
  /\ Return(c)
  /\ UNCHANGED <<now, accounts, grants, grantSeq, requests, rows>>
  /\ UNCHANGED <<service, web, history>>

-----------------------------------------------------------------------------
(* Review. *)

\* The context of the hold: every statement fails once it is done.
HoldOver(c) == now >= dec[c].at

\* No cookie, no such active account, nothing to choose, or no access to it.
ReviewRefused(c) ==
  /\ pc[c] \in {"hint", "jitpick", "jitreach", "jitcreate"}
  /\ Reject(c)
  /\ Quiet

UserByRDPHint(c) ==
  /\ pc[c] = "hint" /\ ~HoldOver(c)
  /\ \E u \in Users :
       IsActive(u) /\ Advance(c, "jitpick", [dec[c] EXCEPT !.user = u])
  /\ Quiet

JITTarget(c) ==
  /\ pc[c] = "jitpick" /\ ~HoldOver(c)
  /\ \E t \in Targets :
       Chosen(dec[c].user, t) /\ Advance(c, "jitreach", [dec[c] EXCEPT !.target = t])
  /\ Quiet

ReviewReach(c) ==
  /\ pc[c] = "jitreach" /\ ~HoldOver(c)
  /\ CanReach(dec[c].user, dec[c].target)
  /\ Advance(c, "jitcreate", dec[c])
  /\ Quiet

RecordRequest(c) ==
  /\ pc[c] = "jitcreate" /\ ~HoldOver(c)
  /\ UserAndTargetExist(dec[c].user, dec[c].target)
  /\ CreateJITRequest(c, dec[c].user, dec[c].target, Key(c))
  /\ Advance(c, "ask", dec[c])
  /\ UNCHANGED <<now, accounts, grants, grantSeq, tokens, rows>>
  /\ UNCHANGED <<service, web, history>>

\* The outcome is written with the context of the hold.
Decide(c, s) ==
  /\ IF HoldOver(c) THEN UNCHANGED requests ELSE SetJITState(c, s)
  /\ UNCHANGED <<now, accounts, grants, grantSeq, tokens, rows>>
  /\ UNCHANGED <<service, web>>

Approved(c) ==
  /\ pc[c] = "ask"
  /\ Advance(c, "boot", dec[c])
  /\ mfa' = mfa \cup {<<dec[c].user, Key(c)>>}
  /\ UNCHANGED <<storeVars, service, web, spent, sawActive, sawReach>>

\* Mutant: anything but an error is taken for a yes.
DeclinedProceeds(c) ==
  /\ pc[c] = "ask" /\ ~HoldOver(c)
  /\ Decide(c, "denied")
  /\ Advance(c, "boot", dec[c])
  /\ UNCHANGED history

\* The human says no, or the channel fails.
Declined(c) ==
  /\ pc[c] = "ask" /\ ~HoldOver(c)
  /\ Decide(c, "denied")
  /\ Reject(c)
  /\ UNCHANGED history

\* Mutant: the wait ends only while the row still says pending.
TimesOutWhilePending(c) ==
  /\ pc[c] = "ask" /\ HoldOver(c)
  /\ \E r \in requests : r.id = c /\ r.state = "pending"
  /\ Decide(c, "timeout")
  /\ Reject(c)
  /\ UNCHANGED history

ApprovalTimesOut(c) ==
  /\ pc[c] = "ask" /\ HoldOver(c)
  /\ Decide(c, "timeout")
  /\ Reject(c)
  /\ UNCHANGED history

ReviewReady(c) == pc[c] = "boot" /\ Advance(c, "jitissue", dec[c]) /\ Quiet

DidNotWake(c) ==
  /\ pc[c] = "boot"
  /\ Decide(c, "timeout")
  /\ Reject(c)
  /\ UNCHANGED history

IssueJIT(c) ==
  /\ pc[c] = "jitissue"
  /\ \/ /\ ~HoldOver(c)
        /\ UserAndTargetExist(dec[c].user, dec[c].target)
        /\ CreateGrant(dec[c].user, dec[c].target, Key(c), GrantTTL)
        /\ Advance(c, "jitmark", [dec[c] EXCEPT !.grant = grantSeq'])
     \/ /\ Reject(c)
        /\ UNCHANGED <<grants, grantSeq>>
  /\ UNCHANGED <<now, accounts, tokens, requests, rows>>
  /\ UNCHANGED <<service, web, history>>

MarkApproved(c) ==
  /\ pc[c] = "jitmark"
  /\ Decide(c, "approved")
  /\ Advance(c, "dial", dec[c])
  /\ UNCHANGED history

-----------------------------------------------------------------------------
(* The portal's unlock request: authed, then handleUnlock and Unlock. *)

\* authed found a session past MFA and an active account behind it.
UnlockBegins(r) ==
  /\ up /\ web[r].pc = "idle"
  /\ \E u \in Users, t \in Targets, a \in Addrs :
       /\ IsActive(u)
       /\ web' = [web EXCEPT ![r] = [pc |-> "reach", user |-> u, target |-> t,
                                     addr |-> a]]
       /\ mfa' = mfa \cup {<<u, KeyOf[a]>>}
  /\ UNCHANGED <<storeVars, service, relayVars, spent, sawActive, sawReach>>

UnlockGoto(r, l) == web' = [web EXCEPT ![r].pc = l]

UnlockReach(r) ==
  /\ web[r].pc = "reach"
  /\ UnlockGoto(r, IF CanReach(web[r].user, web[r].target) THEN "load" ELSE "done")
  /\ UNCHANGED <<storeVars, service, relayVars, history>>

UnlockLoad(r) ==
  /\ web[r].pc = "load"
  /\ UnlockGoto(r, IF web[r].target \in machines THEN "issue" ELSE "done")
  /\ UNCHANGED <<storeVars, service, relayVars, history>>

UnlockIssue(r) ==
  /\ web[r].pc = "issue"
  /\ IF UserAndTargetExist(web[r].user, web[r].target)
       THEN CreateGrant(web[r].user, web[r].target, KeyOf[web[r].addr], GrantTTL)
       ELSE UNCHANGED <<grants, grantSeq>>
  /\ UnlockGoto(r, "done")
  /\ UNCHANGED <<now, accounts, tokens, requests, rows>>
  /\ UNCHANGED <<service, relayVars, history>>

-----------------------------------------------------------------------------
(* The administrator, housekeeping, the clock, and the service itself. *)

Observe ==
  /\ sawActive' = [c \in Conns |-> IF Held(c)
       THEN sawActive[c] \cup {u \in Users : status'[u] = "active"}
       ELSE sawActive[c]]
  /\ sawReach' = [c \in Conns |-> IF Held(c) THEN sawReach[c] \cup reach'
                                             ELSE sawReach[c]]
  /\ UNCHANGED <<mfa, spent>>

\* The status is written first; the grants are revoked by a later statement.
SetStatus(u, s) ==
  /\ status[u] # "gone" /\ s # status[u]
  /\ SetUserStatus(u, s)
  /\ revoking' = IF s = "active" THEN revoking ELSE revoking \cup {u}
  /\ UNCHANGED <<now, reach, machines, tables, up, stops, relayVars, web>>
  /\ Observe

RevokeGrants(u) ==
  /\ u \in revoking
  /\ RevokeGrantsForUser(u)
  /\ revoking' = revoking \ {u}
  /\ UNCHANGED <<now, accounts, grantSeq, tokens, requests, rows>>
  /\ UNCHANGED <<up, stops, relayVars, web, history>>

GrantAccess(u, t) ==
  /\ status[u] # "gone" /\ t \in machines /\ <<u, t>> \notin reach
  /\ GrantTargetAccess(u, t)
  /\ UNCHANGED <<now, status, machines, tables, service, relayVars, web>>
  /\ Observe

\* The portal drops the row; the command line revokes the grants as well.
RevokeAccess(u, t) ==
  /\ <<u, t>> \in reach
  /\ RevokeTargetAccess(u, t)
  /\ revoking' \in {revoking, revoking \cup {u}}
  /\ UNCHANGED <<now, status, machines, tables, up, stops>>
  /\ UNCHANGED <<relayVars, web, history>>

RemoveUser(u) ==
  /\ status[u] # "gone"
  /\ DeleteUser(u)
  /\ UNCHANGED <<service, relayVars, web, history>>

RemoveTarget(t) ==
  /\ t \in machines
  /\ DeleteTarget(t)
  /\ UNCHANGED <<service, relayVars, web, history>>

\* revpd sessions kick: the record is closed, the connection is not.
SessionKick(c) ==
  /\ \E r \in rows : r.id = c /\ r.open
  /\ CloseRDPSession(c)
  /\ UNCHANGED <<now, accounts, grants, grantSeq, tokens, requests>>
  /\ UNCHANGED <<service, relayVars, web, history>>

Purge == up /\ PurgeExpired /\ UNCHANGED <<service, relayVars, web, history>>
Sweep == up /\ ExpirePendingJIT /\ UNCHANGED <<service, relayVars, web, history>>

\* The clock stops at MaxTime, but never under a hold that is still to run out.
Tick ==
  /\ now < MaxTime \/ \E c \in Conns : pc[c] = "ask" /\ ~HoldOver(c)
  /\ now' = now + 1
  /\ UNCHANGED <<accounts, tables, service, relayVars, web, history>>

\* A crash, or a shutdown: the context is done before Closed runs, so neither
\* writes the end of a session, and every request in flight is lost.
Stop ==
  /\ up /\ stops < MaxStops
  /\ up' = FALSE /\ stops' = stops + 1 /\ revoking' = {}
  /\ pc' = [c \in Conns |-> IF pc[c] = "idle" THEN "idle" ELSE "done"]
  /\ dec' = [c \in Conns |-> NoDec]
  /\ slots' = [a \in Addrs |-> 0]
  /\ web' = [r \in Reqs |-> IF web[r].pc = "idle" THEN web[r]
                            ELSE [web[r] EXCEPT !.pc = "done"]]
  /\ UNCHANGED <<storeVars, addr, history>>

Start ==
  /\ ~up
  /\ up' = TRUE
  /\ MarkStaleSessionsClosed
  /\ UNCHANGED <<now, accounts, grants, grantSeq, tokens, requests>>
  /\ UNCHANGED <<stops, revoking, relayVars, web, history>>

-----------------------------------------------------------------------------

\* What the handler of a connection does on its own, once it is accepted.
Handle(c) ==
  \/ PeekFails(c) \/ PeekPlain(c) \/ PeekToken(c)
  \/ LookupFails(c) \/ ActiveGrant(c) \/ ConsumeRedirectToken(c)
  \/ TargetByID(c) \/ UserByID(c) \/ CheckReach(c)
  \/ MarkConsumed(c) \/ IssueFollowOn(c)
  \/ LoginRefused(c) \/ LoginIdentifies(c) \/ LoginFactor(c)
  \/ TargetFor(c) \/ LoginAwake(c) \/ MintToken(c)
  \/ ReviewRefused(c) \/ UserByRDPHint(c) \/ JITTarget(c)
  \/ ReviewReach(c) \/ RecordRequest(c)
  \/ ApprovalTimesOut(c)
  \/ ReviewReady(c) \/ DidNotWake(c) \/ IssueJIT(c) \/ MarkApproved(c)
  \/ DialOK(c) \/ DialFails(c) \/ Opened(c) \/ Closed(c) \/ TarpitEnds(c)

Unlock(r) == UnlockReach(r) \/ UnlockLoad(r) \/ UnlockIssue(r)

Administer ==
  \/ \E u \in Users : \E s \in {"active", "locked", "disabled"} : SetStatus(u, s)
  \/ \E u \in Users : RevokeGrants(u) \/ RemoveUser(u)
  \/ \E u \in Users, t \in Targets : GrantAccess(u, t) \/ RevokeAccess(u, t)
  \/ \E t \in Targets : RemoveTarget(t)
  \/ \E c \in Conns : SessionKick(c)

Next ==
  \/ \E c \in Conns : \/ \E a \in Addrs : Connect(c, a)
                      \/ Approved(c) \/ Declined(c) \/ PumpEnds(c)
                      \/ Handle(c)
  \/ \E r \in Reqs : UnlockBegins(r) \/ Unlock(r)
  \/ Administer
  \/ Purge \/ Sweep \/ Tick \/ Stop \/ Start

Spec == Init /\ [][Next]_vars

\* A handler that can take a step takes it (goroutines are scheduled, and every
\* wait of theirs has a deadline); clients, humans and the administrator owe
\* nothing; time passes.
Fairness == WF_vars(Tick) /\ \A c \in Conns : WF_vars(Handle(c))
FairSpec == Spec /\ Fairness

-----------------------------------------------------------------------------
(* Properties. *)

\* Every variable stays in its type: the rows of the tables, and what a handler
\* (relay.handle, Engine.Unlock) holds between two statements.
TypeOK ==
  /\ StoreTypeOK
  /\ up \in BOOLEAN /\ stops \in Nat /\ revoking \subseteq Users
  /\ pc \in [Conns -> PCs]
  /\ addr \in [Conns -> Addrs \cup {None}]
  /\ dec \in [Conns -> Dec]
  /\ slots \in [Addrs -> Int]
  /\ web \in [Reqs -> Web]
  /\ mfa \subseteq Users \X Keys
  /\ spent \in [Conns -> SUBSET Conns]
  /\ sawActive \in [Conns -> SUBSET Users]
  /\ sawReach \in [Conns -> SUBSET (Users \X Targets)]

\* Past the decision: relay.handle is dialling, recording or forwarding.
Admitted(c) == pc[c] \in {"dial", "open"} \cup Forwarded

\* No byte reaches a machine unless somebody passed MFA, or approved a request,
\* for the very account and address key the connection is let in under: the
\* conditions of ActiveGrant and ConsumeRedirectToken, through every handler
\* that creates the rows they read.
ForwardedPassedMFA ==
  \A c \in Conns : Admitted(c) => <<dec[c].user, Key(c)>> \in mfa

\* A connection is never let in under an account that was inactive, or that
\* could not reach the machine, for the whole time since it was accepted:
\* Authorize, AuthorizeToken, Authenticate and Review each re-read both.
NoEntryWhileBarred ==
  \A c \in Conns : Admitted(c) =>
    /\ dec[c].user \in sawActive[c]
    /\ \/ dec[c].user \in Admins
       \/ <<dec[c].user, dec[c].target>> \in sawReach[c]

\* perIP counts exactly the connections that hold a slot, through every return
\* of relay.handle, and never passes max_conns_per_ip.
SlotsMatchHolders ==
  MaxConnsPerIP > 0 => \A a \in Addrs :
    /\ slots[a] = Cardinality({c \in Conns : addr[c] = a /\ Held(c)})
    /\ slots[a] <= MaxConnsPerIP

\* While the service runs, an open rdp_sessions row is a connection that is being
\* forwarded now: neither a crash nor a shutdown leaves one behind, because
\* MarkStaleSessionsClosed runs before the relay listens.
OpenRowsAreForwarded ==
  up => \A r \in rows : r.open => pc[r.id] \in Forwarded

\* A grant is never open further ahead than one window from now, however often
\* and by however many connections it is used: ConsumeGrant takes the maximum of
\* the expiry and the window, it does not add to it.
WindowBounded ==
  \A g \in grants : g.expires <= now + Later(GrantTTL, ReuseWindow)

\* A revoked grant never comes back to life and is never extended, not even by a
\* connection that read it before RevokeGrantsForUser ran.
RevokedStaysRevoked ==
  [][\A g \in grants : g.revoked =>
       \A h \in grants' : h.id = g.id => h.revoked /\ h.expires = g.expires]_vars

\* A request for approval is decided once: what the human, the hold and the
\* sweep of housekeeping write never overwrites an earlier decision.
DecidedOnce ==
  [][\A r \in requests : r.state # "pending" =>
       \E s \in requests' : s.id = r.id /\ s.state = r.state]_vars

\* Nobody is forwarded on a request the human declined (Review).
DeclinedNotForwarded ==
  \A r \in requests : r.state = "denied" => ~Admitted(r.id)

\* In the end every accepted connection is forwarded or has given its slot back,
\* and one whose copy ended has given it back too: whatever the human does, no
\* wait of the handler (the peek, the hold, the wake, the tarpit) is unbounded.
HeldSettles == <>[](\A c \in Conns : pc[c] \in {"idle", "pump", "done"})

\* The whole of relay.handle and the policy engine behind it keep the promise of
\* AccessPromise: every step is one of its steps or changes nothing it speaks of.
Promise == INSTANCE AccessPromise WITH
  from <- addr, proven <- mfa, redeemed <- spent,
  inside <- [c \in Conns |-> IF Admitted(c) THEN <<dec[c].user, dec[c].target>>
                                            ELSE None]
PromiseKept == Promise!Spec
=============================================================================
