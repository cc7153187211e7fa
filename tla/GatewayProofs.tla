---------------------------- MODULE GatewayProofs ----------------------------
(***************************************************************************)
(* Theorems about Gateway, for every set of accounts, machines, addresses  *)
(* and connections, in three parts: types; who gets in; and what the       *)
(* tables and the relay's counters say of the connections, which ends in   *)
(* the refinement of AccessPromise.                                        *)
(***************************************************************************)
EXTENDS Gateway, FiniteSetTheorems, TLAPS

(***************************************************************************)
(* Type correctness.  A handler fills its record as it goes: which fields  *)
(* are known depends on where it is.  Without that, the rows it writes     *)
(* from them could not be typed.                                           *)
(***************************************************************************)

NoUserYet == {"idle", "peek", "lookup", "claim", "login", "hint", "tarpit", "done"}
NoTargetYet == NoUserYet \cup {"factor", "pick", "jitpick"}

\* A decision that is complete enough for a handler at l.
Complete(l, d) ==
  /\ d \in Dec
  /\ l \notin NoUserYet => d.user \in Users
  /\ l \notin NoTargetYet => d.target \in Targets

RelayOK ==
  /\ pc \in [Conns -> PCs]
  /\ addr \in [Conns -> Addrs \cup {None}]
  /\ dec \in [Conns -> Dec]
  /\ slots \in [Addrs -> Int]
  /\ \A c \in Conns : /\ Complete(pc[c], dec[c])
                      /\ (pc[c] = "idle") <=> (addr[c] = None)

WebOK ==
  /\ web \in [Reqs -> Web]
  /\ \A r \in Reqs : web[r].pc \in {"reach", "load", "issue"} =>
       web[r].user \in Users /\ web[r].target \in Targets /\ web[r].addr \in Addrs

ServiceOK == up \in BOOLEAN /\ stops \in Nat /\ revoking \subseteq Users

HistoryOK ==
  /\ mfa \subseteq Users \X Keys
  /\ spent \in [Conns -> SUBSET Conns]
  /\ sawActive \in [Conns -> SUBSET Users]
  /\ sawReach \in [Conns -> SUBSET (Users \X Targets)]

TInv == StoreTypeOK /\ RelayOK /\ WebOK /\ ServiceOK /\ HistoryOK

LEMMA TInvImpliesTypeOK == TInv => TypeOK
  BY DEF TInv, RelayOK, WebOK, ServiceOK, HistoryOK, TypeOK

LEMMA InitTInv == Init => TInv
  BY StoreAssumption, GatewayAssumption
  DEF Init, TInv, RelayOK, WebOK, ServiceOK, HistoryOK, Complete, StoreTypeOK, Statuses,
      PCs, Dec, NoDec, Begin, Web, NoWeb, NoUserYet, NoTargetYet

-----------------------------------------------------------------------------
(* Where a handler goes next. *)

LEMMA BeginTyped ==
  ASSUME NEW path \in {"none", "grant", "token", "login", "jit"}, NEW time \in Nat
  PROVE  Begin(path, time) \in Dec
  BY DEF Begin, Dec

LEMMA NoDecTyped == NoDec \in Dec
  BY BeginTyped DEF NoDec

LEMMA KeyTyped ==
  ASSUME RelayOK, NEW c \in Conns, pc[c] # "idle"
  PROVE  addr[c] \in Addrs /\ Key(c) \in Keys
  BY GatewayAssumption DEF RelayOK, Key

LEMMA AdvanceTyped ==
  ASSUME RelayOK, NEW c \in Conns, pc[c] # "idle",
         NEW l \in PCs \ {"idle"}, NEW d, Complete(l, d), Advance(c, l, d)
  PROVE  RelayOK'
  BY DEF RelayOK, Advance, Goto, Keep, Complete

LEMMA RejectTyped ==
  ASSUME RelayOK, NEW c \in Conns, pc[c] # "idle", Reject(c)
  PROVE  RelayOK'
  BY NoDecTyped DEF RelayOK, Reject, Goto, Keep, Complete, PCs, NoUserYet, NoTargetYet

LEMMA ReturnTyped ==
  ASSUME RelayOK, NEW c \in Conns, pc[c] # "idle", Return(c)
  PROVE  RelayOK'
<1>1. slots' \in [Addrs -> Int]
  BY DEF RelayOK, Return, Release
<1> QED
  BY <1>1, NoDecTyped
  DEF RelayOK, Return, Goto, Keep, Complete, PCs, NoUserYet, NoTargetYet

LEMMA DenyTyped ==
  ASSUME RelayOK, StoreTypeOK, NEW c \in Conns, pc[c] # "idle", Deny(c)
  PROVE  RelayOK'
<1>1. Complete("login", Begin("login", 0))
  BY BeginTyped DEF Complete, NoUserYet, NoTargetYet
<1>2. Complete("hint", Begin("jit", now + HoldTimeout))
  BY BeginTyped, GatewayAssumption DEF Complete, NoUserYet, NoTargetYet, StoreTypeOK
<1> QED
  BY <1>1, <1>2, AdvanceTyped, RejectTyped DEF Deny, PCs

-----------------------------------------------------------------------------
(* What the statements write is typed. *)

LEMMA CreateGrantTyped ==
  ASSUME grants \subseteq Grant, grantSeq \in Nat, now \in Nat,
         NEW u \in Users, NEW t \in Targets, NEW k \in Keys, NEW ttl \in Nat,
         CreateGrant(u, t, k, ttl)
  PROVE  grants' \subseteq Grant /\ grantSeq' \in Nat
<1>1. grantSeq + 1 \in Nat /\ now + ttl \in Nat
  OBVIOUS
<1>2. [id |-> grantSeq + 1, user |-> u, target |-> t, key |-> k,
       expires |-> now + ttl, revoked |-> FALSE] \in Grant
  BY <1>1, Zenon DEF Grant
<1> QED
  BY <1>1, <1>2 DEF CreateGrant

LEMMA ConsumeGrantTyped ==
  ASSUME grants \subseteq Grant, NEW id, NEW until \in Nat, ConsumeGrant(id, until)
  PROVE  grants' \subseteq Grant
  BY DEF ConsumeGrant, Grant, Later

LEMMA RevokeGrantsTyped ==
  ASSUME grants \subseteq Grant, NEW u, RevokeGrantsForUser(u)
  PROVE  grants' \subseteq Grant
  BY DEF RevokeGrantsForUser, Grant

LEMMA CreateRedirectTokenTyped ==
  ASSUME tokens \subseteq Token, now \in Nat, NEW c \in Conns, NEW u \in Users,
         NEW t \in Targets, NEW k \in Keys, NEW ttl \in Nat,
         CreateRedirectToken(c, u, t, k, ttl)
  PROVE  tokens' \subseteq Token
<1>1. now + ttl \in Nat
  OBVIOUS
<1>2. [id |-> c, user |-> u, target |-> t, key |-> k, expires |-> now + ttl,
       used |-> FALSE] \in Token
  BY <1>1, Zenon DEF Token
<1> QED
  BY <1>2 DEF CreateRedirectToken

LEMMA ClaimRedirectTokenTyped ==
  ASSUME tokens \subseteq Token, NEW id, NEW k, ClaimRedirectToken(id, k)
  PROVE  tokens' \subseteq Token
  BY DEF ClaimRedirectToken, Token

LEMMA CreateJITRequestTyped ==
  ASSUME requests \subseteq Request, now \in Nat, NEW c \in Conns, NEW u \in Users,
         NEW t \in Targets, NEW k \in Keys, CreateJITRequest(c, u, t, k)
  PROVE  requests' \subseteq Request
  BY DEF CreateJITRequest, Request

LEMMA SetJITStateTyped ==
  ASSUME requests \subseteq Request, NEW c,
         NEW s \in {"approved", "denied", "timeout"}, SetJITState(c, s)
  PROVE  requests' \subseteq Request
  BY DEF SetJITState, Request

LEMMA OpenRDPSessionTyped ==
  ASSUME rows \subseteq Row, NEW c \in Conns, NEW g \in Nat \cup {None},
         NEW t \in Targets \cup {None}, OpenRDPSession(c, g, t)
  PROVE  rows' \subseteq Row
<1>1. [id |-> c, grant |-> g, target |-> t, open |-> TRUE] \in Row
  BY Zenon DEF Row
<1> QED
  BY <1>1 DEF OpenRDPSession

LEMMA CloseRDPSessionTyped ==
  ASSUME rows \subseteq Row, NEW c, CloseRDPSession(c)
  PROVE  rows' \subseteq Row
  BY DEF CloseRDPSession, Row

LEMMA MarkStaleTyped ==
  ASSUME rows \subseteq Row, MarkStaleSessionsClosed
  PROVE  rows' \subseteq Row
  BY DEF MarkStaleSessionsClosed, Row

LEMMA DetachTyped ==
  ASSUME rows \subseteq Row, NEW S
  PROVE  Detach(S) \subseteq Row
  BY DEF Detach, Row

LEMMA PurgeExpiredTyped == StoreTypeOK /\ PurgeExpired => StoreTypeOK'
  BY DetachTyped DEF StoreTypeOK, PurgeExpired, accounts

LEMMA ExpirePendingJITTyped == StoreTypeOK /\ ExpirePendingJIT => StoreTypeOK'
<1> SUFFICES ASSUME StoreTypeOK, ExpirePendingJIT PROVE StoreTypeOK'
  OBVIOUS
<1>1. requests' \subseteq Request
  BY DEF StoreTypeOK, ExpirePendingJIT, Request
<1> QED
  BY <1>1 DEF StoreTypeOK, ExpirePendingJIT, accounts

LEMMA DeleteUserTyped ==
  ASSUME StoreTypeOK, NEW u \in Users, DeleteUser(u)
  PROVE  StoreTypeOK'
<1>1. rows' \subseteq Row
  BY DetachTyped DEF StoreTypeOK, DeleteUser
<1>2. requests' \subseteq Request
  BY DEF StoreTypeOK, DeleteUser, Request
<1> QED
  BY <1>1, <1>2 DEF StoreTypeOK, DeleteUser, Statuses

LEMMA DeleteTargetTyped ==
  ASSUME StoreTypeOK, NEW t \in Targets, DeleteTarget(t)
  PROVE  StoreTypeOK'
<1>1. rows' \subseteq Row
  <2> DEFINE kept == {g \in grants : g.target # t}
  <2>1. Detach(kept) \subseteq Row
    BY DetachTyped DEF StoreTypeOK
  <2>2. rows' = {IF r.target = t THEN [r EXCEPT !.target = None] ELSE r : r \in Detach(kept)}
    BY DEF DeleteTarget
  <2> QED
    BY <2>1, <2>2 DEF Row
<1>2. requests' \subseteq Request
  BY DEF StoreTypeOK, DeleteTarget, Request
<1> QED
  BY <1>1, <1>2 DEF StoreTypeOK, DeleteTarget
-----------------------------------------------------------------------------
(* A step, by the part of the state it leaves alone. *)

LEMMA StoreFrame == StoreTypeOK /\ UNCHANGED storeVars => StoreTypeOK'
  BY DEF StoreTypeOK, storeVars

LEMMA RelayFrame == RelayOK /\ UNCHANGED relayVars => RelayOK'
  BY DEF RelayOK, relayVars

LEMMA WebFrame == WebOK /\ UNCHANGED web => WebOK'
  BY DEF WebOK

LEMMA ServiceFrame == ServiceOK /\ UNCHANGED service => ServiceOK'
  BY DEF ServiceOK, service

LEMMA HistoryFrame == HistoryOK /\ UNCHANGED history => HistoryOK'
  BY DEF HistoryOK, history

LEMMA QuietTyped == TInv /\ Quiet /\ RelayOK' => TInv'
  BY StoreFrame, WebFrame, ServiceFrame, HistoryFrame DEF TInv, Quiet

\* The relay steps that also write a table.
LEMMA WritingTyped ==
  TInv /\ StoreTypeOK' /\ RelayOK' /\ UNCHANGED <<service, web, history>> => TInv'
  BY WebFrame, ServiceFrame, HistoryFrame DEF TInv

\* The steps of everybody else.
LEMMA OutsideTyped ==
  TInv /\ StoreTypeOK' /\ ServiceOK' /\ UNCHANGED <<relayVars, web, history>> => TInv'
  BY RelayFrame, WebFrame, HistoryFrame DEF TInv

\* The steps that write the outcome of a request.
LEMMA DecideTyped ==
  ASSUME TInv, NEW c \in Conns, NEW s \in {"approved", "denied", "timeout"},
         Decide(c, s), RelayOK', UNCHANGED history
  PROVE  TInv'
<1>1. requests' \subseteq Request
  BY SetJITStateTyped DEF Decide, TInv, StoreTypeOK
<1>2. StoreTypeOK'
  BY <1>1 DEF Decide, TInv, StoreTypeOK, accounts
<1> QED
  BY <1>2, WritingTyped DEF Decide

-----------------------------------------------------------------------------
(* The steps of a connection. *)

LEMMA HandleTyped ==
  ASSUME TInv, NEW c \in Conns, Handle(c)
  PROVE  TInv'
<1> USE DEF TInv
<1>0. RelayOK /\ StoreTypeOK /\ dec[c] \in Dec /\ Complete(pc[c], dec[c])
  BY DEF RelayOK
<1> USE <1>0
<1>1. ASSUME PeekFails(c) PROVE TInv'
  BY <1>1, RejectTyped, QuietTyped DEF PeekFails
<1>2. ASSUME PeekPlain(c) PROVE TInv'
  <2>1. Complete("lookup", Begin("grant", now))
    BY BeginTyped DEF Complete, NoUserYet, NoTargetYet, StoreTypeOK
  <2> QED
    BY <1>2, <2>1, AdvanceTyped, QuietTyped DEF PeekPlain, PCs
<1>3. ASSUME PeekToken(c) PROVE TInv'
  <2>1. PICK t \in {tk.id : tk \in tokens} \cup {None} :
          Advance(c, "claim", [Begin("token", 0) EXCEPT !.token = t])
    BY <1>3 DEF PeekToken
  <2>2. t \in Conns \cup {None}
    BY DEF StoreTypeOK, Token
  <2>3. Complete("claim", [Begin("token", 0) EXCEPT !.token = t])
    BY <2>2, BeginTyped DEF Complete, NoUserYet, NoTargetYet, Dec
  <2> QED
    BY <1>3, <2>1, <2>3, AdvanceTyped, QuietTyped DEF PeekToken, PCs
<1>4. ASSUME LookupFails(c) PROVE TInv'
  BY <1>4, DenyTyped, QuietTyped DEF LookupFails
<1>5. ASSUME ActiveGrant(c) PROVE TInv'
  <2>1. CASE Deny(c)
    BY <1>5, <2>1, DenyTyped, QuietTyped DEF ActiveGrant
  <2>2. CASE \E g \in grants :
               Advance(c, "target", [dec[c] EXCEPT !.grant = g.id,
                                       !.user = g.user, !.target = g.target])
    <3>1. PICK g \in grants :
            Advance(c, "target", [dec[c] EXCEPT !.grant = g.id,
                                    !.user = g.user, !.target = g.target])
      BY <2>2
    <3>2. g.id \in Nat /\ g.user \in Users /\ g.target \in Targets
      BY DEF StoreTypeOK, Grant
    <3>3. Complete("target", [dec[c] EXCEPT !.grant = g.id, !.user = g.user,
                                            !.target = g.target])
      BY <3>2 DEF Complete, Dec
    <3> QED
      BY <1>5, <3>1, <3>3, AdvanceTyped, QuietTyped DEF ActiveGrant, PCs
  <2> QED
    BY <1>5, <2>1, <2>2 DEF ActiveGrant
<1>6. ASSUME ConsumeRedirectToken(c) PROVE TInv'
  <2>1. StoreTypeOK'
    BY <1>6, ClaimRedirectTokenTyped DEF ConsumeRedirectToken, StoreTypeOK, accounts
  <2>2. CASE Deny(c) /\ UNCHANGED spent
    <3>1. RelayOK'
      BY <1>6, <2>2, DenyTyped DEF ConsumeRedirectToken
    <3> QED
      BY <1>6, <2>1, <2>2, <3>1, WritingTyped DEF ConsumeRedirectToken, history
  <2>3. CASE \E tk \in tokens :
               /\ Advance(c, "target", [dec[c] EXCEPT !.user = tk.user,
                                                      !.target = tk.target])
               /\ spent' = [spent EXCEPT ![tk.id] = @ \cup {c}]
    <3>1. PICK tk \in tokens :
            /\ Advance(c, "target", [dec[c] EXCEPT !.user = tk.user,
                                                   !.target = tk.target])
            /\ spent' = [spent EXCEPT ![tk.id] = @ \cup {c}]
      BY <2>3
    <3>2. tk.id \in Conns /\ tk.user \in Users /\ tk.target \in Targets
      BY DEF StoreTypeOK, Token
    <3>3. Complete("target", [dec[c] EXCEPT !.user = tk.user, !.target = tk.target])
      BY <3>2 DEF Complete, Dec
    <3>4. RelayOK'
      BY <1>6, <3>1, <3>3, AdvanceTyped DEF ConsumeRedirectToken, PCs
    <3>5. HistoryOK'
      BY <1>6, <3>1, <3>2 DEF ConsumeRedirectToken, HistoryOK
    <3> QED
      BY <1>6, <2>1, <3>4, <3>5, WebFrame, ServiceFrame DEF ConsumeRedirectToken
  <2> QED
    BY <1>6, <2>2, <2>3 DEF ConsumeRedirectToken
<1>7. ASSUME TargetByID(c) PROVE TInv'
  BY <1>7, DenyTyped, AdvanceTyped, QuietTyped
  DEF TargetByID, PCs, Complete, NoUserYet, NoTargetYet
<1>8. ASSUME UserByID(c) PROVE TInv'
  BY <1>8, DenyTyped, AdvanceTyped, QuietTyped
  DEF UserByID, PCs, Complete, NoUserYet, NoTargetYet
<1>9. ASSUME CheckReach(c) PROVE TInv'
  <2>1. RelayOK'
    BY <1>9, DenyTyped, AdvanceTyped DEF CheckReach, PCs, Complete, NoUserYet, NoTargetYet
  <2> QED
    BY <1>9, <2>1, QuietTyped DEF CheckReach
<1>10. ASSUME MarkConsumed(c) PROVE TInv'
  <2>1. pc[c] = "consume" /\ Advance(c, "dial", dec[c])
    BY <1>10 DEF MarkConsumed
  <2>2. RelayOK'
    BY <2>1, AdvanceTyped DEF PCs, Complete, NoUserYet, NoTargetYet
  <2>3. dec[c].at + ReuseWindow \in Nat
    BY GatewayAssumption DEF Dec
  <2>4. grants' \subseteq Grant
    BY <1>10, <2>3, ConsumeGrantTyped DEF MarkConsumed, StoreTypeOK
  <2>5. StoreTypeOK'
    BY <1>10, <2>4 DEF MarkConsumed, StoreTypeOK, accounts
  <2> QED
    BY <1>10, <2>2, <2>5, WritingTyped DEF MarkConsumed
<1>11. ASSUME IssueFollowOn(c) PROVE TInv'
  <2>1. pc[c] = "issue" /\ dec[c].user \in Users /\ dec[c].target \in Targets
    BY <1>11 DEF IssueFollowOn, Complete, NoUserYet, NoTargetYet
  <2>2. Key(c) \in Keys
    BY <2>1, KeyTyped
  <2>3. /\ grants' \subseteq Grant /\ grantSeq' \in Nat
        /\ \E g \in Nat \cup {None} : Advance(c, "dial", [dec[c] EXCEPT !.grant = g])
    <3>1. CASE /\ CreateGrant(dec[c].user, dec[c].target, Key(c), ReuseWindow)
               /\ Advance(c, "dial", [dec[c] EXCEPT !.grant = grantSeq'])
      BY <2>1, <2>2, <3>1, CreateGrantTyped, GatewayAssumption DEF StoreTypeOK
    <3>2. CASE /\ Advance(c, "dial", [dec[c] EXCEPT !.grant = None])
               /\ UNCHANGED <<grants, grantSeq>>
      BY <3>2 DEF StoreTypeOK
    <3> QED
      BY <1>11, <3>1, <3>2 DEF IssueFollowOn
  <2>4. PICK g \in Nat \cup {None} : Advance(c, "dial", [dec[c] EXCEPT !.grant = g])
    BY <2>3
  <2>5. Complete("dial", [dec[c] EXCEPT !.grant = g])
    BY <2>1 DEF Complete, Dec
  <2>6. RelayOK'
    BY <2>1, <2>4, <2>5, AdvanceTyped DEF PCs
  <2>7. StoreTypeOK'
    BY <1>11, <2>3 DEF IssueFollowOn, StoreTypeOK, accounts
  <2> QED
    BY <1>11, <2>6, <2>7, WritingTyped DEF IssueFollowOn
<1>12. ASSUME LoginRefused(c) PROVE TInv'
  BY <1>12, ReturnTyped, QuietTyped DEF LoginRefused
<1>13. ASSUME LoginIdentifies(c) PROVE TInv'
  <2>1. PICK u \in Users : Advance(c, "factor", [dec[c] EXCEPT !.user = u])
    BY <1>13 DEF LoginIdentifies
  <2>2. Complete("factor", [dec[c] EXCEPT !.user = u])
    BY DEF Complete, Dec, NoUserYet, NoTargetYet
  <2> QED
    BY <1>13, <2>1, <2>2, AdvanceTyped, QuietTyped DEF LoginIdentifies, PCs
<1>14. ASSUME LoginFactor(c) PROVE TInv'
  <2>1. pc[c] = "factor" /\ dec[c].user \in Users /\ Key(c) \in Keys
    BY <1>14, KeyTyped DEF LoginFactor, Complete, NoUserYet
  <2>2. RelayOK'
    BY <1>14, <2>1, AdvanceTyped DEF LoginFactor, PCs, Complete, NoUserYet, NoTargetYet
  <2>3. HistoryOK'
    BY <1>14, <2>1 DEF LoginFactor, HistoryOK
  <2> QED
    BY <1>14, <2>2, <2>3, StoreFrame, WebFrame, ServiceFrame DEF LoginFactor
<1>15. ASSUME TargetFor(c) PROVE TInv'
  <2>1. PICK t \in Targets : Advance(c, "wake", [dec[c] EXCEPT !.target = t])
    BY <1>15 DEF TargetFor
  <2>2. Complete("wake", [dec[c] EXCEPT !.target = t])
    BY <1>15 DEF TargetFor, Complete, Dec, NoUserYet
  <2> QED
    BY <1>15, <2>1, <2>2, AdvanceTyped, QuietTyped DEF TargetFor, PCs
<1>16. ASSUME LoginAwake(c) PROVE TInv'
  BY <1>16, AdvanceTyped, QuietTyped DEF LoginAwake, PCs, Complete, NoUserYet, NoTargetYet
<1>17. ASSUME MintToken(c) PROVE TInv'
  <2>1. /\ pc[c] = "mint" /\ Key(c) \in Keys
        /\ dec[c].user \in Users /\ dec[c].target \in Targets
    BY <1>17, KeyTyped DEF MintToken, Complete, NoUserYet, NoTargetYet
  <2>2. tokens' \subseteq Token
    BY <1>17, <2>1, CreateRedirectTokenTyped, GatewayAssumption DEF MintToken, StoreTypeOK
  <2>3. StoreTypeOK'
    BY <1>17, <2>2 DEF MintToken, StoreTypeOK, accounts
  <2>4. RelayOK'
    BY <1>17, ReturnTyped DEF MintToken
  <2> QED
    BY <1>17, <2>3, <2>4, WritingTyped DEF MintToken
<1>18. ASSUME ReviewRefused(c) PROVE TInv'
  BY <1>18, RejectTyped, QuietTyped DEF ReviewRefused
<1>19. ASSUME UserByRDPHint(c) PROVE TInv'
  <2>1. PICK u \in Users : Advance(c, "jitpick", [dec[c] EXCEPT !.user = u])
    BY <1>19 DEF UserByRDPHint
  <2>2. Complete("jitpick", [dec[c] EXCEPT !.user = u])
    BY DEF Complete, Dec, NoUserYet, NoTargetYet
  <2> QED
    BY <1>19, <2>1, <2>2, AdvanceTyped, QuietTyped DEF UserByRDPHint, PCs
<1>20. ASSUME JITTarget(c) PROVE TInv'
  <2>1. PICK t \in Targets : Advance(c, "jitreach", [dec[c] EXCEPT !.target = t])
    BY <1>20 DEF JITTarget
  <2>2. Complete("jitreach", [dec[c] EXCEPT !.target = t])
    BY <1>20 DEF JITTarget, Complete, Dec, NoUserYet
  <2> QED
    BY <1>20, <2>1, <2>2, AdvanceTyped, QuietTyped DEF JITTarget, PCs
<1>21. ASSUME ReviewReach(c) PROVE TInv'
  BY <1>21, AdvanceTyped, QuietTyped DEF ReviewReach, PCs, Complete, NoUserYet, NoTargetYet
<1>22. ASSUME RecordRequest(c) PROVE TInv'
  <2>1. /\ pc[c] = "jitcreate" /\ Key(c) \in Keys
        /\ dec[c].user \in Users /\ dec[c].target \in Targets
    BY <1>22, KeyTyped DEF RecordRequest, Complete, NoUserYet, NoTargetYet
  <2>2. requests' \subseteq Request
    BY <1>22, <2>1, CreateJITRequestTyped DEF RecordRequest, StoreTypeOK
  <2>3. StoreTypeOK'
    BY <1>22, <2>2 DEF RecordRequest, StoreTypeOK, accounts
  <2>4. RelayOK'
    BY <1>22, <2>1, AdvanceTyped DEF RecordRequest, PCs, Complete
  <2> QED
    BY <1>22, <2>3, <2>4, WritingTyped DEF RecordRequest
<1>23. ASSUME ApprovalTimesOut(c) PROVE TInv'
  BY <1>23, RejectTyped, DecideTyped DEF ApprovalTimesOut
<1>24. ASSUME ReviewReady(c) PROVE TInv'
  BY <1>24, AdvanceTyped, QuietTyped DEF ReviewReady, PCs, Complete, NoUserYet, NoTargetYet
<1>25. ASSUME DidNotWake(c) PROVE TInv'
  BY <1>25, RejectTyped, DecideTyped DEF DidNotWake
<1>26. ASSUME IssueJIT(c) PROVE TInv'
  <2>1. /\ pc[c] = "jitissue" /\ Key(c) \in Keys
        /\ dec[c].user \in Users /\ dec[c].target \in Targets
    BY <1>26, KeyTyped DEF IssueJIT, Complete, NoUserYet, NoTargetYet
  <2>2. grants' \subseteq Grant /\ grantSeq' \in Nat /\ RelayOK'
    <3>1. CASE /\ CreateGrant(dec[c].user, dec[c].target, Key(c), GrantTTL)
               /\ Advance(c, "jitmark", [dec[c] EXCEPT !.grant = grantSeq'])
      <4>1. grants' \subseteq Grant /\ grantSeq' \in Nat
        BY <2>1, <3>1, CreateGrantTyped, GatewayAssumption DEF StoreTypeOK
      <4>2. Complete("jitmark", [dec[c] EXCEPT !.grant = grantSeq'])
        BY <2>1, <4>1 DEF Complete, Dec
      <4> QED
        BY <2>1, <3>1, <4>1, <4>2, AdvanceTyped DEF PCs
    <3>2. CASE Reject(c) /\ UNCHANGED <<grants, grantSeq>>
      BY <2>1, <3>2, RejectTyped DEF StoreTypeOK
    <3> QED
      BY <1>26, <3>1, <3>2 DEF IssueJIT
  <2>3. StoreTypeOK'
    BY <1>26, <2>2 DEF IssueJIT, StoreTypeOK, accounts
  <2> QED
    BY <1>26, <2>2, <2>3, WritingTyped DEF IssueJIT
<1>27. ASSUME MarkApproved(c) PROVE TInv'
  <2>1. RelayOK'
    BY <1>27, AdvanceTyped DEF MarkApproved, PCs, Complete, NoUserYet, NoTargetYet
  <2> QED
    BY <1>27, <2>1, DecideTyped DEF MarkApproved
<1>28. ASSUME DialOK(c) PROVE TInv'
  BY <1>28, AdvanceTyped, QuietTyped DEF DialOK, PCs, Complete, NoUserYet, NoTargetYet
<1>29. ASSUME DialFails(c) PROVE TInv'
  BY <1>29, ReturnTyped, QuietTyped DEF DialFails
<1>30. ASSUME Opened(c) PROVE TInv'
  <2>1. RelayOK'
    BY <1>30, AdvanceTyped DEF Opened, PCs, Complete, NoUserYet, NoTargetYet
  <2>2. rows' \subseteq Row
    BY <1>30, OpenRDPSessionTyped DEF Opened, Dec, StoreTypeOK
  <2>3. StoreTypeOK'
    BY <1>30, <2>2 DEF Opened, StoreTypeOK, accounts
  <2> QED
    BY <1>30, <2>1, <2>3, WritingTyped DEF Opened
<1>31. ASSUME Closed(c) PROVE TInv'
  <2>1. StoreTypeOK'
    BY <1>31, CloseRDPSessionTyped DEF Closed, StoreTypeOK, accounts
  <2>2. RelayOK'
    BY <1>31, ReturnTyped DEF Closed
  <2> QED
    BY <1>31, <2>1, <2>2, WritingTyped DEF Closed
<1>32. ASSUME TarpitEnds(c) PROVE TInv'
  BY <1>32, ReturnTyped, QuietTyped DEF TarpitEnds
<1> QED
  BY <1>1, <1>2, <1>3, <1>4, <1>5, <1>6, <1>7, <1>8, <1>9, <1>10, <1>11, <1>12, <1>13,
     <1>14, <1>15, <1>16, <1>17, <1>18, <1>19, <1>20, <1>21, <1>22, <1>23, <1>24, <1>25,
     <1>26, <1>27, <1>28, <1>29, <1>30, <1>31, <1>32 DEF Handle

LEMMA ClientTyped ==
  ASSUME TInv, NEW c \in Conns,
         (\E a \in Addrs : Connect(c, a)) \/ Approved(c) \/ Declined(c) \/ PumpEnds(c)
  PROVE  TInv'
<1> USE DEF TInv
<1>1. ASSUME NEW a \in Addrs, Connect(c, a) PROVE TInv'
  <2>1. slots' \in [Addrs -> Int]
    BY <1>1 DEF Connect, Acquire, RelayOK
  <2>2. /\ addr' = [addr EXCEPT ![c] = a] /\ UNCHANGED dec /\ pc[c] = "idle"
        /\ pc' = [pc EXCEPT ![c] = "peek"] \/ pc' = [pc EXCEPT ![c] = "done"]
    BY <1>1 DEF Connect, Goto
  <2>3. RelayOK'
    BY <2>1, <2>2, GatewayAssumption DEF RelayOK, Complete, PCs, NoUserYet, NoTargetYet
  <2>4. HistoryOK'
    BY <1>1 DEF Connect, HistoryOK, StoreTypeOK
  <2> QED
    BY <1>1, <2>3, <2>4, StoreFrame, WebFrame, ServiceFrame DEF Connect
<1>2. ASSUME Approved(c) PROVE TInv'
  <2>1. pc[c] = "ask" /\ dec[c].user \in Users /\ Key(c) \in Keys /\ Complete("ask", dec[c])
    BY <1>2, KeyTyped DEF Approved, RelayOK, Complete, NoUserYet
  <2>2. RelayOK'
    BY <1>2, <2>1, AdvanceTyped DEF Approved, PCs, Complete, NoUserYet, NoTargetYet
  <2>3. HistoryOK'
    BY <1>2, <2>1 DEF Approved, HistoryOK
  <2> QED
    BY <1>2, <2>2, <2>3, StoreFrame, WebFrame, ServiceFrame DEF Approved
<1>3. ASSUME Declined(c) PROVE TInv'
  BY <1>3, RejectTyped, DecideTyped DEF Declined
<1>4. ASSUME PumpEnds(c) PROVE TInv'
  <2>1. Complete("close", dec[c])
    BY <1>4 DEF PumpEnds, RelayOK, Complete, NoUserYet, NoTargetYet
  <2> QED
    BY <1>4, <2>1, AdvanceTyped, QuietTyped DEF PumpEnds, PCs
<1> QED
  BY <1>1, <1>2, <1>3, <1>4

-----------------------------------------------------------------------------
(* The portal, the administrator and the service. *)

LEMMA PortalTyped ==
  ASSUME TInv, NEW r \in Reqs, UnlockBegins(r) \/ Unlock(r)
  PROVE  TInv'
<1> USE DEF TInv
<1>1. ASSUME UnlockBegins(r) PROVE TInv'
  <2>1. PICK u \in Users, t \in Targets, a \in Addrs :
          /\ web' = [web EXCEPT ![r] = [pc |-> "reach", user |-> u, target |-> t,
                                        addr |-> a]]
          /\ mfa' = mfa \cup {<<u, KeyOf[a]>>}
    BY <1>1 DEF UnlockBegins
  <2>2. WebOK'
    BY <2>1 DEF WebOK, Web
  <2>3. HistoryOK'
    BY <1>1, <2>1, GatewayAssumption DEF UnlockBegins, HistoryOK
  <2> QED
    BY <1>1, <2>2, <2>3, StoreFrame, RelayFrame, ServiceFrame DEF UnlockBegins
<1>2. ASSUME NEW l \in {"reach", "load", "issue", "done"}, UnlockGoto(r, l),
             web[r].pc \in {"reach", "load", "issue"}
      PROVE  WebOK'
  BY <1>2 DEF UnlockGoto, WebOK, Web
<1>3. ASSUME UnlockReach(r) PROVE TInv'
  BY <1>2, <1>3, StoreFrame, RelayFrame, ServiceFrame, HistoryFrame DEF UnlockReach
<1>4. ASSUME UnlockLoad(r) PROVE TInv'
  BY <1>2, <1>4, StoreFrame, RelayFrame, ServiceFrame, HistoryFrame DEF UnlockLoad
<1>5. ASSUME UnlockIssue(r) PROVE TInv'
  <2>1. web[r].user \in Users /\ web[r].target \in Targets /\ web[r].addr \in Addrs
    BY <1>5 DEF UnlockIssue, WebOK
  <2>2. KeyOf[web[r].addr] \in Keys
    BY <2>1, GatewayAssumption
  <2>3. grants' \subseteq Grant /\ grantSeq' \in Nat
    BY <1>5, <2>1, <2>2, CreateGrantTyped, GatewayAssumption DEF UnlockIssue, StoreTypeOK
  <2>4. StoreTypeOK'
    BY <1>5, <2>3 DEF UnlockIssue, StoreTypeOK, accounts
  <2> QED
    BY <1>2, <1>5, <2>4, RelayFrame, ServiceFrame, HistoryFrame DEF UnlockIssue
<1> QED
  BY <1>1, <1>3, <1>4, <1>5 DEF Unlock

LEMMA ObserveTyped ==
  HistoryOK /\ reach' \subseteq Users \X Targets /\ Observe => HistoryOK'
  BY DEF HistoryOK, Observe

LEMMA AdministerTyped == TInv /\ Administer => TInv'
<1> SUFFICES ASSUME TInv, Administer PROVE TInv'
  OBVIOUS
<1> USE DEF TInv
<1>1. ASSUME NEW u \in Users, NEW s \in {"active", "locked", "disabled"}, SetStatus(u, s)
      PROVE  TInv'
  <2>1. StoreTypeOK'
    BY <1>1 DEF SetStatus, SetUserStatus, StoreTypeOK, Statuses, tables
  <2>2. ServiceOK'
    BY <1>1 DEF SetStatus, ServiceOK
  <2>3. HistoryOK'
    BY <1>1, <2>1, ObserveTyped DEF SetStatus, StoreTypeOK
  <2> QED
    BY <1>1, <2>1, <2>2, <2>3, RelayFrame, WebFrame DEF SetStatus
<1>2. ASSUME NEW u \in Users, RevokeGrants(u) PROVE TInv'
  <2>1. StoreTypeOK'
    BY <1>2, RevokeGrantsTyped DEF RevokeGrants, StoreTypeOK, accounts
  <2>2. ServiceOK'
    BY <1>2 DEF RevokeGrants, ServiceOK
  <2> QED
    BY <1>2, <2>1, <2>2, OutsideTyped DEF RevokeGrants
<1>3. ASSUME NEW u \in Users, RemoveUser(u) PROVE TInv'
  BY <1>3, DeleteUserTyped, ServiceFrame, OutsideTyped DEF RemoveUser
<1>4. ASSUME NEW u \in Users, NEW t \in Targets, GrantAccess(u, t) PROVE TInv'
  <2>1. StoreTypeOK'
    BY <1>4 DEF GrantAccess, GrantTargetAccess, StoreTypeOK, tables
  <2>2. HistoryOK'
    BY <1>4, <2>1, ObserveTyped DEF GrantAccess, StoreTypeOK
  <2> QED
    BY <1>4, <2>1, <2>2, RelayFrame, WebFrame, ServiceFrame DEF GrantAccess
<1>5. ASSUME NEW u \in Users, NEW t \in Targets, RevokeAccess(u, t) PROVE TInv'
  <2>1. StoreTypeOK'
    BY <1>5 DEF RevokeAccess, RevokeTargetAccess, StoreTypeOK, tables
  <2>2. ServiceOK'
    BY <1>5 DEF RevokeAccess, ServiceOK
  <2> QED
    BY <1>5, <2>1, <2>2, OutsideTyped DEF RevokeAccess
<1>6. ASSUME NEW t \in Targets, RemoveTarget(t) PROVE TInv'
  BY <1>6, DeleteTargetTyped, ServiceFrame, OutsideTyped DEF RemoveTarget
<1>7. ASSUME NEW c \in Conns, SessionKick(c) PROVE TInv'
  <2>1. StoreTypeOK'
    BY <1>7, CloseRDPSessionTyped DEF SessionKick, StoreTypeOK, accounts
  <2> QED
    BY <1>7, <2>1, ServiceFrame, OutsideTyped DEF SessionKick
<1> QED
  BY <1>1, <1>2, <1>3, <1>4, <1>5, <1>6, <1>7 DEF Administer

LEMMA ServiceTyped == TInv /\ (Purge \/ Sweep \/ Tick \/ Stop \/ Start) => TInv'
<1> SUFFICES ASSUME TInv, Purge \/ Sweep \/ Tick \/ Stop \/ Start PROVE TInv'
  OBVIOUS
<1> USE DEF TInv
<1>1. ASSUME Purge PROVE TInv'
  BY <1>1, PurgeExpiredTyped, ServiceFrame, OutsideTyped DEF Purge
<1>2. ASSUME Sweep PROVE TInv'
  BY <1>2, ExpirePendingJITTyped, ServiceFrame, OutsideTyped DEF Sweep
<1>3. ASSUME Tick PROVE TInv'
  <2>1. StoreTypeOK'
    BY <1>3 DEF Tick, StoreTypeOK, accounts, tables
  <2> QED
    BY <1>3, <2>1, ServiceFrame, OutsideTyped DEF Tick
<1>4. ASSUME Stop PROVE TInv'
  <2>1. RelayOK'
    BY <1>4, NoDecTyped DEF Stop, RelayOK, Complete, PCs, NoUserYet, NoTargetYet
  <2>2. WebOK'
    BY <1>4 DEF Stop, WebOK, Web
  <2>3. ServiceOK'
    <3>1. stops' \in Nat
      BY <1>4 DEF Stop, ServiceOK
    <3>2. up' \in BOOLEAN /\ revoking' = {}
      BY <1>4, Zenon DEF Stop
    <3> QED
      BY <3>1, <3>2 DEF ServiceOK
  <2> QED
    BY <1>4, <2>1, <2>2, <2>3, StoreFrame, HistoryFrame DEF Stop
<1>5. ASSUME Start PROVE TInv'
  <2>1. StoreTypeOK'
    BY <1>5, MarkStaleTyped DEF Start, StoreTypeOK, accounts
  <2>2. ServiceOK'
    BY <1>5 DEF Start, ServiceOK
  <2> QED
    BY <1>5, <2>1, <2>2, OutsideTyped DEF Start
<1> QED
  BY <1>1, <1>2, <1>3, <1>4, <1>5

LEMMA StepTInv == TInv /\ [Next]_vars => TInv'
<1>1. TInv /\ UNCHANGED vars => TInv'
  BY StoreFrame, RelayFrame, WebFrame, ServiceFrame, HistoryFrame DEF TInv, vars
<1> QED
  BY <1>1, HandleTyped, ClientTyped, PortalTyped, AdministerTyped, ServiceTyped DEF Next

\* Every row the handlers and the administrator write, and everything a handler
\* remembers between two statements, is of its type, whatever the interleaving.
THEOREM TypeCorrect == Spec => []TypeOK
<1>1. Spec => []TInv
  BY InitTInv, StepTInv, PTL DEF Spec
<1> QED
  BY <1>1, TInvImpliesTypeOK, PTL

-----------------------------------------------------------------------------
(***************************************************************************)
(* Who gets in: the theorems behind ForwardedPassedMFA, NoEntryWhileBarred *)
(* and WindowBounded.  The three share one inductive invariant, because    *)
(* what a connection may rely on at the end is what the rows it read, the  *)
(* checks it passed and the time it noted said on the way.                 *)
(***************************************************************************)

\* Where a handler must already have it in writing that its account proved itself,
Proven == {"target", "user", "reach", "consume", "issue", "pick", "wake", "mint",
           "boot", "jitissue", "jitmark", "dial", "open", "pump", "close"}

\* was seen active since the connection arrived,
SeenActive == {"reach", "consume", "issue", "jitpick", "jitreach", "jitcreate", "ask",
               "boot", "jitissue", "jitmark", "dial", "open", "pump", "close"}

\* and was seen to reach its machine;
SeenReach == {"consume", "issue", "jitcreate", "ask", "boot", "jitissue", "jitmark",
              "dial", "open", "pump", "close"}

\* and where the time in its record is one it has read.
Timed == {"lookup", "claim", "target", "user", "reach", "consume"}

Justified(c, l, d) ==
  /\ l \in Proven => <<d.user, Key(c)>> \in mfa
  /\ l \in SeenActive => d.user \in sawActive[c]
  /\ l \in SeenReach => d.user \in Admins \/ <<d.user, d.target>> \in sawReach[c]
  /\ l \in Timed => d.at <= now

RelayJustified == \A c \in Conns : Justified(c, pc[c], dec[c])

\* Whatever is true of accounts now, a held connection could have seen.
Watching ==
  \A c \in Conns : Held(c) => /\ \A u \in Users : IsActive(u) => u \in sawActive[c]
                              /\ reach \subseteq sawReach[c]

GrantsJustified ==
  \A g \in grants : /\ <<g.user, g.key>> \in mfa
                    /\ g.expires <= now + Later(GrantTTL, ReuseWindow)

TokensJustified == \A tk \in tokens : <<tk.user, tk.key>> \in mfa

WebJustified ==
  \A r \in Reqs : web[r].pc \in {"reach", "load", "issue"} =>
    <<web[r].user, KeyOf[web[r].addr]>> \in mfa

SInv == RelayJustified /\ Watching /\ GrantsJustified /\ TokensJustified /\ WebJustified

LEMMA InitSInv == Init => SInv
  BY DEF Init, SInv, RelayJustified, Justified, Watching, Held, GrantsJustified,
         TokensJustified, WebJustified, NoWeb, Proven, SeenActive, SeenReach, Timed

LEMMA SInvImplies ==
  TInv /\ SInv => ForwardedPassedMFA /\ NoEntryWhileBarred /\ WindowBounded
  BY DEF SInv, RelayJustified, Justified, GrantsJustified, ForwardedPassedMFA,
         NoEntryWhileBarred, WindowBounded, Admitted, Forwarded, Proven, SeenActive,
         SeenReach

-----------------------------------------------------------------------------
(* The parts of the invariant, one at a time. *)

LEMMA AdvanceJustified ==
  ASSUME RelayOK, RelayJustified, NEW c \in Conns, UNCHANGED <<mfa, sawActive, sawReach, now>>,
         NEW l, NEW d, Justified(c, l, d), Advance(c, l, d)
  PROVE  RelayJustified'
  BY DEF RelayOK, RelayJustified, Justified, Key, Advance, Goto, Keep

LEMMA LeaveJustified ==
  ASSUME RelayOK, RelayJustified, NEW c \in Conns, UNCHANGED <<mfa, sawActive, sawReach, now>>,
         Reject(c) \/ Return(c)
  PROVE  RelayJustified'
  BY DEF RelayOK, RelayJustified, Justified, Key, Reject, Return, Goto, Keep,
         Proven, SeenActive, SeenReach, Timed

LEMMA DenyJustified ==
  ASSUME RelayOK, RelayJustified, NEW c \in Conns, UNCHANGED <<mfa, sawActive, sawReach, now>>,
         Deny(c)
  PROVE  RelayJustified'
<1>1. \A d : Justified(c, "login", d) /\ Justified(c, "hint", d)
  BY DEF Justified, Proven, SeenActive, SeenReach, Timed
<1> QED
  BY <1>1, AdvanceJustified, LeaveJustified DEF Deny

LEMMA RelayJustifiedFrame ==
  ASSUME RelayJustified, UNCHANGED relayVars, now \in Nat, now' \in Nat, now <= now',
         mfa \subseteq mfa', RelayOK,
         \A c \in Conns : sawActive[c] \subseteq sawActive'[c] /\ sawReach[c] \subseteq sawReach'[c]
  PROVE  RelayJustified'
<1> SUFFICES ASSUME NEW c \in Conns PROVE Justified(c, pc[c], dec[c])'
  BY DEF RelayJustified
<1>1. Justified(c, pc[c], dec[c]) /\ pc'[c] = pc[c] /\ dec'[c] = dec[c] /\ Key(c)' = Key(c)
  BY DEF RelayJustified, relayVars, Key
<1>2. dec[c].at \in Nat
  BY DEF RelayOK, Complete, Dec
<1>3. dec[c].at <= now => dec[c].at <= now'
  BY <1>2
<1>4. <<dec[c].user, Key(c)>> \in mfa => <<dec[c].user, Key(c)>> \in mfa'
  OBVIOUS
<1> QED
  BY <1>1, <1>3, <1>4 DEF Justified

LEMMA GrantsFrame ==
  ASSUME TInv, GrantsJustified, UNCHANGED grants, now' \in Nat, now <= now', mfa \subseteq mfa'
  PROVE  GrantsJustified'
<1> SUFFICES ASSUME NEW g \in grants
             PROVE  /\ <<g.user, g.key>> \in mfa'
                    /\ g.expires <= now' + Later(GrantTTL, ReuseWindow)
  BY DEF GrantsJustified
<1>1. g.expires \in Nat /\ now \in Nat /\ Later(GrantTTL, ReuseWindow) \in Nat
  BY GatewayAssumption DEF TInv, StoreTypeOK, Grant, Later
<1>2. <<g.user, g.key>> \in mfa /\ g.expires <= now + Later(GrantTTL, ReuseWindow)
  BY DEF GrantsJustified
<1>3. g.expires <= now' + Later(GrantTTL, ReuseWindow)
  BY <1>1, <1>2
<1> QED
  BY <1>2, <1>3

\* Fewer grants, or grants revoked: nothing new to justify.
LEMMA GrantsShrink ==
  ASSUME TInv, GrantsJustified, UNCHANGED <<now, mfa>>,
         \A g \in grants' : \E h \in grants :
           g.user = h.user /\ g.key = h.key /\ g.expires = h.expires
  PROVE  GrantsJustified'
  BY DEF GrantsJustified

LEMMA CreateGrantJustified ==
  ASSUME TInv, GrantsJustified, UNCHANGED <<now, mfa>>, NEW u \in Users, NEW t \in Targets,
         NEW k \in Keys, <<u, k>> \in mfa, NEW ttl \in {GrantTTL, ReuseWindow},
         CreateGrant(u, t, k, ttl)
  PROVE  GrantsJustified'
<1> DEFINE new == [id |-> grantSeq + 1, user |-> u, target |-> t, key |-> k,
                   expires |-> now + ttl, revoked |-> FALSE]
<1>1. grants' = grants \cup {new}
  BY DEF CreateGrant
<1>2. new.user = u /\ new.key = k /\ new.expires = now + ttl
  OBVIOUS
<1>3. ttl <= Later(GrantTTL, ReuseWindow) /\ ttl \in Nat /\ Later(GrantTTL, ReuseWindow) \in Nat
  BY GatewayAssumption DEF Later
<1>4. now + ttl <= now + Later(GrantTTL, ReuseWindow)
  BY <1>3 DEF TInv, StoreTypeOK
<1> HIDE DEF new
<1> QED
  BY <1>1, <1>2, <1>4 DEF GrantsJustified

LEMMA ConsumeGrantJustified ==
  ASSUME TInv, GrantsJustified, UNCHANGED <<now, mfa>>, NEW id, NEW at \in Nat, at <= now,
         ConsumeGrant(id, at + ReuseWindow)
  PROVE  GrantsJustified'
<1> SUFFICES ASSUME NEW g \in grants'
             PROVE  /\ <<g.user, g.key>> \in mfa
                    /\ g.expires <= now + Later(GrantTTL, ReuseWindow)
  BY DEF GrantsJustified
<1>1. PICK h \in grants :
        \/ g = h
        \/ g = [h EXCEPT !.expires = Later(h.expires, at + ReuseWindow)]
  BY DEF ConsumeGrant
<1>2. h \in Grant
  BY DEF TInv, StoreTypeOK
<1>3. g.user = h.user /\ g.key = h.key
  BY <1>1, <1>2 DEF Grant
<1>4. g.expires = h.expires \/ g.expires = Later(h.expires, at + ReuseWindow)
  BY <1>1, <1>2 DEF Grant
<1>5. <<h.user, h.key>> \in mfa /\ h.expires <= now + Later(GrantTTL, ReuseWindow)
  BY DEF GrantsJustified
<1>6. g.expires <= now + Later(GrantTTL, ReuseWindow)
  BY <1>2, <1>4, <1>5, GatewayAssumption DEF Later, Grant, TInv, StoreTypeOK
<1> QED
  BY <1>3, <1>5, <1>6

LEMMA TokensFrame ==
  ASSUME TInv, TokensJustified, mfa \subseteq mfa',
         \A tk \in tokens' : \E other \in tokens : tk.user = other.user /\ tk.key = other.key
  PROVE  TokensJustified'
  BY DEF TokensJustified

LEMMA CreateTokenJustified ==
  ASSUME TokensJustified, UNCHANGED mfa, NEW c, NEW u, NEW t, NEW k, <<u, k>> \in mfa,
         CreateRedirectToken(c, u, t, k, RedirectTTL)
  PROVE  TokensJustified'
<1> DEFINE new == [id |-> c, user |-> u, target |-> t, key |-> k,
                   expires |-> now + RedirectTTL, used |-> FALSE]
<1>1. tokens' = tokens \cup {new}
  BY Zenon DEF CreateRedirectToken
<1>2. new.user = u /\ new.key = k
  BY Zenon
<1> HIDE DEF new
<1> QED
  BY <1>1, <1>2 DEF TokensJustified

Moves(c) == pc' = [pc EXCEPT ![c] = pc'[c]] /\ UNCHANGED addr

LEMMA HandlerMoves ==
  ASSUME RelayOK, NEW c \in Conns,
         (\E l, d : Advance(c, l, d)) \/ Reject(c) \/ Return(c) \/ Deny(c)
  PROVE  Moves(c)
  BY DEF RelayOK, Moves, Advance, Reject, Return, Deny, Goto

\* What every step of a connection leaves in order.
LEMMA HandlerRest ==
  ASSUME TInv, SInv, NEW c \in Conns, Held(c), Moves(c),
         UNCHANGED <<accounts, web, sawActive, sawReach>>, mfa \subseteq mfa',
         RelayJustified', GrantsJustified', TokensJustified'
  PROVE  SInv'
<1>1. WebJustified'
  BY DEF SInv, WebJustified
<1>2. Watching'
  BY DEF SInv, Watching, Held, IsActive, accounts, Moves, TInv, RelayOK
<1> QED
  BY <1>1, <1>2 DEF SInv

LEMMA QuietRest ==
  ASSUME TInv, SInv, NEW c \in Conns, Held(c), Moves(c), Quiet, RelayJustified'
  PROVE  SInv'
<1>1. GrantsJustified' /\ TokensJustified'
  BY DEF SInv, GrantsJustified, TokensJustified, Quiet, storeVars, history
<1> QED
  BY <1>1, HandlerRest DEF Quiet, storeVars, accounts, history

-----------------------------------------------------------------------------
(* The steps of a connection. *)

LEMMA HandleJustified ==
  ASSUME TInv, SInv, NEW c \in Conns, Handle(c)
  PROVE  SInv'
<1> USE DEF Proven, SeenActive, SeenReach, Timed
<1>0. /\ RelayOK /\ StoreTypeOK /\ dec[c] \in Dec /\ Complete(pc[c], dec[c])
      /\ Justified(c, pc[c], dec[c]) /\ RelayJustified
  BY DEF TInv, RelayOK, SInv, RelayJustified
<1>1. ASSUME PeekFails(c) PROVE SInv'
  BY <1>0, <1>1, LeaveJustified, HandlerMoves, QuietRest
  DEF PeekFails, Held, Quiet, history, storeVars
<1>2. ASSUME PeekPlain(c) PROVE SInv'
  <2>1. Justified(c, "lookup", Begin("grant", now))
    BY DEF Justified, Begin, TInv, StoreTypeOK
  <2> QED
    BY <1>0, <1>2, <2>1, AdvanceJustified, HandlerMoves, QuietRest
    DEF PeekPlain, Held, Quiet, history, storeVars
<1>3. ASSUME PeekToken(c) PROVE SInv'
  <2>1. PICK t : Advance(c, "claim", [Begin("token", 0) EXCEPT !.token = t])
    BY <1>3 DEF PeekToken
  <2>2. Justified(c, "claim", [Begin("token", 0) EXCEPT !.token = t])
    BY DEF Justified, Begin, TInv, StoreTypeOK
  <2> QED
    BY <1>0, <1>3, <2>1, <2>2, AdvanceJustified, HandlerMoves, QuietRest
    DEF PeekToken, Held, Quiet, history, storeVars
<1>4. ASSUME LookupFails(c) PROVE SInv'
  BY <1>0, <1>4, DenyJustified, HandlerMoves, QuietRest
  DEF LookupFails, Held, Quiet, history, storeVars
<1>5. ASSUME ActiveGrant(c) PROVE SInv'
  <2>1. CASE Deny(c)
    BY <1>0, <1>5, <2>1, DenyJustified, HandlerMoves, QuietRest
    DEF ActiveGrant, Held, Quiet, history, storeVars
  <2>2. CASE \E g \in grants :
               /\ IsActiveGrant(g, Key(c), dec[c].at)
               /\ Advance(c, "target", [dec[c] EXCEPT !.grant = g.id,
                                       !.user = g.user, !.target = g.target])
    <3>1. PICK g \in grants :
            /\ IsActiveGrant(g, Key(c), dec[c].at)
            /\ Advance(c, "target", [dec[c] EXCEPT !.grant = g.id,
                                    !.user = g.user, !.target = g.target])
      BY <2>2
    <3>2. g.key = Key(c) /\ <<g.user, g.key>> \in mfa
      BY <3>1 DEF IsActiveGrant, LiveGrants, SInv, GrantsJustified
    <3>3. dec[c].at <= now
      BY <1>0, <1>5 DEF Justified, ActiveGrant
    <3>4. Justified(c, "target", [dec[c] EXCEPT !.grant = g.id, !.user = g.user,
                                                !.target = g.target])
      BY <1>0, <3>2, <3>3 DEF Justified, Dec
    <3> QED
      BY <1>0, <1>5, <3>1, <3>4, AdvanceJustified, HandlerMoves, QuietRest
      DEF ActiveGrant, Held, Quiet, history, storeVars
  <2> QED
    BY <1>5, <2>1, <2>2 DEF ActiveGrant
<1>6. ASSUME ConsumeRedirectToken(c) PROVE SInv'
  <2>1. TokensJustified'
    BY <1>6 DEF ConsumeRedirectToken, ClaimRedirectToken, SInv, TokensJustified,
                TInv, StoreTypeOK, Token
  <2>2. GrantsJustified'
    BY <1>6 DEF ConsumeRedirectToken, SInv, GrantsJustified
  <2>3. RelayJustified' /\ Moves(c)
    <3>1. CASE Deny(c)
      BY <1>0, <1>6, <3>1, DenyJustified, HandlerMoves DEF ConsumeRedirectToken
    <3>2. CASE \E tk \in tokens :
                 /\ Claimable(tk, dec[c].token, Key(c))
                 /\ Advance(c, "target", [dec[c] EXCEPT !.user = tk.user,
                                                        !.target = tk.target])
      <4>1. PICK tk \in tokens :
              /\ Claimable(tk, dec[c].token, Key(c))
              /\ Advance(c, "target", [dec[c] EXCEPT !.user = tk.user,
                                                     !.target = tk.target])
        BY <3>2
      <4>2. <<tk.user, Key(c)>> \in mfa
        BY <4>1 DEF Claimable, SInv, TokensJustified
      <4>3. dec[c].at <= now
        BY <1>0, <1>6 DEF Justified, ConsumeRedirectToken
      <4>4. Justified(c, "target", [dec[c] EXCEPT !.user = tk.user, !.target = tk.target])
        BY <1>0, <4>2, <4>3 DEF Justified, Dec
      <4> QED
        BY <1>0, <1>6, <4>1, <4>4, AdvanceJustified, HandlerMoves
        DEF ConsumeRedirectToken
    <3> QED
      BY <1>6, <3>1, <3>2 DEF ConsumeRedirectToken
  <2> QED
    BY <1>6, <2>1, <2>2, <2>3, HandlerRest DEF ConsumeRedirectToken, Held, accounts
<1>7. ASSUME TargetByID(c) PROVE SInv'
  BY <1>0, <1>7, DenyJustified, AdvanceJustified, HandlerMoves, QuietRest
  DEF TargetByID, Justified, Held, Quiet, history, storeVars
<1>8. ASSUME UserByID(c) PROVE SInv'
  <2>1. IsActive(dec[c].user) => dec[c].user \in sawActive[c]
    BY <1>0, <1>8 DEF UserByID, SInv, Watching, Held, Complete, NoUserYet
  <2> QED
    BY <1>0, <1>8, <2>1, DenyJustified, AdvanceJustified, HandlerMoves, QuietRest
    DEF UserByID, Justified, Held, Quiet, history, storeVars
<1>9. ASSUME CheckReach(c) PROVE SInv'
  <2>1. reach \subseteq sawReach[c]
    BY <1>9 DEF CheckReach, SInv, Watching, Held
  <2>2. CASE Deny(c)
    BY <1>0, <1>9, <2>2, DenyJustified, HandlerMoves, QuietRest
    DEF CheckReach, Held, Quiet, history, storeVars
  <2>3. CASE /\ CanReach(dec[c].user, dec[c].target)
             /\ Advance(c, IF dec[c].via = "token" THEN "issue" ELSE "consume", dec[c])
    <3>1. \A l \in {"issue", "consume"} : Justified(c, l, dec[c])
      BY <1>0, <1>9, <2>1, <2>3 DEF CheckReach, CanReach, Justified
    <3> QED
      BY <1>0, <1>9, <2>3, <3>1, AdvanceJustified, HandlerMoves, QuietRest
      DEF CheckReach, Held, Quiet, history, storeVars
  <2> QED
    BY <1>9, <2>2, <2>3 DEF CheckReach
<1>10. ASSUME MarkConsumed(c) PROVE SInv'
  <2>1. pc[c] = "consume" /\ dec[c].at <= now /\ dec[c].at \in Nat
    BY <1>0, <1>10 DEF MarkConsumed, Justified, Dec
  <2>2. GrantsJustified'
    <3>1. CASE ConsumeGrant(dec[c].grant, dec[c].at + ReuseWindow)
      BY <1>10, <2>1, <3>1, ConsumeGrantJustified DEF MarkConsumed, SInv, history
    <3>2. CASE UNCHANGED grants
      BY <1>10, <3>2 DEF MarkConsumed, SInv, GrantsJustified, history
    <3> QED
      BY <1>10, <3>1, <3>2 DEF MarkConsumed
  <2>3. RelayJustified' /\ Moves(c)
    BY <1>0, <1>10, AdvanceJustified, HandlerMoves DEF MarkConsumed, Justified, history
  <2>4. TokensJustified'
    BY <1>10 DEF MarkConsumed, SInv, TokensJustified, history
  <2> QED
    BY <1>10, <2>2, <2>3, <2>4, HandlerRest DEF MarkConsumed, Held, history
<1>11. ASSUME IssueFollowOn(c) PROVE SInv'
  <2>1. /\ pc[c] = "issue" /\ Key(c) \in Keys
        /\ dec[c].user \in Users /\ dec[c].target \in Targets
        /\ <<dec[c].user, Key(c)>> \in mfa
    BY <1>0, <1>11, KeyTyped DEF IssueFollowOn, Complete, NoUserYet, NoTargetYet, Justified
  <2>2. GrantsJustified'
    <3>1. CASE CreateGrant(dec[c].user, dec[c].target, Key(c), ReuseWindow)
      BY <1>11, <2>1, <3>1, CreateGrantJustified DEF IssueFollowOn, SInv, history
    <3>2. CASE UNCHANGED <<grants, grantSeq>>
      BY <1>11, <3>2 DEF IssueFollowOn, SInv, GrantsJustified, history
    <3> QED
      BY <1>11, <3>1, <3>2 DEF IssueFollowOn
  <2>3. RelayJustified' /\ Moves(c)
    <3>1. PICK g : Advance(c, "dial", [dec[c] EXCEPT !.grant = g])
      BY <1>11 DEF IssueFollowOn
    <3>2. Justified(c, "dial", [dec[c] EXCEPT !.grant = g])
      BY <1>0, <2>1 DEF Justified, Dec
    <3> QED
      BY <1>0, <1>11, <2>1, <3>1, <3>2, AdvanceJustified, HandlerMoves
      DEF IssueFollowOn, history
  <2>4. TokensJustified'
    BY <1>11 DEF IssueFollowOn, SInv, TokensJustified, history
  <2> QED
    BY <1>11, <2>2, <2>3, <2>4, HandlerRest DEF IssueFollowOn, Held, history
<1>12. ASSUME LoginRefused(c) PROVE SInv'
  BY <1>0, <1>12, LeaveJustified, HandlerMoves, QuietRest
  DEF LoginRefused, Held, Quiet, history, storeVars
<1>13. ASSUME LoginIdentifies(c) PROVE SInv'
  <2>1. PICK d : Advance(c, "factor", d)
    BY <1>13 DEF LoginIdentifies
  <2>2. Justified(c, "factor", d)
    BY DEF Justified
  <2> QED
    BY <1>0, <1>13, <2>1, <2>2, AdvanceJustified, HandlerMoves, QuietRest
    DEF LoginIdentifies, Held, Quiet, history, storeVars
<1>14. ASSUME LoginFactor(c) PROVE SInv'
  <2>1. GrantsJustified' /\ TokensJustified'
    BY <1>14 DEF LoginFactor, SInv, GrantsJustified, TokensJustified, storeVars
  <2>2. Moves(c)
    BY <1>0, <1>14, HandlerMoves DEF LoginFactor
  <2>3. RelayJustified'
    BY <1>0, <1>14 DEF LoginFactor, RelayJustified, Justified, Advance, Goto, Keep, Key,
                       RelayOK, storeVars
  <2> QED
    BY <1>14, <2>1, <2>2, <2>3, HandlerRest DEF LoginFactor, Held, storeVars, accounts
<1>15. ASSUME TargetFor(c) PROVE SInv'
  <2>1. PICK t \in Targets : Advance(c, "wake", [dec[c] EXCEPT !.target = t])
    BY <1>15 DEF TargetFor
  <2>2. Justified(c, "wake", [dec[c] EXCEPT !.target = t])
    BY <1>0, <1>15 DEF Justified, TargetFor, Dec
  <2> QED
    BY <1>0, <1>15, <2>1, <2>2, AdvanceJustified, HandlerMoves, QuietRest
    DEF TargetFor, Held, Quiet, history, storeVars
<1>16. ASSUME LoginAwake(c) PROVE SInv'
  BY <1>0, <1>16, AdvanceJustified, HandlerMoves, QuietRest
  DEF LoginAwake, Justified, Held, Quiet, history, storeVars
<1>17. ASSUME MintToken(c) PROVE SInv'
  <2>1. pc[c] = "mint" /\ <<dec[c].user, Key(c)>> \in mfa
    BY <1>0, <1>17 DEF MintToken, Justified
  <2>2. TokensJustified'
    BY <1>17, <2>1, CreateTokenJustified DEF MintToken, SInv, history
  <2>3. GrantsJustified'
    BY <1>17 DEF MintToken, SInv, GrantsJustified, history
  <2>4. RelayJustified' /\ Moves(c)
    BY <1>0, <1>17, LeaveJustified, HandlerMoves DEF MintToken, history
  <2> QED
    BY <1>17, <2>2, <2>3, <2>4, HandlerRest DEF MintToken, Held, history
<1>18. ASSUME ReviewRefused(c) PROVE SInv'
  BY <1>0, <1>18, LeaveJustified, HandlerMoves, QuietRest
  DEF ReviewRefused, Held, Quiet, history, storeVars
<1>19. ASSUME UserByRDPHint(c) PROVE SInv'
  <2>1. PICK u \in Users : IsActive(u) /\ Advance(c, "jitpick", [dec[c] EXCEPT !.user = u])
    BY <1>19 DEF UserByRDPHint
  <2>2. u \in sawActive[c]
    BY <1>19, <2>1 DEF UserByRDPHint, SInv, Watching, Held
  <2>3. Justified(c, "jitpick", [dec[c] EXCEPT !.user = u])
    BY <1>0, <2>2 DEF Justified, Dec
  <2> QED
    BY <1>0, <1>19, <2>1, <2>3, AdvanceJustified, HandlerMoves, QuietRest
    DEF UserByRDPHint, Held, Quiet, history, storeVars
<1>20. ASSUME JITTarget(c) PROVE SInv'
  <2>1. PICK t \in Targets : Advance(c, "jitreach", [dec[c] EXCEPT !.target = t])
    BY <1>20 DEF JITTarget
  <2>2. Justified(c, "jitreach", [dec[c] EXCEPT !.target = t])
    BY <1>0, <1>20 DEF Justified, JITTarget, Dec
  <2> QED
    BY <1>0, <1>20, <2>1, <2>2, AdvanceJustified, HandlerMoves, QuietRest
    DEF JITTarget, Held, Quiet, history, storeVars
<1>21. ASSUME ReviewReach(c) PROVE SInv'
  <2>1. reach \subseteq sawReach[c]
    BY <1>21 DEF ReviewReach, SInv, Watching, Held
  <2>2. Justified(c, "jitcreate", dec[c])
    BY <1>0, <1>21, <2>1 DEF Justified, ReviewReach, CanReach
  <2> QED
    BY <1>0, <1>21, <2>2, AdvanceJustified, HandlerMoves, QuietRest
    DEF ReviewReach, Held, Quiet, history, storeVars
<1>22. ASSUME RecordRequest(c) PROVE SInv'
  <2>1. GrantsJustified' /\ TokensJustified'
    BY <1>22 DEF RecordRequest, SInv, GrantsJustified, TokensJustified, history
  <2>2. RelayJustified' /\ Moves(c)
    BY <1>0, <1>22, AdvanceJustified, HandlerMoves
    DEF RecordRequest, Justified, history
  <2> QED
    BY <1>22, <2>1, <2>2, HandlerRest DEF RecordRequest, Held, history, accounts
<1>23. ASSUME ApprovalTimesOut(c) PROVE SInv'
  <2>1. GrantsJustified' /\ TokensJustified'
    BY <1>23 DEF ApprovalTimesOut, Decide, SInv, GrantsJustified, TokensJustified, history
  <2>2. RelayJustified' /\ Moves(c)
    BY <1>0, <1>23, LeaveJustified, HandlerMoves
    DEF ApprovalTimesOut, Decide, Justified, history
  <2> QED
    BY <1>23, <2>1, <2>2, HandlerRest DEF ApprovalTimesOut, Decide, Held, history, accounts
<1>24. ASSUME ReviewReady(c) PROVE SInv'
  BY <1>0, <1>24, AdvanceJustified, HandlerMoves, QuietRest
  DEF ReviewReady, Justified, Held, Quiet, history, storeVars
<1>25. ASSUME DidNotWake(c) PROVE SInv'
  <2>1. GrantsJustified' /\ TokensJustified'
    BY <1>25 DEF DidNotWake, Decide, SInv, GrantsJustified, TokensJustified, history
  <2>2. RelayJustified' /\ Moves(c)
    BY <1>0, <1>25, LeaveJustified, HandlerMoves
    DEF DidNotWake, Decide, Justified, history
  <2> QED
    BY <1>25, <2>1, <2>2, HandlerRest DEF DidNotWake, Decide, Held, history, accounts
<1>26. ASSUME IssueJIT(c) PROVE SInv'
  <2>1. /\ pc[c] = "jitissue" /\ Key(c) \in Keys
        /\ dec[c].user \in Users /\ dec[c].target \in Targets
        /\ <<dec[c].user, Key(c)>> \in mfa
    BY <1>0, <1>26, KeyTyped DEF IssueJIT, Complete, NoUserYet, NoTargetYet, Justified
  <2>2. GrantsJustified'
    <3>1. CASE CreateGrant(dec[c].user, dec[c].target, Key(c), GrantTTL)
      BY <1>26, <2>1, <3>1, CreateGrantJustified DEF IssueJIT, SInv, history
    <3>2. CASE UNCHANGED <<grants, grantSeq>>
      BY <1>26, <3>2 DEF IssueJIT, SInv, GrantsJustified, history
    <3> QED
      BY <1>26, <3>1, <3>2 DEF IssueJIT
  <2>3. RelayJustified' /\ Moves(c)
    <3>1. CASE Reject(c)
      BY <1>0, <1>26, <3>1, LeaveJustified, HandlerMoves DEF IssueJIT, history
    <3>2. CASE Advance(c, "jitmark", [dec[c] EXCEPT !.grant = grantSeq'])
      <4>1. Justified(c, "jitmark", [dec[c] EXCEPT !.grant = grantSeq'])
        BY <1>0, <2>1 DEF Justified, Dec
      <4> QED
        BY <1>0, <1>26, <3>2, <4>1, AdvanceJustified, HandlerMoves DEF IssueJIT, history
    <3> QED
      BY <1>26, <3>1, <3>2 DEF IssueJIT
  <2>4. TokensJustified'
    BY <1>26 DEF IssueJIT, SInv, TokensJustified, history
  <2> QED
    BY <1>26, <2>2, <2>3, <2>4, HandlerRest DEF IssueJIT, Held, history
<1>27. ASSUME MarkApproved(c) PROVE SInv'
  <2>1. GrantsJustified' /\ TokensJustified'
    BY <1>27 DEF MarkApproved, Decide, SInv, GrantsJustified, TokensJustified, history
  <2>2. RelayJustified' /\ Moves(c)
    BY <1>0, <1>27, AdvanceJustified, HandlerMoves
    DEF MarkApproved, Decide, Justified, history
  <2> QED
    BY <1>27, <2>1, <2>2, HandlerRest DEF MarkApproved, Decide, Held, history, accounts
<1>28. ASSUME DialOK(c) PROVE SInv'
  BY <1>0, <1>28, AdvanceJustified, HandlerMoves, QuietRest
  DEF DialOK, Justified, Held, Quiet, history, storeVars
<1>29. ASSUME DialFails(c) PROVE SInv'
  BY <1>0, <1>29, LeaveJustified, HandlerMoves, QuietRest
  DEF DialFails, Held, Quiet, history, storeVars
<1>30. ASSUME Opened(c) PROVE SInv'
  <2>1. GrantsJustified' /\ TokensJustified'
    BY <1>30 DEF Opened, SInv, GrantsJustified, TokensJustified, history
  <2>2. RelayJustified' /\ Moves(c)
    BY <1>0, <1>30, AdvanceJustified, HandlerMoves
    DEF Opened, Justified, history
  <2> QED
    BY <1>30, <2>1, <2>2, HandlerRest DEF Opened, Held, history, accounts
<1>31. ASSUME Closed(c) PROVE SInv'
  <2>1. GrantsJustified' /\ TokensJustified'
    BY <1>31 DEF Closed, SInv, GrantsJustified, TokensJustified, history
  <2>2. RelayJustified' /\ Moves(c)
    BY <1>0, <1>31, LeaveJustified, HandlerMoves
    DEF Closed, Justified, history
  <2> QED
    BY <1>31, <2>1, <2>2, HandlerRest DEF Closed, Held, history, accounts
<1>32. ASSUME TarpitEnds(c) PROVE SInv'
  BY <1>0, <1>32, LeaveJustified, HandlerMoves, QuietRest
  DEF TarpitEnds, Held, Quiet, history, storeVars
<1> QED
  BY <1>1, <1>2, <1>3, <1>4, <1>5, <1>6, <1>7, <1>8, <1>9, <1>10, <1>11, <1>12, <1>13,
     <1>14, <1>15, <1>16, <1>17, <1>18, <1>19, <1>20, <1>21, <1>22, <1>23, <1>24, <1>25,
     <1>26, <1>27, <1>28, <1>29, <1>30, <1>31, <1>32
  DEF Handle

LEMMA ClientJustified ==
  ASSUME TInv, SInv, NEW c \in Conns,
         (\E a \in Addrs : Connect(c, a)) \/ Approved(c) \/ Declined(c) \/ PumpEnds(c)
  PROVE  SInv'
<1> USE DEF Proven, SeenActive, SeenReach, Timed
<1>0. /\ RelayOK /\ StoreTypeOK /\ dec[c] \in Dec /\ Complete(pc[c], dec[c])
      /\ Justified(c, pc[c], dec[c]) /\ RelayJustified
  BY DEF TInv, RelayOK, SInv, RelayJustified
<1>1. ASSUME NEW a \in Addrs, Connect(c, a) PROVE SInv'
  <2>1. GrantsJustified' /\ TokensJustified' /\ WebJustified'
    BY <1>1 DEF Connect, SInv, GrantsJustified, TokensJustified, WebJustified, storeVars
  <2>2. /\ addr' = [addr EXCEPT ![c] = a] /\ UNCHANGED <<dec, mfa, storeVars>>
        /\ pc' = [pc EXCEPT ![c] = "peek"] \/ pc' = [pc EXCEPT ![c] = "done"]
        /\ sawActive' = [sawActive EXCEPT ![c] = {u \in Users : IsActive(u)}]
        /\ sawReach' = [sawReach EXCEPT ![c] = reach]
    BY <1>1 DEF Connect, Goto
  <2>3. ASSUME NEW x \in Conns PROVE Justified(x, pc[x], dec[x])'
    BY <1>0, <2>2 DEF RelayJustified, Justified, RelayOK, Key, storeVars, TInv, HistoryOK
  <2>4. ASSUME NEW x \in Conns, Held(x)'
        PROVE  /\ \A u \in Users : IsActive(u)' => u \in sawActive'[x]
               /\ reach' \subseteq sawReach'[x]
    BY <1>0, <2>2, <2>4 DEF SInv, Watching, Held, IsActive, RelayOK, storeVars, TInv, HistoryOK
  <2> QED
    BY <2>1, <2>3, <2>4 DEF SInv, RelayJustified, Watching
<1>2. ASSUME Approved(c) PROVE SInv'
  <2>1. GrantsJustified' /\ TokensJustified'
    BY <1>2 DEF Approved, SInv, GrantsJustified, TokensJustified, storeVars
  <2>2. Moves(c)
    BY <1>0, <1>2, HandlerMoves DEF Approved
  <2>3. RelayJustified'
    BY <1>0, <1>2 DEF Approved, RelayJustified, Justified, Advance, Goto, Keep, Key,
                      RelayOK, storeVars
  <2> QED
    BY <1>2, <2>1, <2>2, <2>3, HandlerRest DEF Approved, Held, storeVars, accounts
<1>3. ASSUME Declined(c) PROVE SInv'
  <2>1. GrantsJustified' /\ TokensJustified'
    BY <1>3 DEF Declined, Decide, SInv, GrantsJustified, TokensJustified, history
  <2>2. RelayJustified' /\ Moves(c)
    BY <1>0, <1>3, LeaveJustified, HandlerMoves DEF Declined, Decide, history
  <2> QED
    BY <1>3, <2>1, <2>2, HandlerRest DEF Declined, Decide, Held, history, accounts
<1>4. ASSUME PumpEnds(c) PROVE SInv'
  BY <1>0, <1>4, AdvanceJustified, HandlerMoves, QuietRest
  DEF PumpEnds, Justified, Held, Quiet, history, storeVars
<1> QED
  BY <1>1, <1>2, <1>3, <1>4

-----------------------------------------------------------------------------
(* The portal, the administrator and the service. *)

\* What a step outside the relay has to show: who was seen only grows, and
\* nobody is active, and nothing in reach, that a held connection has not seen.
LEMMA OutsideJustified ==
  ASSUME TInv, SInv, UNCHANGED relayVars, now' = now, mfa \subseteq mfa',
         \A c \in Conns : sawActive[c] \subseteq sawActive'[c] /\ sawReach[c] \subseteq sawReach'[c],
         Watching', GrantsJustified', TokensJustified', WebJustified'
  PROVE  SInv'
<1>1. now \in Nat /\ RelayOK
  BY DEF TInv, StoreTypeOK
<1> QED
  BY <1>1, RelayJustifiedFrame DEF SInv

\* Nobody gains anything: the accounts and the access list only shrink.
LEMMA WatchingShrinks ==
  ASSUME SInv, UNCHANGED <<pc, sawActive, sawReach>>, reach' \subseteq reach,
         \A u \in Users : IsActive(u)' => IsActive(u)
  PROVE  Watching'
  BY DEF SInv, Watching, Held

LEMMA PortalJustified ==
  ASSUME TInv, SInv, NEW r \in Reqs, UnlockBegins(r) \/ Unlock(r)
  PROVE  SInv'
<1>0. Watching /\ WebOK /\ WebJustified /\ GrantsJustified /\ TokensJustified
  BY DEF SInv, TInv
<1>1. ASSUME UnlockBegins(r) PROVE SInv'
  <2>1. PICK u \in Users, t \in Targets, a \in Addrs :
          /\ web' = [web EXCEPT ![r] = [pc |-> "reach", user |-> u, target |-> t,
                                        addr |-> a]]
          /\ mfa' = mfa \cup {<<u, KeyOf[a]>>}
    BY <1>1 DEF UnlockBegins
  <2>2. WebJustified'
    BY <1>0, <2>1 DEF WebOK, WebJustified
  <2>3. Watching'
    BY <1>1, WatchingShrinks DEF UnlockBegins, storeVars, relayVars, IsActive
  <2>4. GrantsJustified' /\ TokensJustified'
    BY <1>0, <1>1, <2>1 DEF UnlockBegins, GrantsJustified, TokensJustified, storeVars
  <2> QED
    BY <1>1, <2>1, <2>2, <2>3, <2>4, OutsideJustified DEF UnlockBegins, storeVars
<1>2. ASSUME NEW l \in {"reach", "load", "issue", "done"}, UnlockGoto(r, l), UNCHANGED mfa,
             web[r].pc \in {"reach", "load", "issue"}
      PROVE  WebJustified'
  BY <1>0, <1>2 DEF UnlockGoto, WebOK, WebJustified, Web
<1>3. ASSUME UNCHANGED <<now, accounts, tokens, service, relayVars, history>>,
             GrantsJustified', WebJustified'
      PROVE  SInv'
  <2>1. Watching'
    BY <1>3, WatchingShrinks DEF accounts, relayVars, history, IsActive
  <2>2. TokensJustified'
    BY <1>0, <1>3 DEF TokensJustified, history
  <2> QED
    BY <1>3, <2>1, <2>2, OutsideJustified DEF history
<1>4. ASSUME UnlockReach(r) \/ UnlockLoad(r) PROVE SInv'
  <2>1. WebJustified' /\ GrantsJustified'
    BY <1>0, <1>2, <1>4 DEF UnlockReach, UnlockLoad, history, storeVars, GrantsJustified
  <2> QED
    BY <1>3, <1>4, <2>1 DEF UnlockReach, UnlockLoad, storeVars, accounts
<1>5. ASSUME UnlockIssue(r) PROVE SInv'
  <2>1. /\ web[r].pc = "issue" /\ <<web[r].user, KeyOf[web[r].addr]>> \in mfa
        /\ web[r].user \in Users /\ web[r].target \in Targets /\ KeyOf[web[r].addr] \in Keys
    BY <1>0, <1>5, GatewayAssumption DEF UnlockIssue, WebJustified, WebOK
  <2>2. GrantsJustified'
    <3>1. CASE CreateGrant(web[r].user, web[r].target, KeyOf[web[r].addr], GrantTTL)
      BY <1>0, <1>5, <2>1, <3>1, CreateGrantJustified DEF UnlockIssue, history
    <3>2. CASE UNCHANGED <<grants, grantSeq>>
      BY <1>0, <1>5, <3>2 DEF UnlockIssue, GrantsJustified, history
    <3> QED
      BY <1>5, <3>1, <3>2 DEF UnlockIssue
  <2>3. WebJustified'
    BY <1>2, <1>5 DEF UnlockIssue, history
  <2> QED
    BY <1>3, <1>5, <2>2, <2>3 DEF UnlockIssue
<1> QED
  BY <1>1, <1>4, <1>5 DEF Unlock

LEMMA ObserveSees ==
  ASSUME TInv, SInv, Observe, UNCHANGED pc
  PROVE  /\ Watching'
         /\ \A c \in Conns : /\ sawActive[c] \subseteq sawActive'[c]
                             /\ sawReach[c] \subseteq sawReach'[c]
  BY DEF TInv, SInv, HistoryOK, Watching, Observe, Held, IsActive

LEMMA AdministerJustified == TInv /\ SInv /\ Administer => SInv'
<1> SUFFICES ASSUME TInv, SInv, Administer PROVE SInv'
  OBVIOUS
<1>0. Watching /\ GrantsJustified /\ TokensJustified /\ WebJustified /\ StoreTypeOK
  BY DEF SInv, TInv
<1>1. WebJustified' \/ ~UNCHANGED <<web, mfa>>
  BY <1>0 DEF WebJustified
<1>2. GrantsJustified' \/ ~UNCHANGED <<grants, now, mfa>>
  BY <1>0 DEF GrantsJustified
<1>3. TokensJustified' \/ ~UNCHANGED <<tokens, mfa>>
  BY <1>0 DEF TokensJustified
<1>4. ASSUME NEW u \in Users, NEW s \in {"active", "locked", "disabled"}, SetStatus(u, s)
      PROVE  SInv'
  <2>1. UNCHANGED <<now, grants, tokens, web, mfa, relayVars>> /\ Observe
    BY <1>4 DEF SetStatus, tables, Observe
  <2> QED
    BY <1>1, <1>2, <1>3, <2>1, ObserveSees, OutsideJustified DEF relayVars
<1>5. ASSUME NEW u \in Users, NEW t \in Targets, GrantAccess(u, t) PROVE SInv'
  <2>1. UNCHANGED <<now, grants, tokens, web, mfa, relayVars>> /\ Observe
    BY <1>5 DEF GrantAccess, tables, Observe
  <2> QED
    BY <1>1, <1>2, <1>3, <2>1, ObserveSees, OutsideJustified DEF relayVars
<1>6. ASSUME UNCHANGED <<now, web, relayVars, history>>, reach' \subseteq reach,
             \A u \in Users : IsActive(u)' => IsActive(u),
             GrantsJustified', TokensJustified'
      PROVE  SInv'
  BY <1>1, <1>6, WatchingShrinks, OutsideJustified DEF relayVars, history
<1>7. ASSUME NEW u \in Users, RevokeGrants(u) PROVE SInv'
  <2>1. \A g \in grants' : \E h \in grants :
          g.user = h.user /\ g.key = h.key /\ g.expires = h.expires
    BY <1>0, <1>7 DEF RevokeGrants, RevokeGrantsForUser, StoreTypeOK, Grant
  <2>2. UNCHANGED <<now, mfa, accounts, tokens, web, relayVars, history>>
    BY <1>7 DEF RevokeGrants, history
  <2>3. GrantsJustified'
    BY <1>0, <2>1, <2>2, GrantsShrink
  <2> QED
    BY <1>3, <1>6, <2>2, <2>3 DEF accounts, IsActive
<1>8. ASSUME NEW u \in Users, RemoveUser(u) PROVE SInv'
  <2>1. /\ grants' \subseteq grants /\ tokens' \subseteq tokens /\ reach' \subseteq reach
        /\ status' = [status EXCEPT ![u] = "gone"]
        /\ UNCHANGED <<now, web, relayVars, history>>
    BY <1>8 DEF RemoveUser, DeleteUser
  <2>2. GrantsJustified' /\ TokensJustified'
    BY <1>0, <2>1 DEF GrantsJustified, TokensJustified, history
  <2>3. \A v \in Users : IsActive(v)' => IsActive(v)
    BY <1>0, <2>1 DEF StoreTypeOK, IsActive
  <2> QED
    BY <1>6, <2>1, <2>2, <2>3
<1>9. ASSUME NEW u \in Users, NEW t \in Targets, RevokeAccess(u, t) PROVE SInv'
  <2>1. reach' \subseteq reach /\ UNCHANGED <<now, status, grants, tokens, mfa, web, relayVars, history>>
    BY <1>9 DEF RevokeAccess, RevokeTargetAccess, tables, history
  <2> QED
    BY <1>2, <1>3, <1>6, <2>1 DEF IsActive
<1>10. ASSUME NEW t \in Targets, RemoveTarget(t) PROVE SInv'
  <2>1. /\ grants' \subseteq grants /\ tokens' \subseteq tokens /\ reach' \subseteq reach
        /\ UNCHANGED <<now, status, web, relayVars, history>>
    BY <1>10 DEF RemoveTarget, DeleteTarget
  <2>2. GrantsJustified' /\ TokensJustified'
    BY <1>0, <2>1 DEF GrantsJustified, TokensJustified, history
  <2> QED
    BY <1>6, <2>1, <2>2 DEF IsActive
<1>11. ASSUME NEW c \in Conns, SessionKick(c) PROVE SInv'
  <2>1. UNCHANGED <<now, accounts, grants, tokens, mfa, web, relayVars, history>>
    BY <1>11 DEF SessionKick, history
  <2> QED
    BY <1>2, <1>3, <1>6, <2>1 DEF accounts, IsActive
<1> QED
  BY <1>4, <1>5, <1>7, <1>8, <1>9, <1>10, <1>11 DEF Administer

LEMMA ServiceJustified == TInv /\ SInv /\ (Purge \/ Sweep \/ Tick \/ Stop \/ Start) => SInv'
<1> SUFFICES ASSUME TInv, SInv, Purge \/ Sweep \/ Tick \/ Stop \/ Start PROVE SInv'
  OBVIOUS
<1>0. /\ Watching /\ GrantsJustified /\ TokensJustified /\ WebJustified /\ RelayJustified
      /\ RelayOK /\ WebOK /\ HistoryOK /\ now \in Nat
  BY DEF SInv, TInv, StoreTypeOK
<1>1. ASSUME UNCHANGED <<accounts, tokens, web, relayVars, history>>, now' \in Nat, now <= now',
             GrantsJustified'
      PROVE  SInv'
  <2>1. Watching'
    BY <1>1, WatchingShrinks DEF accounts, relayVars, history, IsActive
  <2>2. TokensJustified' /\ WebJustified'
    BY <1>0, <1>1 DEF TokensJustified, WebJustified, history
  <2>3. RelayJustified'
    BY <1>0, <1>1, RelayJustifiedFrame DEF history
  <2> QED
    BY <1>1, <2>1, <2>2, <2>3 DEF SInv
<1>2. ASSUME Purge PROVE SInv'
  <2>1. grants' \subseteq grants /\ UNCHANGED <<now, accounts, tokens, web, relayVars, history>>
    BY <1>2 DEF Purge, PurgeExpired
  <2>2. GrantsJustified'
    BY <1>0, <2>1 DEF GrantsJustified, history
  <2> QED
    BY <1>0, <1>1, <2>1, <2>2
<1>3. ASSUME Sweep PROVE SInv'
  <2>1. UNCHANGED <<now, accounts, grants, tokens, web, relayVars, history>>
    BY <1>3 DEF Sweep, ExpirePendingJIT
  <2>2. GrantsJustified'
    BY <1>0, <2>1 DEF GrantsJustified, history
  <2> QED
    BY <1>0, <1>1, <2>1, <2>2
<1>4. ASSUME Tick PROVE SInv'
  <2>1. now' \in Nat /\ now <= now' /\ UNCHANGED <<accounts, grants, tokens, web, relayVars, history>>
    BY <1>0, <1>4 DEF Tick, tables
  <2>2. GrantsJustified'
    BY <1>0, <2>1, GrantsFrame DEF history
  <2> QED
    BY <1>1, <2>1, <2>2
<1>5. ASSUME Stop PROVE SInv'
  <2>1. /\ pc' = [c \in Conns |-> IF pc[c] = "idle" THEN "idle" ELSE "done"]
        /\ web' = [r \in Reqs |-> IF web[r].pc = "idle" THEN web[r]
                                  ELSE [web[r] EXCEPT !.pc = "done"]]
        /\ UNCHANGED <<storeVars, history>>
    BY <1>5 DEF Stop
  <2>2. RelayJustified'
    BY <2>1 DEF RelayJustified, Justified, Proven, SeenActive, SeenReach, Timed
  <2>3. Watching'
    BY <2>1 DEF Watching, Held
  <2>4. GrantsJustified' /\ TokensJustified'
    BY <1>0, <2>1 DEF GrantsJustified, TokensJustified, storeVars, history
  <2>5. \A r \in Reqs : web'[r].pc \in {"idle", "done"}
    BY <1>0, <2>1 DEF WebOK, Web
  <2>6. WebJustified'
    BY <2>5 DEF WebJustified
  <2> QED
    BY <2>2, <2>3, <2>4, <2>6 DEF SInv
<1>6. ASSUME Start PROVE SInv'
  <2>1. UNCHANGED <<now, accounts, grants, tokens, web, relayVars, history>>
    BY <1>6 DEF Start
  <2>2. GrantsJustified'
    BY <1>0, <2>1 DEF GrantsJustified, history
  <2> QED
    BY <1>0, <1>1, <2>1, <2>2
<1> QED
  BY <1>2, <1>3, <1>4, <1>5, <1>6

LEMMA StepSInv == TInv /\ SInv /\ [Next]_vars => SInv'
<1>1. TInv /\ SInv /\ UNCHANGED vars => SInv'
  BY DEF vars, storeVars, relayVars, history, SInv, RelayJustified, Justified, Key, Watching,
         Held, IsActive, GrantsJustified, TokensJustified, WebJustified
<1> QED
  BY <1>1, HandleJustified, ClientJustified, PortalJustified, AdministerJustified,
     ServiceJustified DEF Next

LEMMA SInvAlways == Spec => [](TInv /\ SInv)
  BY InitTInv, InitSInv, StepTInv, StepSInv, PTL DEF Spec

\* Whatever a connection is let in on (a grant of the portal, a redirect token, a
\* login, an approval), the account it is let in under completed its second factor
\* or its approval from this very address key: relay.handle, ActiveGrant and
\* ConsumeRedirectToken match on it, and every writer of those rows has it.
THEOREM EntryPassedMFA == Spec => []ForwardedPassedMFA
  BY SInvAlways, SInvImplies, PTL

\* No connection is let in under an account that was barred for as long as the
\* connection has existed: the re-reads of Authorize, AuthorizeToken and Review
\* make up for every row that was written before the account was locked.
THEOREM BarredStaysOut == Spec => []NoEntryWhileBarred
  BY SInvAlways, SInvImplies, PTL

\* ConsumeGrant, Unlock, Review and AuthorizeToken together never leave a grant
\* that outlives one window from now, however often it is used.
THEOREM WindowsBounded == Spec => []WindowBounded
  BY SInvAlways, SInvImplies, PTL

-----------------------------------------------------------------------------
(***************************************************************************)
(* What the tables say of the connections, and of each other: grants and   *)
(* tokens are told apart by their ids, a request, a token or an open       *)
(* session row tells where its connection is, and the counters of the      *)
(* relay count.  From it follow the theorems about revocation, decisions,  *)
(* session rows and slots, and that Gateway implements AccessPromise.      *)
(* Each part is an invariant of its own beside TInv.                       *)
(***************************************************************************)

-----------------------------------------------------------------------------
(* Where the handler of a connection goes, and what it takes along.        *)

\* The way of a handler past the request for approval, and past the decision.
Asked == {"ask", "boot", "jitissue", "jitmark", "dial", "open", "pump", "close",
          "tarpit", "done"}
Entered == {"dial", "open"} \cup Forwarded

Goes(c, l, d) ==
  /\ pc' = [pc EXCEPT ![c] = l]
  /\ dec' = [dec EXCEPT ![c] = d]
  /\ UNCHANGED addr
  /\ IF l = "done" THEN Release(addr[c]) ELSE UNCHANGED slots

\* From k with record e to l with record d.
Route(k, e, l, d) ==
  /\ k \notin {"idle", "done"} /\ l # "idle"
  /\ k \in Asked => l \in Asked
  /\ k = "tarpit" => l = "done"
  /\ k \in Forwarded => l \in Forwarded \cup {"done"}
  /\ k \in Entered => (l \in Entered /\ d = e) \/ l = "done"
  /\ k \notin Entered /\ l \in Entered =>
       /\ k \in {"consume", "issue", "jitmark"}
       /\ d.user = e.user /\ d.target = e.target

Travels(c) == \E l, d : Goes(c, l, d) /\ Route(pc[c], dec[c], l, d)

LEMMA AdvanceGoes ==
  ASSUME NEW c, NEW l, NEW d, l # "done", Advance(c, l, d)
  PROVE  Goes(c, l, d)
BY DEF Advance, Goto, Keep, Goes

LEMMA AdvanceTravels ==
  ASSUME NEW c, NEW l, NEW d, l # "done", Advance(c, l, d), Route(pc[c], dec[c], l, d)
  PROVE  Travels(c)
BY AdvanceGoes DEF Travels

LEMMA RejectTravels ==
  ASSUME NEW c, Reject(c), Held(c), pc[c] \notin Entered, pc[c] # "tarpit"
  PROVE  Travels(c)
<1>1. Goes(c, "tarpit", NoDec)
  BY DEF Reject, Goto, Keep, Goes
<1>2. Route(pc[c], dec[c], "tarpit", NoDec)
  BY DEF Route, Held, Asked, Entered, Forwarded
<1>3. QED BY <1>1, <1>2 DEF Travels

LEMMA ReturnTravels ==
  ASSUME NEW c, Return(c), Held(c)
  PROVE  Travels(c)
<1>1. Goes(c, "done", NoDec)
  BY DEF Return, Goto, Keep, Goes
<1>2. Route(pc[c], dec[c], "done", NoDec)
  BY DEF Route, Held, Asked, Entered, Forwarded
<1>3. QED BY <1>1, <1>2 DEF Travels

LEMMA DenyTravels ==
  ASSUME NEW c, Deny(c), pc[c] \in {"lookup", "claim", "target", "user", "reach"}
  PROVE  Travels(c)
<1>1. \A l \in {"login", "hint"} : \A d : Route(pc[c], dec[c], l, d)
  BY DEF Route, Asked, Entered, Forwarded
<1>2. Held(c) /\ pc[c] \notin Entered /\ pc[c] # "tarpit"
  BY DEF Held, Entered, Forwarded
<1>3. CASE Reject(c)
  BY <1>2, <1>3, RejectTravels
<1>4. CASE \E d : Advance(c, "login", d) \/ Advance(c, "hint", d)
  BY <1>1, <1>4, AdvanceTravels
<1>5. QED BY <1>3, <1>4 DEF Deny

\* Every step of a handler, and of the human or the client it waits for, moves
\* that connection along its way (relay.handle and what it calls).
LEMMA HandlerTravels ==
  ASSUME RelayOK, NEW c \in Conns, Handle(c) \/ Approved(c) \/ Declined(c) \/ PumpEnds(c)
  PROVE  Travels(c)
<1> USE DEF Route, Asked, Entered, Forwarded, Held
<1>0. dec[c] \in Dec
  BY DEF RelayOK
<1>1. CASE PeekFails(c)    BY <1>1, RejectTravels DEF PeekFails
<1>2. CASE PeekPlain(c)    BY <1>2, AdvanceTravels DEF PeekPlain
<1>3. CASE PeekToken(c)    BY <1>3, AdvanceTravels DEF PeekToken
<1>4. CASE LookupFails(c)  BY <1>4, DenyTravels DEF LookupFails
<1>5. CASE ActiveGrant(c)
  <2>1. CASE Deny(c) BY <1>5, <2>1, DenyTravels DEF ActiveGrant
  <2>2. CASE \E d : Advance(c, "target", d)
    BY <1>5, <2>2, AdvanceTravels DEF ActiveGrant
  <2>3. QED BY <1>5, <2>1, <2>2 DEF ActiveGrant
<1>6. CASE ConsumeRedirectToken(c)
  <2>1. CASE Deny(c) BY <1>6, <2>1, DenyTravels DEF ConsumeRedirectToken
  <2>2. CASE \E d : Advance(c, "target", d)
    BY <1>6, <2>2, AdvanceTravels DEF ConsumeRedirectToken
  <2>3. QED BY <1>6, <2>1, <2>2 DEF ConsumeRedirectToken
<1>7. CASE TargetByID(c)   BY <1>7, DenyTravels, AdvanceTravels DEF TargetByID
<1>8. CASE UserByID(c)     BY <1>8, DenyTravels, AdvanceTravels DEF UserByID
<1>9. CASE CheckReach(c)
  <2>1. CASE Deny(c) BY <1>9, <2>1, DenyTravels DEF CheckReach
  <2>2. CASE \E l \in {"issue", "consume"} : Advance(c, l, dec[c])
    BY <1>9, <2>2, AdvanceTravels DEF CheckReach
  <2>3. QED BY <1>9, <2>1, <2>2 DEF CheckReach
<1>10. CASE MarkConsumed(c) BY <1>10, AdvanceTravels DEF MarkConsumed
<1>11. CASE IssueFollowOn(c)
  <2>1. PICK g : Advance(c, "dial", [dec[c] EXCEPT !.grant = g])
    BY <1>11 DEF IssueFollowOn
  <2> DEFINE d == [dec[c] EXCEPT !.grant = g]
  <2>2. d.user = dec[c].user /\ d.target = dec[c].target
    BY <1>0 DEF Dec
  <2> HIDE DEF d
  <2>3. QED BY <1>11, <2>1, <2>2, AdvanceTravels DEF IssueFollowOn, d
<1>12. CASE LoginRefused(c)    BY <1>12, ReturnTravels DEF LoginRefused
<1>13. CASE LoginIdentifies(c) BY <1>13, AdvanceTravels DEF LoginIdentifies
<1>14. CASE LoginFactor(c)     BY <1>14, AdvanceTravels DEF LoginFactor
<1>15. CASE TargetFor(c)       BY <1>15, AdvanceTravels DEF TargetFor
<1>16. CASE LoginAwake(c)      BY <1>16, AdvanceTravels DEF LoginAwake
<1>17. CASE MintToken(c)       BY <1>17, ReturnTravels DEF MintToken
<1>18. CASE ReviewRefused(c)   BY <1>18, RejectTravels DEF ReviewRefused
<1>19. CASE UserByRDPHint(c)   BY <1>19, AdvanceTravels DEF UserByRDPHint
<1>20. CASE JITTarget(c)       BY <1>20, AdvanceTravels DEF JITTarget
<1>21. CASE ReviewReach(c)     BY <1>21, AdvanceTravels DEF ReviewReach
<1>22. CASE RecordRequest(c)   BY <1>22, AdvanceTravels DEF RecordRequest
<1>23. CASE ApprovalTimesOut(c) BY <1>23, RejectTravels DEF ApprovalTimesOut
<1>24. CASE ReviewReady(c)     BY <1>24, AdvanceTravels DEF ReviewReady
<1>25. CASE DidNotWake(c)      BY <1>25, RejectTravels DEF DidNotWake
<1>26. CASE IssueJIT(c)
  <2>1. CASE Reject(c) BY <1>26, <2>1, RejectTravels DEF IssueJIT
  <2>2. CASE \E d : Advance(c, "jitmark", d)
    BY <1>26, <2>2, AdvanceTravels DEF IssueJIT
  <2>3. QED BY <1>26, <2>1, <2>2 DEF IssueJIT
<1>27. CASE MarkApproved(c)    BY <1>27, AdvanceTravels DEF MarkApproved
<1>28. CASE DialOK(c)          BY <1>28, AdvanceTravels DEF DialOK
<1>29. CASE DialFails(c)       BY <1>29, ReturnTravels DEF DialFails
<1>30. CASE Opened(c)          BY <1>30, AdvanceTravels DEF Opened
<1>31. CASE Closed(c)          BY <1>31, ReturnTravels DEF Closed
<1>32. CASE TarpitEnds(c)      BY <1>32, ReturnTravels DEF TarpitEnds
<1>33. CASE Approved(c)        BY <1>33, AdvanceTravels DEF Approved
<1>34. CASE Declined(c)        BY <1>34, RejectTravels DEF Declined
<1>35. CASE PumpEnds(c)        BY <1>35, AdvanceTravels DEF PumpEnds
<1>36. QED
  BY <1>1, <1>2, <1>3, <1>4, <1>5, <1>6, <1>7, <1>8, <1>9, <1>10, <1>11, <1>12, <1>13,
     <1>14, <1>15, <1>16, <1>17, <1>18, <1>19, <1>20, <1>21, <1>22, <1>23, <1>24, <1>25,
     <1>26, <1>27, <1>28, <1>29, <1>30, <1>31, <1>32, <1>33, <1>34, <1>35
  DEF Handle

LEMMA ConnectMoves ==
  ASSUME RelayOK, NEW c \in Conns, NEW a \in Addrs, Connect(c, a)
  PROVE  /\ pc[c] = "idle" /\ addr[c] = None /\ up
         /\ pc' = [pc EXCEPT ![c] = pc'[c]] /\ pc'[c] \in {"peek", "done"}
         /\ addr' = [addr EXCEPT ![c] = a] /\ UNCHANGED dec
BY DEF RelayOK, Connect, Goto

\* Who moves connections at all.
LEMMA RelayActors ==
  ASSUME [Next]_vars
  PROVE  \/ UNCHANGED relayVars
         \/ \E c \in Conns, a \in Addrs : Connect(c, a)
         \/ \E c \in Conns : Handle(c) \/ Approved(c) \/ Declined(c) \/ PumpEnds(c)
         \/ Stop
<1>1. CASE UNCHANGED vars
  BY <1>1 DEF vars
<1>2. ASSUME NEW r \in Reqs, UnlockBegins(r) \/ Unlock(r) PROVE UNCHANGED relayVars
  BY <1>2 DEF UnlockBegins, Unlock, UnlockReach, UnlockLoad, UnlockIssue
<1>3. CASE Administer
  BY <1>3 DEF Administer, SetStatus, RevokeGrants, RemoveUser, GrantAccess, RevokeAccess,
              RemoveTarget, SessionKick
<1>4. CASE Purge \/ Sweep \/ Tick \/ Start
  BY <1>4 DEF Purge, Sweep, Tick, Start
<1>5. QED BY <1>1, <1>2, <1>3, <1>4 DEF Next

LEMMA RelaySteps ==
  ASSUME RelayOK, [Next]_vars
  PROVE  \/ UNCHANGED relayVars
         \/ \E c \in Conns, a \in Addrs : Connect(c, a)
         \/ \E c \in Conns : Travels(c)
         \/ Stop
BY RelayActors, HandlerTravels

-----------------------------------------------------------------------------
(* Who writes what. *)

\* The steps of a handler that do more than go on.
LEMMA HandlerWrites ==
  ASSUME NEW c, Handle(c) \/ Approved(c) \/ Declined(c) \/ PumpEnds(c)
  PROVE  \/ Quiet
         \/ ConsumeRedirectToken(c) \/ MarkConsumed(c) \/ IssueFollowOn(c)
         \/ LoginFactor(c) \/ MintToken(c)
         \/ RecordRequest(c) \/ Approved(c) \/ Declined(c) \/ ApprovalTimesOut(c)
         \/ DidNotWake(c) \/ IssueJIT(c) \/ MarkApproved(c)
         \/ Opened(c) \/ Closed(c)
BY DEF Handle, PeekFails, PeekPlain, PeekToken, LookupFails, ActiveGrant, TargetByID,
       UserByID, CheckReach, LoginRefused, LoginIdentifies, TargetFor, LoginAwake,
       ReviewRefused, UserByRDPHint, JITTarget, ReviewReach, ReviewReady, DialOK, DialFails,
       TarpitEnds, PumpEnds

USE DEF storeVars, tables, accounts, service, history

LEMMA GrantWriters ==
  ASSUME [Next]_vars
  PROVE  \/ UNCHANGED <<grants, grantSeq>>
         \/ \E c \in Conns : MarkConsumed(c) \/ IssueFollowOn(c) \/ IssueJIT(c)
         \/ \E r \in Reqs : UnlockIssue(r)
         \/ \E u \in Users : RevokeGrants(u) \/ RemoveUser(u)
         \/ \E t \in Targets : RemoveTarget(t)
         \/ Purge
<1>1. CASE UNCHANGED vars
  BY <1>1 DEF vars
<1>2. ASSUME NEW c \in Conns, Handle(c) \/ Approved(c) \/ Declined(c) \/ PumpEnds(c)
      PROVE  \/ UNCHANGED <<grants, grantSeq>>
             \/ MarkConsumed(c) \/ IssueFollowOn(c) \/ IssueJIT(c)
  BY <1>2, HandlerWrites
  DEF Quiet, ConsumeRedirectToken, LoginFactor, MintToken, RecordRequest, Approved, Declined,
      ApprovalTimesOut, DidNotWake, MarkApproved, Opened, Closed, Decide
<1>3. ASSUME NEW c \in Conns, NEW a \in Addrs, Connect(c, a)
      PROVE  UNCHANGED <<grants, grantSeq>>
  BY <1>3 DEF Connect
<1>4. ASSUME NEW r \in Reqs, UnlockBegins(r) \/ Unlock(r)
      PROVE  UNCHANGED <<grants, grantSeq>> \/ UnlockIssue(r)
  BY <1>4 DEF UnlockBegins, Unlock, UnlockReach, UnlockLoad
<1>5. CASE Administer
  BY <1>5 DEF Administer, SetStatus, GrantAccess, RevokeAccess, SessionKick
<1>6. CASE Sweep \/ Tick \/ Stop \/ Start
  BY <1>6 DEF Sweep, ExpirePendingJIT, Tick, Stop, Start
<1>7. QED BY <1>1, <1>2, <1>3, <1>4, <1>5, <1>6 DEF Next

LEMMA RequestWriters ==
  ASSUME [Next]_vars
  PROVE  \/ UNCHANGED requests
         \/ \E c \in Conns : \/ RecordRequest(c) \/ Declined(c) \/ ApprovalTimesOut(c)
                             \/ DidNotWake(c) \/ MarkApproved(c)
         \/ \E u \in Users : RemoveUser(u)
         \/ \E t \in Targets : RemoveTarget(t)
         \/ Sweep
<1>1. CASE UNCHANGED vars
  BY <1>1 DEF vars
<1>2. ASSUME NEW c \in Conns, Handle(c) \/ Approved(c) \/ Declined(c) \/ PumpEnds(c)
      PROVE  \/ UNCHANGED requests
             \/ RecordRequest(c) \/ Declined(c) \/ ApprovalTimesOut(c)
             \/ DidNotWake(c) \/ MarkApproved(c)
  BY <1>2, HandlerWrites
  DEF Quiet, ConsumeRedirectToken, MarkConsumed, IssueFollowOn, LoginFactor, MintToken,
      Approved, IssueJIT, Opened, Closed
<1>3. ASSUME NEW c \in Conns, NEW a \in Addrs, Connect(c, a)
      PROVE  UNCHANGED requests
  BY <1>3 DEF Connect
<1>4. ASSUME NEW r \in Reqs, UnlockBegins(r) \/ Unlock(r)
      PROVE  UNCHANGED requests
  BY <1>4 DEF UnlockBegins, Unlock, UnlockReach, UnlockLoad, UnlockIssue
<1>5. CASE Administer
  BY <1>5 DEF Administer, SetStatus, RevokeGrants, GrantAccess, RevokeAccess, SessionKick
<1>6. CASE Purge \/ Tick \/ Stop \/ Start
  BY <1>6 DEF Purge, PurgeExpired, Tick, Stop, Start
<1>7. QED BY <1>1, <1>2, <1>3, <1>4, <1>5, <1>6 DEF Next

LEMMA RowWriters ==
  ASSUME [Next]_vars
  PROVE  \/ UNCHANGED <<rows, up>>
         \/ \E c \in Conns : (Opened(c) \/ Closed(c) \/ SessionKick(c)) /\ up' = up
         \/ \E u \in Users : RemoveUser(u) /\ up' = up
         \/ \E t \in Targets : RemoveTarget(t) /\ up' = up
         \/ (Purge /\ up' = up) \/ Stop \/ Start
<1>1. CASE UNCHANGED vars
  BY <1>1 DEF vars
<1>2. ASSUME NEW c \in Conns, Handle(c) \/ Approved(c) \/ Declined(c) \/ PumpEnds(c)
      PROVE  (UNCHANGED rows \/ Opened(c) \/ Closed(c)) /\ up' = up
  BY <1>2, HandlerWrites
  DEF Quiet, ConsumeRedirectToken, MarkConsumed, IssueFollowOn, LoginFactor, MintToken,
      RecordRequest, Approved, Declined, ApprovalTimesOut, DidNotWake, MarkApproved, Decide,
      IssueJIT, Opened, Closed
<1>3. ASSUME NEW c \in Conns, NEW a \in Addrs, Connect(c, a)
      PROVE  UNCHANGED <<rows, up>>
  BY <1>3 DEF Connect
<1>4. ASSUME NEW r \in Reqs, UnlockBegins(r) \/ Unlock(r)
      PROVE  UNCHANGED <<rows, up>>
  BY <1>4 DEF UnlockBegins, Unlock, UnlockReach, UnlockLoad, UnlockIssue
<1>5. CASE Administer
  BY <1>5 DEF Administer, SetStatus, RevokeGrants, GrantAccess, RevokeAccess, SessionKick,
              RemoveUser, RemoveTarget
<1>6. CASE Purge \/ Sweep \/ Tick
  BY <1>6 DEF Purge, Sweep, ExpirePendingJIT, Tick
<1>7. QED BY <1>1, <1>2, <1>3, <1>4, <1>5, <1>6 DEF Next

LEMMA TokenWriters ==
  ASSUME [Next]_vars
  PROVE  \/ UNCHANGED <<tokens, spent>>
         \/ \E c \in Conns : ConsumeRedirectToken(c) \/ MintToken(c)
         \/ \E u \in Users : RemoveUser(u)
         \/ \E t \in Targets : RemoveTarget(t)
<1>1. CASE UNCHANGED vars
  BY <1>1 DEF vars
<1>2. ASSUME NEW c \in Conns, Handle(c) \/ Approved(c) \/ Declined(c) \/ PumpEnds(c)
      PROVE  UNCHANGED <<tokens, spent>> \/ ConsumeRedirectToken(c) \/ MintToken(c)
  BY <1>2, HandlerWrites
  DEF Quiet, MarkConsumed, IssueFollowOn, LoginFactor, RecordRequest, Approved, Declined,
      ApprovalTimesOut, DidNotWake, MarkApproved, Decide, IssueJIT, Opened, Closed
<1>3. ASSUME NEW c \in Conns, NEW a \in Addrs, Connect(c, a)
      PROVE  UNCHANGED <<tokens, spent>>
  BY <1>3 DEF Connect
<1>4. ASSUME NEW r \in Reqs, UnlockBegins(r) \/ Unlock(r)
      PROVE  UNCHANGED <<tokens, spent>>
  BY <1>4 DEF UnlockBegins, Unlock, UnlockReach, UnlockLoad, UnlockIssue
<1>5. CASE Administer
  BY <1>5 DEF Administer, SetStatus, RevokeGrants, GrantAccess, RevokeAccess, SessionKick,
              Observe
<1>6. CASE Purge \/ Sweep \/ Tick \/ Stop \/ Start
  BY <1>6 DEF Purge, PurgeExpired, Sweep, ExpirePendingJIT, Tick, Stop, Start
<1>7. QED BY <1>1, <1>2, <1>3, <1>4, <1>5, <1>6 DEF Next

-----------------------------------------------------------------------------
(* Grants: AUTOINCREMENT tells them apart, so a revoked one can be          *)
(* followed from one state to the next.                                     *)

GrantsNumbered ==
  \A g \in grants : g.id <= grantSeq /\ \A h \in grants : h.id = g.id => h = g

\* What no statement does to a revoked grant.
RevokedKept ==
  \A g \in grants : g.revoked =>
    \A h \in grants' : h.id = g.id => h.revoked /\ h.expires = g.expires

LEMMA CreateGrantKeeps ==
  ASSUME grants \subseteq Grant, grantSeq \in Nat, GrantsNumbered,
         NEW u, NEW t, NEW k, NEW ttl, CreateGrant(u, t, k, ttl)
  PROVE  GrantsNumbered' /\ RevokedKept
<1> DEFINE new == [id |-> grantSeq + 1, user |-> u, target |-> t, key |-> k,
                   expires |-> now + ttl, revoked |-> FALSE]
<1>1. grants' = grants \cup {new} /\ grantSeq' = grantSeq + 1
  BY DEF CreateGrant
<1>2. new.id = grantSeq + 1
  OBVIOUS
<1> HIDE DEF new
<1>3. \A g \in grants : g.id \in Nat /\ g.id <= grantSeq /\ g.id # new.id
  BY <1>2 DEF Grant, GrantsNumbered
<1>4. GrantsNumbered'
  BY <1>1, <1>2, <1>3 DEF GrantsNumbered
<1>5. RevokedKept
  BY <1>1, <1>3 DEF GrantsNumbered, RevokedKept
<1>6. QED BY <1>4, <1>5

LEMMA FewerGrantsKeep ==
  ASSUME GrantsNumbered, grants' \subseteq grants, grantSeq' = grantSeq
  PROVE  GrantsNumbered' /\ RevokedKept
BY DEF GrantsNumbered, RevokedKept

LEMMA ConsumeGrantKeeps ==
  ASSUME grants \subseteq Grant, GrantsNumbered, grantSeq' = grantSeq,
         NEW id, NEW until, ConsumeGrant(id, until)
  PROVE  GrantsNumbered' /\ RevokedKept
<1> DEFINE new(g) == IF g.id = id /\ ~g.revoked
                       THEN [g EXCEPT !.expires = Later(g.expires, until)] ELSE g
<1>1. grants' = {new(g) : g \in grants}
  BY DEF ConsumeGrant
<1>2. \A g \in grants : /\ new(g).id = g.id
                        /\ g.revoked => new(g) = g
  BY DEF Grant
<1> HIDE DEF new
<1>3. \A h \in grants' : \E g \in grants : h = new(g)
  BY <1>1
<1>4. GrantsNumbered'
  BY <1>2, <1>3 DEF GrantsNumbered
<1>5. RevokedKept
  BY <1>2, <1>3 DEF GrantsNumbered, RevokedKept
<1>6. QED BY <1>4, <1>5

LEMMA RevokeGrantsKeeps ==
  ASSUME grants \subseteq Grant, GrantsNumbered, grantSeq' = grantSeq,
         NEW u, RevokeGrantsForUser(u)
  PROVE  GrantsNumbered' /\ RevokedKept
<1> DEFINE new(g) == IF g.user = u THEN [g EXCEPT !.revoked = TRUE] ELSE g
<1>1. grants' = {new(g) : g \in grants}
  BY DEF RevokeGrantsForUser
<1>2. \A g \in grants : /\ new(g).id = g.id
                        /\ g.revoked => new(g).revoked /\ new(g).expires = g.expires
  BY DEF Grant
<1> HIDE DEF new
<1>3. \A h \in grants' : \E g \in grants : h = new(g)
  BY <1>1
<1>4. GrantsNumbered'
  BY <1>2, <1>3 DEF GrantsNumbered
<1>5. RevokedKept
  BY <1>2, <1>3 DEF GrantsNumbered, RevokedKept
<1>6. QED BY <1>4, <1>5

LEMMA GrantSteps ==
  ASSUME TInv, GrantsNumbered, [Next]_vars
  PROVE  GrantsNumbered' /\ RevokedKept
<1>0. grants \subseteq Grant /\ grantSeq \in Nat
  BY DEF TInv, StoreTypeOK
<1>1. CASE UNCHANGED <<grants, grantSeq>>
  BY <1>1, FewerGrantsKeep
<1>2. ASSUME NEW c \in Conns, MarkConsumed(c)
      PROVE  GrantsNumbered' /\ RevokedKept
  BY <1>0, <1>2, ConsumeGrantKeeps, FewerGrantsKeep DEF MarkConsumed
<1>3. ASSUME NEW c \in Conns, IssueFollowOn(c) \/ IssueJIT(c)
      PROVE  GrantsNumbered' /\ RevokedKept
  BY <1>0, <1>3, CreateGrantKeeps, FewerGrantsKeep DEF IssueFollowOn, IssueJIT
<1>4. ASSUME NEW r \in Reqs, UnlockIssue(r)
      PROVE  GrantsNumbered' /\ RevokedKept
  BY <1>0, <1>4, CreateGrantKeeps, FewerGrantsKeep DEF UnlockIssue
<1>5. ASSUME NEW u \in Users, RevokeGrants(u)
      PROVE  GrantsNumbered' /\ RevokedKept
  BY <1>0, <1>5, RevokeGrantsKeeps DEF RevokeGrants
<1>6. ASSUME NEW u \in Users, RemoveUser(u)
      PROVE  GrantsNumbered' /\ RevokedKept
  BY <1>6, FewerGrantsKeep DEF RemoveUser, DeleteUser
<1>7. ASSUME NEW t \in Targets, RemoveTarget(t)
      PROVE  GrantsNumbered' /\ RevokedKept
  BY <1>7, FewerGrantsKeep DEF RemoveTarget, DeleteTarget
<1>8. CASE Purge
  BY <1>8, FewerGrantsKeep DEF Purge, PurgeExpired
<1>9. QED BY <1>1, <1>2, <1>3, <1>4, <1>5, <1>6, <1>7, <1>8, GrantWriters

\* A connection that read a grant before the administrator revoked it neither
\* revives nor extends it: ConsumeGrant's condition on revoked_at, and every other
\* statement on grants, through every interleaving of RevokeGrantsForUser.
THEOREM RevocationIsFinal == Spec => RevokedStaysRevoked
<1>1. Init => GrantsNumbered
  BY DEF Init, GrantsNumbered
<1>2. TInv /\ GrantsNumbered /\ [Next]_vars => GrantsNumbered'
  BY GrantSteps
<1>3. Spec => [](TInv /\ SInv)
  BY SInvAlways
<1>4. Spec => []GrantsNumbered
  BY <1>1, <1>2, <1>3, PTL DEF Spec
<1>5. TInv /\ GrantsNumbered /\ [Next]_vars =>
        [\A g \in grants : g.revoked =>
           \A h \in grants' : h.id = g.id => h.revoked /\ h.expires = g.expires]_vars
  BY GrantSteps DEF RevokedKept
<1>6. QED BY <1>3, <1>4, <1>5, PTL DEF Spec, RevokedStaysRevoked

-----------------------------------------------------------------------------
(* Requests: a row tells where the connection it is about can still be.     *)

\* Whoever is past the request, or turned away, or gone, stays so.
LEMMA NoWayBack ==
  ASSUME RelayOK, [Next]_vars, NEW c \in Conns
  PROVE  /\ pc[c] \in Asked => pc'[c] \in Asked
         /\ pc[c] \in {"tarpit", "done"} => pc'[c] \in {"tarpit", "done"}
         /\ pc[c] = "done" => pc'[c] = "done"
<1>0. pc \in [Conns -> PCs]
  BY DEF RelayOK
<1>1. CASE UNCHANGED relayVars
  BY <1>1 DEF relayVars
<1>2. ASSUME NEW d \in Conns, NEW a \in Addrs, Connect(d, a)
      PROVE  pc[d] = "idle" /\ pc' = [pc EXCEPT ![d] = pc'[d]]
  BY <1>2, ConnectMoves
<1>3. ASSUME NEW d \in Conns, pc[d] = "idle", pc' = [pc EXCEPT ![d] = pc'[d]]
      PROVE  pc[c] # "idle" => pc'[c] = pc[c]
  BY <1>0, <1>3
<1>4. ASSUME NEW d \in Conns, Travels(d)
      PROVE  /\ d = c \/ pc'[c] = pc[c]
             /\ pc[d] # "done"
             /\ pc[d] \in Asked => pc'[d] \in Asked
             /\ pc[d] = "tarpit" => pc'[d] = "done"
  BY <1>0, <1>4 DEF Travels, Goes, Route
<1>5. CASE Stop
  BY <1>5 DEF Stop, Asked
<1>6. QED
  BY <1>1, <1>2, <1>3, <1>4, <1>5, RelaySteps DEF Asked

RequestsPlaced ==
  \A r \in requests : /\ pc[r.id] \in Asked
                      /\ r.state = "denied" => pc[r.id] \in {"tarpit", "done"}

\* What is decided stays decided.
DecisionsKept ==
  \A r \in requests : r.state # "pending" =>
    \E s \in requests' : s.id = r.id /\ s.state = r.state

\* Where the next row of each request comes from.
Traced ==
  \A s \in requests' : \E r \in requests :
    s.id = r.id /\ (s.state = "denied" => r.state = "denied" \/ pc'[r.id] = "tarpit")

LEMMA TracedKeeps ==
  ASSUME TInv, RequestsPlaced, [Next]_vars, Traced
  PROVE  RequestsPlaced'
<1>1. \A r \in requests : r.id \in Conns
  BY DEF TInv, StoreTypeOK, Request
<1>2. \A r \in requests : /\ pc[r.id] \in Asked => pc'[r.id] \in Asked
                          /\ pc[r.id] \in {"tarpit", "done"} => pc'[r.id] \in {"tarpit", "done"}
  BY <1>1, NoWayBack DEF TInv
<1>3. QED BY <1>2 DEF Traced, RequestsPlaced

LEMMA SetJITStateTraced ==
  ASSUME requests \subseteq Request, NEW c, NEW s, SetJITState(c, s),
         s = "denied" => pc'[c] = "tarpit"
  PROVE  Traced /\ DecisionsKept
<1> DEFINE new(r) == IF r.id = c /\ r.state = "pending" THEN [r EXCEPT !.state = s] ELSE r
<1>1. requests' = {new(r) : r \in requests}
  BY DEF SetJITState
<1>2. \A r \in requests : /\ new(r).id = r.id
                          /\ r.state # "pending" => new(r) = r
                          /\ new(r).state = r.state \/ (r.id = c /\ new(r).state = s)
  BY DEF Request
<1> HIDE DEF new
<1>3. /\ \A h \in requests' : \E r \in requests : h = new(r)
      /\ \A r \in requests : new(r) \in requests'
  BY <1>1
<1>4. Traced
  BY <1>2, <1>3 DEF Traced
<1>5. DecisionsKept
  BY <1>2, <1>3 DEF DecisionsKept
<1>6. QED BY <1>4, <1>5

LEMMA DecideTraced ==
  ASSUME requests \subseteq Request, NEW c, NEW s, Decide(c, s),
         s = "denied" => pc'[c] = "tarpit"
  PROVE  Traced /\ DecisionsKept
<1>1. CASE requests' = requests
  BY <1>1 DEF Traced, DecisionsKept
<1>2. CASE SetJITState(c, s)
  BY <1>2, SetJITStateTraced
<1>3. QED BY <1>1, <1>2 DEF Decide

\* ON DELETE SET NULL leaves the state of a request alone.
LEMMA DeletesTraced ==
  ASSUME requests \subseteq Request, (\E u : DeleteUser(u)) \/ (\E t : DeleteTarget(t))
  PROVE  Traced /\ DecisionsKept
<1>1. ASSUME NEW u, DeleteUser(u)
      PROVE  Traced /\ DecisionsKept
  <2> DEFINE new(r) == IF r.user = u THEN [r EXCEPT !.user = None] ELSE r
  <2>1. requests' = {new(r) : r \in requests}
    BY <1>1 DEF DeleteUser
  <2>2. \A r \in requests : new(r).id = r.id /\ new(r).state = r.state
    BY DEF Request
  <2> HIDE DEF new
  <2>3. QED BY <2>1, <2>2 DEF Traced, DecisionsKept
<1>2. ASSUME NEW t, DeleteTarget(t)
      PROVE  Traced /\ DecisionsKept
  <2> DEFINE new(r) == IF r.target = t THEN [r EXCEPT !.target = None] ELSE r
  <2>1. requests' = {new(r) : r \in requests}
    BY <1>2 DEF DeleteTarget
  <2>2. \A r \in requests : new(r).id = r.id /\ new(r).state = r.state
    BY DEF Request
  <2> HIDE DEF new
  <2>3. QED BY <2>1, <2>2 DEF Traced, DecisionsKept
<1>3. QED BY <1>1, <1>2

LEMMA SweepTraced ==
  ASSUME requests \subseteq Request, ExpirePendingJIT
  PROVE  Traced /\ DecisionsKept
<1> DEFINE new(r) == IF r.state = "pending" /\ r.created < now - SweepAge
                       THEN [r EXCEPT !.state = "timeout"] ELSE r
<1>1. requests' = {new(r) : r \in requests}
  BY DEF ExpirePendingJIT
<1>2. \A r \in requests : /\ new(r).id = r.id
                          /\ r.state # "pending" => new(r) = r
                          /\ new(r).state = "denied" => r.state = "denied"
  BY DEF Request
<1> HIDE DEF new
<1>3. QED BY <1>1, <1>2 DEF Traced, DecisionsKept

LEMMA RecordRequestPlaces ==
  ASSUME TInv, RequestsPlaced, [Next]_vars, NEW c \in Conns, RecordRequest(c)
  PROVE  RequestsPlaced' /\ DecisionsKept
<1> DEFINE new == [id |-> c, user |-> dec[c].user, target |-> dec[c].target,
                   key |-> Key(c), created |-> now, state |-> "pending"]
<1>1. requests' = requests \cup {new}
  BY DEF RecordRequest, CreateJITRequest
<1>2. new.id = c /\ new.state = "pending"
  OBVIOUS
<1> HIDE DEF new
<1>3. \A r \in requests : /\ r.id \in Conns
                          /\ pc[r.id] \in Asked => pc'[r.id] \in Asked
                          /\ pc[r.id] \in {"tarpit", "done"} => pc'[r.id] \in {"tarpit", "done"}
  BY NoWayBack DEF TInv, StoreTypeOK, Request
<1>4. pc'[c] = "ask"
  BY DEF RecordRequest, Advance, Goto, TInv, RelayOK
<1>5. RequestsPlaced'
  BY <1>1, <1>2, <1>3, <1>4 DEF RequestsPlaced, Asked
<1>6. QED BY <1>1, <1>5 DEF DecisionsKept

LEMMA RequestSteps ==
  ASSUME TInv, RequestsPlaced, [Next]_vars
  PROVE  RequestsPlaced' /\ DecisionsKept
<1>0. requests \subseteq Request
  BY DEF TInv, StoreTypeOK
<1>1. CASE UNCHANGED requests
  <2>1. Traced /\ DecisionsKept
    BY <1>1 DEF Traced, DecisionsKept
  <2>2. QED BY <2>1, TracedKeeps
<1>2. ASSUME NEW c \in Conns, RecordRequest(c)
      PROVE  RequestsPlaced' /\ DecisionsKept
  BY <1>2, RecordRequestPlaces
<1>3. ASSUME NEW c \in Conns,
             Declined(c) \/ ApprovalTimesOut(c) \/ DidNotWake(c) \/ MarkApproved(c)
      PROVE  Traced /\ DecisionsKept
  <2>1. Declined(c) => pc'[c] = "tarpit"
    BY DEF Declined, Reject, Goto, TInv, RelayOK
  <2>2. PICK s \in {"denied", "timeout", "approved"} :
          Decide(c, s) /\ (s = "denied" => pc'[c] = "tarpit")
    BY <1>3, <2>1 DEF Declined, ApprovalTimesOut, DidNotWake, MarkApproved
  <2>3. QED BY <1>0, <2>2, DecideTraced
<1>4. ASSUME NEW u \in Users, RemoveUser(u)
      PROVE  Traced /\ DecisionsKept
  BY <1>0, <1>4, DeletesTraced DEF RemoveUser
<1>5. ASSUME NEW t \in Targets, RemoveTarget(t)
      PROVE  Traced /\ DecisionsKept
  BY <1>0, <1>5, DeletesTraced DEF RemoveTarget
<1>6. ASSUME Sweep
      PROVE  Traced /\ DecisionsKept
  BY <1>0, <1>6, SweepTraced DEF Sweep
<1>7. QED
  BY <1>1, <1>2, <1>3, <1>4, <1>5, <1>6, RequestWriters, TracedKeeps

LEMMA RequestsAlways == Spec => [](TInv /\ RequestsPlaced)
<1>1. Init => RequestsPlaced
  BY DEF Init, RequestsPlaced
<1>2. TInv /\ RequestsPlaced /\ [Next]_vars => RequestsPlaced'
  BY RequestSteps
<1>3. QED BY <1>1, <1>2, InitTInv, StepTInv, PTL DEF Spec

\* A decision on a request is never written over: neither the hold running out nor
\* the sweep of housekeeping reaches a row that is no longer pending, and deleting
\* the account or the machine only empties its columns.
THEOREM RequestsDecidedOnce == Spec => DecidedOnce
<1>1. TInv /\ RequestsPlaced /\ [Next]_vars =>
        [\A r \in requests : r.state # "pending" =>
           \E s \in requests' : s.id = r.id /\ s.state = r.state]_vars
  BY RequestSteps DEF DecisionsKept
<1>2. QED BY <1>1, RequestsAlways, PTL DEF Spec, DecidedOnce

\* Review turns a declined connection away before it writes the answer, and no way
\* leads from the tarpit to the machine.
THEOREM DeclinedStaysOut == Spec => []DeclinedNotForwarded
<1>1. RequestsPlaced => DeclinedNotForwarded
  BY DEF RequestsPlaced, DeclinedNotForwarded, Admitted, Forwarded
<1>2. QED BY <1>1, RequestsAlways, PTL

-----------------------------------------------------------------------------
(* Session rows: an open one goes with a connection that is forwarded.      *)

\* Copying ends in the close, and the close ends the row, unless the service does.
LEMMA ForwardedUntilClosed ==
  ASSUME RelayOK, [Next]_vars, NEW c \in Conns, pc[c] \in Forwarded
  PROVE  pc'[c] \in Forwarded \/ Closed(c) \/ Stop
<1>0. pc \in [Conns -> PCs]
  BY DEF RelayOK
<1>1. CASE UNCHANGED relayVars
  BY <1>1 DEF relayVars
<1>2. ASSUME NEW d \in Conns, NEW a \in Addrs, Connect(d, a)
      PROVE  pc'[c] = pc[c]
  <2>1. pc[d] = "idle" /\ pc' = [pc EXCEPT ![d] = pc'[d]]
    BY <1>2, ConnectMoves
  <2>2. QED BY <1>0, <2>1 DEF Forwarded
<1>3. ASSUME NEW d \in Conns, Handle(d) \/ Approved(d) \/ Declined(d) \/ PumpEnds(d)
      PROVE  pc'[c] \in Forwarded \/ Closed(c)
  <2>1. CASE d # c
    <3>1. Travels(d)
      BY <1>3, HandlerTravels
    <3>2. QED BY <1>0, <2>1, <3>1 DEF Travels, Goes
  <2>2. CASE d = c
    <3>1. PumpEnds(c) \/ Closed(c)
      BY <1>3, <2>2
      DEF Forwarded, Handle, PeekFails, PeekPlain, PeekToken, LookupFails, ActiveGrant,
          ConsumeRedirectToken, TargetByID, UserByID, CheckReach, MarkConsumed,
          IssueFollowOn, LoginRefused, LoginIdentifies, LoginFactor, TargetFor, LoginAwake,
          MintToken, ReviewRefused, UserByRDPHint, JITTarget, ReviewReach, RecordRequest,
          ApprovalTimesOut, ReviewReady, DidNotWake, IssueJIT, MarkApproved, DialOK,
          DialFails, Opened, TarpitEnds, Approved, Declined
    <3>2. PumpEnds(c) => pc'[c] = "close"
      BY <1>0 DEF PumpEnds, Advance, Goto
    <3>3. QED BY <3>1, <3>2 DEF Forwarded
  <2>3. QED BY <2>1, <2>2
<1>4. QED BY <1>1, <1>2, <1>3, RelayActors

\* Where the open rows of the next state come from.
RowsTraced ==
  \A s \in rows' : s.open =>
    pc'[s.id] \in Forwarded \/ \E r \in rows : r.open /\ r.id = s.id

LEMMA CloseRDPSessionCloses ==
  ASSUME rows \subseteq Row, NEW c, CloseRDPSession(c)
  PROVE  \A s \in rows' : s.open => s \in rows /\ s.id # c
<1> DEFINE new(r) == IF r.id = c THEN [r EXCEPT !.open = FALSE] ELSE r
<1>1. rows' = {new(r) : r \in rows}
  BY DEF CloseRDPSession
<1>2. \A r \in rows : /\ r.id = c => new(r).open = FALSE
                      /\ r.id # c => new(r) = r
  BY DEF Row
<1> HIDE DEF new
<1>3. QED BY <1>1, <1>2

LEMMA DetachTraced ==
  ASSUME rows \subseteq Row, NEW S
  PROVE  \A s \in Detach(S) : \E r \in rows : r.open = s.open /\ r.id = s.id
<1> DEFINE new(r) == IF \E g \in S : g.id = r.grant THEN r ELSE [r EXCEPT !.grant = None]
<1>1. Detach(S) = {new(r) : r \in rows}
  BY DEF Detach
<1>2. \A r \in rows : new(r).open = r.open /\ new(r).id = r.id
  BY DEF Row
<1> HIDE DEF new
<1>3. QED BY <1>1, <1>2

LEMMA OpenedTraced ==
  ASSUME RelayOK, NEW c \in Conns, Opened(c)
  PROVE  RowsTraced
<1> DEFINE new == [id |-> c, grant |-> dec[c].grant, target |-> dec[c].target, open |-> TRUE]
<1>1. pc'[c] \in Forwarded
  BY DEF Opened, Advance, Goto, RelayOK, Forwarded
<1>2. rows' = rows \cup {new} \/ rows' = rows
  BY DEF Opened, OpenRDPSession
<1>3. new.id = c
  OBVIOUS
<1> HIDE DEF new
<1>4. QED BY <1>1, <1>2, <1>3 DEF RowsTraced

LEMMA DeleteTargetTraced ==
  ASSUME rows \subseteq Row, NEW t, DeleteTarget(t)
  PROVE  RowsTraced
<1> DEFINE D == Detach({g \in grants : g.target # t})
           new(r) == IF r.target = t THEN [r EXCEPT !.target = None] ELSE r
<1>1. rows' = {new(r) : r \in D}
  BY DEF DeleteTarget
<1>2. D \subseteq Row
  BY DetachTyped
<1>3. \A r \in D : new(r).open = r.open /\ new(r).id = r.id
  BY <1>2 DEF Row
<1>4. \A s \in D : \E r \in rows : r.open = s.open /\ r.id = s.id
  BY DetachTraced
<1> HIDE DEF D, new
<1>5. QED BY <1>1, <1>3, <1>4 DEF RowsTraced

LEMMA RowSteps ==
  ASSUME TInv, [Next]_vars
  PROVE  RowsTraced \/ Start
<1>0. rows \subseteq Row /\ RelayOK
  BY DEF TInv, StoreTypeOK
<1>1. ASSUME rows' = rows PROVE RowsTraced
  BY <1>1 DEF RowsTraced
<1>2. ASSUME NEW c \in Conns, Opened(c) PROVE RowsTraced
  BY <1>0, <1>2, OpenedTraced
<1>3. ASSUME NEW c \in Conns, Closed(c) \/ SessionKick(c) PROVE RowsTraced
  BY <1>0, <1>3, CloseRDPSessionCloses DEF Closed, SessionKick, RowsTraced
<1>4. ASSUME NEW u \in Users, RemoveUser(u) PROVE RowsTraced
  <2>1. rows' = Detach({g \in grants : g.user # u})
    BY <1>4 DEF RemoveUser, DeleteUser
  <2>2. QED BY <1>0, <2>1, DetachTraced DEF RowsTraced
<1>5. ASSUME NEW t \in Targets, RemoveTarget(t) PROVE RowsTraced
  BY <1>0, <1>5, DeleteTargetTraced DEF RemoveTarget
<1>6. ASSUME Purge PROVE RowsTraced
  <2>1. rows' = Detach({g \in grants : g.expires >= now - PurgeAge})
    BY <1>6 DEF Purge, PurgeExpired
  <2>2. QED BY <1>0, <2>1, DetachTraced DEF RowsTraced
<1>7. Stop => rows' = rows
  BY DEF Stop
<1>8. QED BY <1>1, <1>2, <1>3, <1>4, <1>5, <1>6, <1>7, RowWriters

LEMMA OpenRowsStep ==
  ASSUME TInv, OpenRowsAreForwarded, [Next]_vars
  PROVE  OpenRowsAreForwarded'
<1>0. rows \subseteq Row /\ RelayOK
  BY DEF TInv, StoreTypeOK
<1>1. CASE Start
  <2>1. \A s \in rows' : s.open = FALSE
    BY <1>0, <1>1 DEF Start, MarkStaleSessionsClosed, Row
  <2>2. QED BY <2>1 DEF OpenRowsAreForwarded
<1>2. CASE ~Start
  <2> SUFFICES ASSUME up', NEW s \in rows', s.open
               PROVE  pc'[s.id] \in Forwarded
    BY DEF OpenRowsAreForwarded
  <2>1. ~Stop
    BY DEF Stop
  <2>2. up
    BY <1>2, <2>1, RowWriters
  <2>3. CASE pc'[s.id] \in Forwarded
    BY <2>3
  <2>4. CASE \E r \in rows : r.open /\ r.id = s.id
    <3>1. s.id \in Conns /\ pc[s.id] \in Forwarded
      BY <1>0, <2>2, <2>4 DEF OpenRowsAreForwarded, Row
    <3>2. ~Closed(s.id)
      BY <1>0, CloseRDPSessionCloses DEF Closed
    <3>3. QED BY <1>0, <2>1, <3>1, <3>2, ForwardedUntilClosed
  <2>5. QED BY <1>2, <2>3, <2>4, RowSteps DEF RowsTraced
<1>3. QED BY <1>1, <1>2

\* An open row of rdp_sessions is a connection the running service is copying for:
\* Opened comes after the dial, every end of the copy passes through Closed, and what
\* a crash left open MarkStaleSessionsClosed closes before the relay listens.
THEOREM SessionRowsTrue == Spec => []OpenRowsAreForwarded
<1>1. Init => OpenRowsAreForwarded
  BY DEF Init, OpenRowsAreForwarded
<1>2. TInv /\ OpenRowsAreForwarded /\ [Next]_vars => OpenRowsAreForwarded'
  BY OpenRowsStep
<1>3. QED BY <1>1, <1>2, InitTInv, StepTInv, PTL DEF Spec

-----------------------------------------------------------------------------
(* The slots of the relay.  Only finitely many connections ever hold one,   *)
(* which is itself part of the invariant: nothing bounds Conns.             *)

Holders(a) == {c \in Conns : addr[c] = a /\ Held(c)}

Counted(a) ==
  /\ IsFiniteSet(Holders(a))
  /\ slots[a] = Cardinality(Holders(a))
  /\ slots[a] <= MaxConnsPerIP

SlotsCounted == MaxConnsPerIP > 0 => \A a \in Addrs : Counted(a)

LEMMA SameHoldersCounted ==
  ASSUME NEW a, Counted(a), Holders(a)' = Holders(a), slots'[a] = slots[a]
  PROVE  Counted(a)'
BY DEF Counted

LEMMA JoinCounted ==
  ASSUME NEW a, NEW c, Counted(a), c \notin Holders(a), Holders(a)' = Holders(a) \cup {c},
         slots[a] < MaxConnsPerIP, slots'[a] = slots[a] + 1
  PROVE  Counted(a)'
<1>1. IsFiniteSet(Holders(a)')
  BY FS_AddElement DEF Counted
<1>2. Cardinality(Holders(a)') = Cardinality(Holders(a)) + 1
  BY FS_AddElement DEF Counted
<1>3. Cardinality(Holders(a)) \in Nat
  BY FS_CardinalityType DEF Counted
<1>4. slots'[a] <= MaxConnsPerIP
  BY <1>3, GatewayAssumption DEF Counted
<1>5. QED BY <1>1, <1>2, <1>4 DEF Counted

LEMMA LeaveCounted ==
  ASSUME NEW a, NEW c, Counted(a), c \in Holders(a), Holders(a)' = Holders(a) \ {c},
         slots'[a] = slots[a] - 1
  PROVE  Counted(a)'
<1>1. IsFiniteSet(Holders(a)')
  BY FS_RemoveElement DEF Counted
<1>2. Cardinality(Holders(a)') = Cardinality(Holders(a)) - 1
  BY FS_RemoveElement DEF Counted
<1>3. Cardinality(Holders(a)) \in Nat
  BY FS_CardinalityType DEF Counted
<1>4. slots'[a] <= MaxConnsPerIP
  BY <1>3, GatewayAssumption DEF Counted
<1>5. QED BY <1>1, <1>2, <1>4 DEF Counted

LEMMA ConnectCounted ==
  ASSUME RelayOK, MaxConnsPerIP > 0, NEW c \in Conns, NEW b \in Addrs, Connect(c, b),
         NEW a \in Addrs, Counted(a)
  PROVE  Counted(a)'
<1>1. /\ pc[c] = "idle" /\ addr[c] = None /\ None \notin Addrs
      /\ pc' = [pc EXCEPT ![c] = pc'[c]] /\ addr' = [addr EXCEPT ![c] = b]
      /\ pc \in [Conns -> PCs] /\ addr \in [Conns -> Addrs \cup {None}]
      /\ slots \in [Addrs -> Int]
  BY ConnectMoves, GatewayAssumption DEF RelayOK
<1>2. \A d \in Conns : d # c => pc'[d] = pc[d] /\ addr'[d] = addr[d]
  BY <1>1
<1>3. addr'[c] = b
  BY <1>1
<1>4. c \notin Holders(a)
  BY <1>1 DEF Holders
<1>5. MaxConnsPerIP # 0
  BY GatewayAssumption
<1>6. CASE slots[b] < MaxConnsPerIP
  <2>1. pc'[c] = "peek" /\ slots' = [slots EXCEPT ![b] = @ + 1]
    BY <1>1, <1>5, <1>6 DEF Connect, Goto, Acquire
  <2>2. CASE a = b
    <3>1. Holders(a)' = Holders(a) \cup {c}
      BY <1>2, <1>3, <2>1, <2>2 DEF Holders, Held
    <3>2. slots'[a] = slots[a] + 1
      BY <1>1, <2>1, <2>2
    <3>3. QED BY <1>4, <1>6, <2>2, <3>1, <3>2, JoinCounted
  <2>3. CASE a # b
    <3>1. Holders(a)' = Holders(a)
      BY <1>1, <1>2, <1>3, <2>3 DEF Holders, Held
    <3>2. slots'[a] = slots[a]
      BY <1>1, <2>1, <2>3
    <3>3. QED BY <3>1, <3>2, SameHoldersCounted
  <2>4. QED BY <2>2, <2>3
<1>7. CASE ~(slots[b] < MaxConnsPerIP)
  <2>1. pc'[c] = "done" /\ slots' = slots
    BY <1>1, <1>5, <1>7 DEF Connect, Goto
  <2>2. Holders(a)' = Holders(a)
    BY <1>1, <1>2, <2>1 DEF Holders, Held
  <2>3. QED BY <2>1, <2>2, SameHoldersCounted
<1>8. QED BY <1>6, <1>7

LEMMA TravelsCounted ==
  ASSUME RelayOK, MaxConnsPerIP > 0, NEW c \in Conns, Travels(c),
         NEW a \in Addrs, Counted(a)
  PROVE  Counted(a)'
<1>1. PICK l, d : Goes(c, l, d) /\ Route(pc[c], dec[c], l, d)
  BY DEF Travels
<1>2. /\ Held(c) /\ l # "idle" /\ addr' = addr /\ addr[c] \in Addrs
      /\ pc \in [Conns -> PCs] /\ slots \in [Addrs -> Int]
      /\ pc' = [pc EXCEPT ![c] = l]
  BY <1>1 DEF Route, Goes, Held, RelayOK
<1>3. \A e \in Conns : e # c => pc'[e] = pc[e]
  BY <1>2
<1>4. pc'[c] = l
  BY <1>2
<1>5. MaxConnsPerIP # 0
  BY GatewayAssumption
<1>6. CASE l # "done"
  <2>1. Holders(a)' = Holders(a)
    BY <1>2, <1>3, <1>4, <1>6 DEF Holders, Held
  <2>2. slots' = slots
    BY <1>1, <1>6 DEF Goes
  <2>3. QED BY <2>1, <2>2, SameHoldersCounted
<1>7. CASE l = "done"
  <2>1. slots' = [slots EXCEPT ![addr[c]] = @ - 1]
    BY <1>1, <1>5, <1>7 DEF Goes, Release
  <2>2. CASE a = addr[c]
    <3>1. c \in Holders(a)
      BY <1>2, <2>2 DEF Holders
    <3>2. Holders(a)' = Holders(a) \ {c}
      BY <1>2, <1>3, <1>4, <1>7 DEF Holders, Held
    <3>3. slots'[a] = slots[a] - 1
      BY <1>2, <2>1, <2>2
    <3>4. QED BY <3>1, <3>2, <3>3, LeaveCounted
  <2>3. CASE a # addr[c]
    <3>1. Holders(a)' = Holders(a)
      BY <1>2, <1>3, <2>3 DEF Holders, Held
    <3>2. slots'[a] = slots[a]
      BY <1>2, <2>1, <2>3
    <3>3. QED BY <3>1, <3>2, SameHoldersCounted
  <2>4. QED BY <2>2, <2>3
<1>8. QED BY <1>6, <1>7

LEMMA StopCounted ==
  ASSUME RelayOK, Stop, NEW a \in Addrs
  PROVE  Counted(a)'
<1>1. \A c \in Conns : pc'[c] \in {"idle", "done"}
  BY DEF Stop
<1>2. Holders(a)' = {}
  BY <1>1 DEF Holders, Held
<1>3. slots'[a] = 0
  BY DEF Stop
<1>4. QED BY <1>2, <1>3, FS_EmptySet, GatewayAssumption DEF Counted

LEMMA SlotSteps ==
  ASSUME RelayOK, SlotsCounted, [Next]_vars
  PROVE  SlotsCounted'
<1> SUFFICES ASSUME MaxConnsPerIP > 0, NEW a \in Addrs PROVE Counted(a)'
  BY DEF SlotsCounted
<1>0. Counted(a)
  BY DEF SlotsCounted
<1>1. CASE UNCHANGED relayVars
  <2>1. Holders(a)' = Holders(a) /\ slots' = slots
    BY <1>1 DEF relayVars, Holders, Held
  <2>2. QED BY <1>0, <2>1, SameHoldersCounted
<1>2. QED
  BY <1>0, <1>1, RelaySteps, ConnectCounted, TravelsCounted, StopCounted

\* The count of a source address is the number of connections that hold one of its
\* slots, and never passes the limit: acquire is the only way in, every return of
\* relay.handle past it runs the deferred release exactly once.
THEOREM SlotsAreCounted == Spec => []SlotsMatchHolders
<1>1. Init => SlotsCounted
  <2> SUFFICES ASSUME Init, NEW a \in Addrs PROVE Counted(a)
    BY DEF SlotsCounted
  <2>1. Holders(a) = {}
    BY DEF Init, Holders, Held
  <2>2. slots[a] = 0
    BY DEF Init
  <2>3. QED BY <2>1, <2>2, FS_EmptySet, GatewayAssumption DEF Counted
<1>2. TInv /\ SlotsCounted /\ [Next]_vars => SlotsCounted'
  BY SlotSteps DEF TInv
<1>3. SlotsCounted => SlotsMatchHolders
  BY DEF SlotsCounted, Counted, Holders, SlotsMatchHolders
<1>4. QED BY <1>1, <1>2, <1>3, InitTInv, StepTInv, PTL DEF Spec

-----------------------------------------------------------------------------
(* Redirect tokens: one that is not used has let nobody in.                 *)

TokensPlaced ==
  /\ \A tk \in tokens : /\ pc[tk.id] = "done"
                        /\ ~tk.used => spent[tk.id] = {}
                        /\ \A o \in tokens : o.id = tk.id => o = tk
  /\ \A c \in Conns : pc[c] # "done" => spent[c] = {}

LEMMA FewerTokensPlaced ==
  ASSUME TInv, TokensPlaced, [Next]_vars, tokens' \subseteq tokens, spent' = spent
  PROVE  TokensPlaced'
<1>1. \A c \in Conns : pc[c] = "done" => pc'[c] = "done"
  BY NoWayBack DEF TInv
<1>2. \A tk \in tokens : tk.id \in Conns
  BY DEF TInv, StoreTypeOK, Token
<1>3. QED BY <1>1, <1>2 DEF TokensPlaced

LEMMA ClaimPlaced ==
  ASSUME TInv, TokensPlaced, [Next]_vars, NEW c \in Conns, ConsumeRedirectToken(c)
  PROVE  TokensPlaced'
<1> DEFINE hit(tk) == Claimable(tk, dec[c].token, Key(c))
           new(tk) == IF hit(tk) THEN [tk EXCEPT !.used = TRUE] ELSE tk
<1>1. tokens' = {new(tk) : tk \in tokens}
  BY DEF ConsumeRedirectToken, ClaimRedirectToken
<1>2. tokens \subseteq Token /\ spent \in [Conns -> SUBSET Conns]
  BY DEF TInv, StoreTypeOK, HistoryOK
<1>3. \A tk \in tokens : /\ tk.id \in Conns
                         /\ new(tk).id = tk.id
                         /\ hit(tk) => new(tk).used
                         /\ ~hit(tk) => new(tk) = tk
  BY <1>2 DEF Token
<1>4. \A tk, o \in tokens : hit(tk) /\ hit(o) => tk.id = o.id
  BY DEF Claimable
<1>5. \A d \in Conns : pc[d] = "done" => pc'[d] = "done"
  BY NoWayBack DEF TInv
<1>6. CASE \E tk \in tokens : hit(tk)
  <2>1. PICK tk \in tokens : hit(tk) /\ spent' = [spent EXCEPT ![tk.id] = @ \cup {c}]
    BY <1>6 DEF ConsumeRedirectToken
  <2> HIDE DEF hit, new
  <2>2. \A d \in Conns : d # tk.id => spent'[d] = spent[d]
    BY <1>2, <2>1
  <2>3. \A d \in Conns : pc'[d] # "done" => spent'[d] = {}
    BY <1>5, <2>1, <2>2 DEF TokensPlaced
  <2>4. \A o \in tokens : ~hit(o) => o.id # tk.id
    BY <2>1 DEF TokensPlaced
  <2>5. QED BY <1>1, <1>3, <1>4, <1>5, <2>1, <2>2, <2>3, <2>4 DEF TokensPlaced
<1>7. CASE ~\E tk \in tokens : hit(tk)
  <2>1. spent' = spent
    BY <1>7 DEF ConsumeRedirectToken
  <2> HIDE DEF hit, new
  <2>2. tokens' = tokens
    BY <1>1, <1>3, <1>7
  <2>3. QED BY <2>1, <2>2, FewerTokensPlaced
<1>8. QED BY <1>6, <1>7

LEMMA MintPlaced ==
  ASSUME TInv, TokensPlaced, [Next]_vars, NEW c \in Conns, MintToken(c)
  PROVE  TokensPlaced'
<1> DEFINE new == [id |-> c, user |-> dec[c].user, target |-> dec[c].target,
                   key |-> Key(c), expires |-> now + RedirectTTL, used |-> FALSE]
<1>1. tokens' = tokens \cup {new} /\ spent' = spent
  BY DEF MintToken, CreateRedirectToken
<1>2. new.id = c
  OBVIOUS
<1> HIDE DEF new
<1>3. pc[c] = "mint" /\ pc'[c] = "done"
  BY DEF MintToken, Return, Goto, TInv, RelayOK
<1>4. \A d \in Conns : pc[d] = "done" => pc'[d] = "done"
  BY NoWayBack DEF TInv
<1>5. \A tk \in tokens : tk.id \in Conns
  BY DEF TInv, StoreTypeOK, Token
<1>6. \A tk \in tokens : tk.id # c
  BY <1>3 DEF TokensPlaced
<1>7. spent[c] = {}
  BY <1>3 DEF TokensPlaced
<1>8. QED BY <1>1, <1>2, <1>3, <1>4, <1>5, <1>6, <1>7 DEF TokensPlaced

LEMMA TokenSteps ==
  ASSUME TInv, TokensPlaced, [Next]_vars
  PROVE  TokensPlaced'
<1>1. CASE UNCHANGED <<tokens, spent>>
  BY <1>1, FewerTokensPlaced
<1>2. ASSUME NEW u \in Users, RemoveUser(u) PROVE TokensPlaced'
  <2>1. tokens' \subseteq tokens /\ spent' = spent
    BY <1>2 DEF RemoveUser, DeleteUser
  <2>2. QED BY <2>1, FewerTokensPlaced
<1>3. ASSUME NEW t \in Targets, RemoveTarget(t) PROVE TokensPlaced'
  <2>1. tokens' \subseteq tokens /\ spent' = spent
    BY <1>3 DEF RemoveTarget, DeleteTarget
  <2>2. QED BY <2>1, FewerTokensPlaced
<1>4. QED BY <1>1, <1>2, <1>3, TokenWriters, ClaimPlaced, MintPlaced

-----------------------------------------------------------------------------
(* Gateway implements AccessPromise.                                        *)

Inside == [c \in Conns |-> IF Admitted(c) THEN <<dec[c].user, dec[c].target>> ELSE None]

\* Who writes what is proven and what a token let in.
LEMMA WitnessWriters ==
  ASSUME [Next]_vars
  PROVE  \/ UNCHANGED <<mfa, spent>>
         \/ \E c \in Conns : LoginFactor(c) \/ Approved(c) \/ ConsumeRedirectToken(c)
         \/ \E r \in Reqs : UnlockBegins(r)
<1>1. CASE UNCHANGED vars
  BY <1>1 DEF vars
<1>2. ASSUME NEW c \in Conns, Handle(c) \/ Approved(c) \/ Declined(c) \/ PumpEnds(c)
      PROVE  \/ UNCHANGED <<mfa, spent>>
             \/ LoginFactor(c) \/ Approved(c) \/ ConsumeRedirectToken(c)
  BY <1>2, HandlerWrites
  DEF Quiet, MarkConsumed, IssueFollowOn, MintToken, RecordRequest, Declined,
      ApprovalTimesOut, DidNotWake, IssueJIT, MarkApproved, Opened, Closed
<1>3. ASSUME NEW c \in Conns, NEW a \in Addrs, Connect(c, a)
      PROVE  UNCHANGED <<mfa, spent>>
  BY <1>3 DEF Connect
<1>4. ASSUME NEW r \in Reqs, Unlock(r) PROVE UNCHANGED <<mfa, spent>>
  BY <1>4 DEF Unlock, UnlockReach, UnlockLoad, UnlockIssue
<1>5. CASE Administer
  BY <1>5 DEF Administer, SetStatus, RevokeGrants, RemoveUser, GrantAccess, RevokeAccess,
              RemoveTarget, SessionKick, Observe
<1>6. CASE Purge \/ Sweep \/ Tick \/ Stop \/ Start
  BY <1>6 DEF Purge, Sweep, Tick, Stop, Start
<1>7. QED BY <1>1, <1>2, <1>3, <1>4, <1>5, <1>6 DEF Next

\* A step of a connection between two places outside, or two inside.
LEMMA SameInside ==
  ASSUME RelayOK, NEW c \in Conns, NEW l, NEW d, Goes(c, l, d),
         \/ pc[c] \notin Entered /\ l \notin Entered
         \/ pc[c] \in Entered /\ l \in Entered /\ d = dec[c]
  PROVE  Inside' = Inside
<1>1. /\ pc \in [Conns -> PCs] /\ dec \in [Conns -> Dec]
      /\ pc' = [pc EXCEPT ![c] = l] /\ dec' = [dec EXCEPT ![c] = d]
  BY DEF RelayOK, Goes
<1>2. \A e \in Conns : e # c => pc'[e] = pc[e] /\ dec'[e] = dec[e]
  BY <1>1
<1>3. pc'[c] = l /\ dec'[c] = d
  BY <1>1
<1>4. \A e \in Conns : (IF Admitted(e) THEN <<dec[e].user, dec[e].target>> ELSE None)'
                       = (IF Admitted(e) THEN <<dec[e].user, dec[e].target>> ELSE None)
  BY <1>2, <1>3 DEF Admitted, Entered
<1>5. QED BY <1>4 DEF Inside

\* A handler gets in only where it has proof, and stays under what it got in with.
LEMMA TravelsPromised ==
  ASSUME TInv, SInv, NEW c \in Conns, Travels(c), UNCHANGED <<mfa, spent>>
  PROVE  [Promise!Next]_(Promise!vars)
<1>0. RelayOK
  BY DEF TInv
<1>1. PICK l, d : Goes(c, l, d) /\ Route(pc[c], dec[c], l, d)
  BY DEF Travels
<1>2. /\ pc \in [Conns -> PCs] /\ dec \in [Conns -> Dec]
      /\ pc' = [pc EXCEPT ![c] = l] /\ dec' = [dec EXCEPT ![c] = d] /\ addr' = addr
  BY <1>0, <1>1 DEF RelayOK, Goes
<1>3. \A e \in Conns : e # c => pc'[e] = pc[e] /\ dec'[e] = dec[e]
  BY <1>2
<1>4. pc'[c] = l /\ dec'[c] = d
  BY <1>2
<1>5. CASE Inside' = Inside
  BY <1>2, <1>5 DEF Inside, Promise!vars
<1>6. CASE pc[c] \in Entered /\ l = "done"
  <2>1. Inside' = [e \in Conns |-> IF e \in {c} THEN None ELSE Inside[e]]
    BY <1>3, <1>4, <1>6 DEF Inside, Admitted, Forwarded
  <2>2. Promise!Leave({c})
    BY <1>2, <2>1 DEF Inside, Promise!Leave
  <2>3. QED BY <2>2 DEF Promise!Next
<1>7. CASE pc[c] \notin Entered /\ l \in Entered
  <2>1. /\ pc[c] \in {"consume", "issue", "jitmark"}
        /\ d.user = dec[c].user /\ d.target = dec[c].target
    BY <1>1, <1>7 DEF Route
  <2>2. PICK u \in Users, t \in Targets : u = dec[c].user /\ t = dec[c].target
    BY <1>0, <2>1 DEF RelayOK, Complete, NoUserYet, NoTargetYet
  <2>3. addr[c] # None
    BY <1>0, <2>1 DEF RelayOK
  <2>4. <<u, KeyOf[addr[c]]>> \in mfa
    BY <2>1, <2>2 DEF SInv, RelayJustified, Justified, Proven, Key
  <2>5. Inside[c] = None
    BY <1>7 DEF Inside, Admitted, Entered
  <2>6. Inside' = [Inside EXCEPT ![c] = <<u, t>>]
    BY <1>3, <1>4, <1>7, <2>1, <2>2 DEF Inside, Admitted, Entered
  <2>7. Promise!Enter(c, u, t)
    BY <1>2, <2>3, <2>4, <2>5, <2>6 DEF Inside, Promise!Enter
  <2>8. QED BY <2>7 DEF Promise!Next
<1>8. CASE pc[c] \in Entered /\ l \in Entered
  <2>1. d = dec[c]
    BY <1>1, <1>8 DEF Route, Entered, Forwarded
  <2>2. QED BY <1>0, <1>1, <1>5, <1>8, <2>1, SameInside
<1>9. CASE pc[c] \notin Entered /\ l \notin Entered
  BY <1>0, <1>1, <1>5, <1>9, SameInside
<1>10. pc[c] \in Entered => l \in Entered \/ l = "done"
  BY <1>1 DEF Route
<1>11. QED BY <1>6, <1>7, <1>8, <1>9, <1>10

LEMMA ConnectPromised ==
  ASSUME RelayOK, NEW c \in Conns, NEW a \in Addrs, Connect(c, a)
  PROVE  [Promise!Next]_(Promise!vars)
<1>1. /\ addr[c] = None /\ addr' = [addr EXCEPT ![c] = a] /\ dec' = dec
      /\ pc[c] = "idle" /\ pc' = [pc EXCEPT ![c] = pc'[c]] /\ pc'[c] \in {"peek", "done"}
      /\ pc \in [Conns -> PCs]
  BY ConnectMoves DEF RelayOK
<1>2. \A e \in Conns : e # c => pc'[e] = pc[e]
  BY <1>1
<1>3. Inside' = Inside
  BY <1>1, <1>2 DEF Inside, Admitted, Forwarded
<1>4. UNCHANGED <<mfa, spent>>
  BY DEF Connect
<1>5. Promise!Arrive(c, a)
  BY <1>1, <1>3, <1>4 DEF Inside, Promise!Arrive
<1>6. QED BY <1>5 DEF Promise!Next

LEMMA StopPromised ==
  ASSUME Stop
  PROVE  [Promise!Next]_(Promise!vars)
<1>1. \A e \in Conns : pc'[e] \in {"idle", "done"}
  BY DEF Stop
<1>2. Inside' = [e \in Conns |-> IF e \in Conns THEN None ELSE Inside[e]]
  BY <1>1 DEF Inside, Admitted, Forwarded
<1>3. UNCHANGED <<addr, mfa, spent>>
  BY DEF Stop
<1>4. Promise!Leave(Conns)
  BY <1>2, <1>3 DEF Inside, Promise!Leave
<1>5. QED BY <1>4 DEF Promise!Next

\* The code, the backup code, the push or the approval is the proof.
LEMMA FactorPromised ==
  ASSUME RelayOK, NEW c \in Conns, LoginFactor(c) \/ Approved(c)
  PROVE  [Promise!Next]_(Promise!vars)
<1>1. /\ pc[c] \in {"factor", "ask"} /\ dec[c].user \in Users /\ Key(c) \in Keys
      /\ mfa' = mfa \cup {<<dec[c].user, Key(c)>>} /\ UNCHANGED <<addr, spent>>
  BY KeyTyped
  DEF LoginFactor, Approved, Advance, RelayOK, Complete, NoUserYet
<1>2. PICK l \in {"pick", "boot"} : Advance(c, l, dec[c])
  BY DEF LoginFactor, Approved
<1>3. Goes(c, l, dec[c])
  BY <1>2, AdvanceGoes
<1>4. Inside' = Inside
  BY <1>1, <1>3, SameInside DEF Entered, Forwarded
<1>5. Promise!Prove(dec[c].user, Key(c))
  BY <1>1, <1>4 DEF Inside, Promise!Prove
<1>6. QED BY <1>1, <1>5 DEF Promise!Next

\* A session of the portal past its second factor is a proof too.
LEMMA UnlockPromised ==
  ASSUME NEW r \in Reqs, UnlockBegins(r)
  PROVE  [Promise!Next]_(Promise!vars)
<1>1. PICK u \in Users, a \in Addrs : mfa' = mfa \cup {<<u, KeyOf[a]>>}
  BY DEF UnlockBegins
<1>2. UNCHANGED <<pc, addr, dec, spent>>
  BY DEF UnlockBegins, relayVars
<1>3. Inside' = Inside
  BY <1>2 DEF Inside, Admitted
<1>4. KeyOf[a] \in Keys
  BY GatewayAssumption
<1>5. Promise!Prove(u, KeyOf[a])
  BY <1>1, <1>2, <1>3 DEF Inside, Promise!Prove
<1>6. QED BY <1>4, <1>5 DEF Promise!Next

\* A claim that succeeds finds a token that has let nobody in.
LEMMA ClaimPromised ==
  ASSUME TInv, SInv, TokensPlaced, NEW c \in Conns, ConsumeRedirectToken(c), Travels(c)
  PROVE  [Promise!Next]_(Promise!vars)
<1>1. CASE spent' = spent
  <2>1. UNCHANGED <<mfa, spent>>
    BY <1>1 DEF ConsumeRedirectToken
  <2>2. QED BY <2>1, TravelsPromised
<1>2. CASE \E tk \in tokens : Claimable(tk, dec[c].token, Key(c))
  <2>1. PICK tk \in tokens :
          /\ Claimable(tk, dec[c].token, Key(c))
          /\ Advance(c, "target", [dec[c] EXCEPT !.user = tk.user, !.target = tk.target])
          /\ spent' = [spent EXCEPT ![tk.id] = @ \cup {c}]
    BY <1>2 DEF ConsumeRedirectToken
  <2>2. tk.id \in Conns /\ spent[tk.id] = {}
    BY <2>1 DEF TInv, StoreTypeOK, Token, TokensPlaced, Claimable
  <2>3. spent' = [spent EXCEPT ![tk.id] = {c}]
    BY <2>1, <2>2 DEF TInv, HistoryOK
  <2>4. pc[c] = "claim" /\ UNCHANGED <<addr, mfa>>
    BY <2>1 DEF ConsumeRedirectToken, Advance
  <2>5. \E d : Goes(c, "target", d)
    BY <2>1, AdvanceGoes
  <2>6. Inside' = Inside
    BY <2>4, <2>5, SameInside DEF Entered, Forwarded, TInv
  <2>7. Promise!Redeem(tk.id, c)
    BY <2>2, <2>3, <2>4, <2>6 DEF Inside, Promise!Redeem
  <2>8. QED BY <2>2, <2>7 DEF Promise!Next
<1>3. QED BY <1>1, <1>2 DEF ConsumeRedirectToken

LEMMA PromiseSteps ==
  ASSUME TInv, SInv, TokensPlaced, [Next]_vars
  PROVE  [Promise!Next]_(Promise!vars)
<1>0. RelayOK
  BY DEF TInv
<1>1. CASE UNCHANGED <<mfa, spent>>
  <2>1. CASE UNCHANGED relayVars
    <3>1. Inside' = Inside /\ addr' = addr
      BY <2>1 DEF relayVars, Inside, Admitted
    <3>2. QED BY <1>1, <3>1 DEF Inside, Promise!vars
  <2>2. QED
    BY <1>0, <1>1, <2>1, RelaySteps, ConnectPromised, TravelsPromised, StopPromised
<1>2. ASSUME NEW c \in Conns, LoginFactor(c) \/ Approved(c)
      PROVE  [Promise!Next]_(Promise!vars)
  BY <1>0, <1>2, FactorPromised
<1>3. ASSUME NEW c \in Conns, ConsumeRedirectToken(c)
      PROVE  [Promise!Next]_(Promise!vars)
  BY <1>0, <1>3, ClaimPromised, HandlerTravels DEF Handle
<1>4. QED BY <1>1, <1>2, <1>3, WitnessWriters, UnlockPromised

\* What the gateway promises it keeps: whatever way of relay.handle a connection
\* takes, it gets inside a machine only under an account that proved itself from that
\* address, stays there under that account, and a redirect token admits one connection.
THEOREM GatewayKeepsPromise == Spec => PromiseKept
<1>1. Init => TokensPlaced
  BY DEF Init, TokensPlaced
<1>2. TInv /\ TokensPlaced /\ [Next]_vars => TokensPlaced'
  BY TokenSteps
<1>3. Init => Promise!Init
  <2> SUFFICES ASSUME Init PROVE Promise!Init
    OBVIOUS
  <2>1. Inside = [c \in Conns |-> None]
    BY DEF Init, Inside, Admitted, Forwarded
  <2>2. QED BY <2>1 DEF Init, Inside, Promise!Init
<1>4. TInv /\ SInv /\ TokensPlaced /\ [Next]_vars => [Promise!Next]_(Promise!vars)
  BY PromiseSteps
<1>5. QED
  BY <1>1, <1>2, <1>3, <1>4, SInvAlways, PTL DEF Spec, PromiseKept, Promise!Spec
=============================================================================
