------------------------------ MODULE GrantStore ------------------------------
(***************************************************************************)
(* The tables of internal/store that decide who may reach which machine,   *)
(* and the SQL statements the gateway and the administrator run on them.   *)
(*                                                                         *)
(* The database handle is a pool of one connection (store.Open), so every  *)
(* statement is one atomic step; what interleaves are the statements of    *)
(* different handlers.  A table is a set of rows; AUTOINCREMENT ids are    *)
(* never reused.  Time is counted in abstract units.                       *)
(***************************************************************************)
EXTENDS Integers, FiniteSets

CONSTANTS
  Users, Targets,      \* accounts and machines
  Admins,              \* the accounts with role 'admin'
  Keys,                \* address keys, the results of NormalizeIP
  Conns,               \* TCP connections the relay ever accepts
  None,                \* NULL, and "no such row"
  PurgeAge,            \* age past expiry at which PurgeExpired deletes a grant
  SweepAge             \* age at which ExpirePendingJIT closes a pending request

ASSUME StoreAssumption ==
  /\ Admins \subseteq Users
  /\ None \notin Users \cup Targets \cup Conns
  /\ PurgeAge \in Nat /\ SweepAge \in Nat

VARIABLES
  now,        \* the clock every statement reads
  status,     \* users.status, "gone" once the row is deleted
  reach,      \* user_targets
  machines,   \* the targets that still exist
  grants,     \* grants
  grantSeq,   \* the last grant id handed out
  tokens,     \* redirect_tokens; a token is named by the login that minted it
  requests,   \* jit_requests; a request is named by the connection that is held
  rows        \* rdp_sessions; a row is named by the connection it records

tables == <<grants, grantSeq, tokens, requests, rows>>
accounts == <<status, reach, machines>>
storeVars == <<now, status, reach, machines, grants, grantSeq, tokens, requests, rows>>

Statuses == {"active", "locked", "disabled", "gone"}

Grant == [id: Nat, user: Users, target: Targets, key: Keys,
          expires: Nat, revoked: BOOLEAN]
Token == [id: Conns, user: Users, target: Targets, key: Keys,
          expires: Nat, used: BOOLEAN]
Request == [id: Conns, user: Users \cup {None}, target: Targets \cup {None},
            key: Keys, created: Nat,
            state: {"pending", "approved", "denied", "timeout"}]
Row == [id: Conns, grant: Nat \cup {None}, target: Targets \cup {None},
        open: BOOLEAN]

StoreTypeOK ==
  /\ now \in Nat
  /\ status \in [Users -> Statuses]
  /\ reach \subseteq Users \X Targets
  /\ machines \subseteq Targets
  /\ grants \subseteq Grant
  /\ grantSeq \in Nat
  /\ tokens \subseteq Token
  /\ requests \subseteq Request
  /\ rows \subseteq Row

-----------------------------------------------------------------------------
(* Reads. *)

\* Mutant: a disabled account still counts as active.
IsActiveUnlessLocked(u) == status[u] # "locked"

IsActive(u) == status[u] = "active"

\* Given a user row that was active when it was read.
CanReach(u, t) == u \in Admins \/ <<u, t>> \in reach

ListTargetsForUser(u) ==
  IF u \in Admins THEN machines ELSE {t \in machines : <<u, t>> \in reach}

\* Mutant: the address is left out of the query.
LiveGrantsAnyAddress(key, at) ==
  {g \in grants : ~g.revoked /\ g.expires > at}

\* WHERE src_ip = ? AND revoked_at IS NULL AND expires_at > ?
LiveGrants(key, at) ==
  {g \in grants : g.key = key /\ ~g.revoked /\ g.expires > at}

\* ORDER BY id DESC LIMIT 1
IsActiveGrant(g, key, at) ==
  /\ g \in LiveGrants(key, at)
  /\ \A h \in LiveGrants(key, at) : h.id <= g.id

\* The foreign keys of grants, redirect_tokens and jit_requests.
UserAndTargetExist(u, t) == status[u] # "gone" /\ t \in machines

-----------------------------------------------------------------------------
(* Statements: each gives the new contents of the table it writes. *)

\* Mutant: the two foreign keys are bound in the wrong order.
CreateGrantSwapped(u, t, key, ttl) ==
  /\ grantSeq' = grantSeq + 1
  /\ grants' = grants \cup
       {[id |-> grantSeq + 1, user |-> t, target |-> u, key |-> key,
         expires |-> now + ttl, revoked |-> FALSE]}

CreateGrant(u, t, key, ttl) ==
  /\ grantSeq' = grantSeq + 1
  /\ grants' = grants \cup
       {[id |-> grantSeq + 1, user |-> u, target |-> t, key |-> key,
         expires |-> now + ttl, revoked |-> FALSE]}

Later(a, b) == IF a > b THEN a ELSE b

\* Mutant: a grant revoked in the meantime is extended all the same.
ConsumeGrantRevoked(id, until) ==
  grants' = {IF g.id = id THEN [g EXCEPT !.expires = Later(g.expires, until)] ELSE g
               : g \in grants}

\* Mutant: every use adds a window to the expiry.
ConsumeGrantAdds(id, until) ==
  grants' = {IF g.id = id /\ ~g.revoked THEN [g EXCEPT !.expires = g.expires + until]
               ELSE g : g \in grants}

ConsumeGrant(id, until) ==
  grants' = {IF g.id = id /\ ~g.revoked
               THEN [g EXCEPT !.expires = Later(g.expires, until)]
               ELSE g : g \in grants}

RevokeGrantsForUser(u) ==
  grants' = {IF g.user = u THEN [g EXCEPT !.revoked = TRUE] ELSE g : g \in grants}

CreateRedirectToken(c, u, t, key, ttl) ==
  tokens' = tokens \cup
    {[id |-> c, user |-> u, target |-> t, key |-> key,
      expires |-> now + ttl, used |-> FALSE]}

\* Mutant: used_at is not part of the condition.
ClaimableAgain(tk, id, key) == tk.id = id /\ tk.expires > now /\ tk.key = key

\* WHERE token_hash = ? AND used_at IS NULL AND expires_at > ? AND src_ip = ?
Claimable(tk, id, key) ==
  tk.id = id /\ ~tk.used /\ tk.expires > now /\ tk.key = key

ClaimRedirectToken(id, key) ==
  tokens' = {IF Claimable(tk, id, key) THEN [tk EXCEPT !.used = TRUE] ELSE tk
               : tk \in tokens}

CreateJITRequest(c, u, t, key) ==
  requests' = requests \cup
    {[id |-> c, user |-> u, target |-> t, key |-> key, created |-> now,
      state |-> "pending"]}

\* Mutant: the state is not part of the condition.
SetJITStateAlways(c, s) ==
  requests' = {IF r.id = c THEN [r EXCEPT !.state = s] ELSE r : r \in requests}

\* UPDATE ... WHERE id = ? AND state = 'pending'
SetJITState(c, s) ==
  requests' = {IF r.id = c /\ r.state = "pending" THEN [r EXCEPT !.state = s] ELSE r
                 : r \in requests}

\* The row references the grant and the target; one that is gone is refused.
CanOpenRDPSession(grant, target) ==
  /\ \E g \in grants : g.id = grant
  /\ target \in machines

OpenRDPSession(c, grant, target) ==
  rows' = rows \cup {[id |-> c, grant |-> grant, target |-> target, open |-> TRUE]}

CloseRDPSession(c) ==
  rows' = {IF r.id = c THEN [r EXCEPT !.open = FALSE] ELSE r : r \in rows}

\* Mutant: nothing is tidied up at the start.
StaleSessionsKept == UNCHANGED rows

MarkStaleSessionsClosed ==
  rows' = {[r EXCEPT !.open = FALSE] : r \in rows}

\* ON DELETE SET NULL on rdp_sessions.grant_id, for grants that disappear.
Detach(survivors) ==
  {IF \E g \in survivors : g.id = r.grant THEN r ELSE [r EXCEPT !.grant = None]
     : r \in rows}

PurgeExpired ==
  LET kept == {g \in grants : g.expires >= now - PurgeAge}
  IN  /\ grants' = kept
      /\ rows' = Detach(kept)
      /\ UNCHANGED <<now, accounts, grantSeq, tokens, requests>>

ExpirePendingJIT ==
  /\ requests' = {IF r.state = "pending" /\ r.created < now - SweepAge
                    THEN [r EXCEPT !.state = "timeout"] ELSE r : r \in requests}
  /\ UNCHANGED <<now, accounts, grants, grantSeq, tokens, rows>>

\* ON DELETE CASCADE carries the user's grants, tokens and target access.
DeleteUser(u) ==
  LET kept == {g \in grants : g.user # u}
  IN  /\ status' = [status EXCEPT ![u] = "gone"]
      /\ reach' = {p \in reach : p[1] # u}
      /\ grants' = kept
      /\ rows' = Detach(kept)
      /\ tokens' = {tk \in tokens : tk.user # u}
      /\ requests' = {IF r.user = u THEN [r EXCEPT !.user = None] ELSE r
                        : r \in requests}
      /\ UNCHANGED <<now, machines, grantSeq>>

DeleteTarget(t) ==
  LET kept == {g \in grants : g.target # t}
  IN  /\ machines' = machines \ {t}
      /\ reach' = {p \in reach : p[2] # t}
      /\ grants' = kept
      /\ rows' = {IF r.target = t THEN [r EXCEPT !.target = None] ELSE r
                    : r \in Detach(kept)}
      /\ tokens' = {tk \in tokens : tk.target # t}
      /\ requests' = {IF r.target = t THEN [r EXCEPT !.target = None] ELSE r
                        : r \in requests}
      /\ UNCHANGED <<now, status, grantSeq>>

SetUserStatus(u, s) == status' = [status EXCEPT ![u] = s]
GrantTargetAccess(u, t) == reach' = reach \cup {<<u, t>>}
RevokeTargetAccess(u, t) == reach' = reach \ {<<u, t>>}
=============================================================================
