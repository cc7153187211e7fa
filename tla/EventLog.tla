------------------------------ MODULE EventLog ------------------------------
(***************************************************************************)
(* The audit log and the notifier that watches it: cmdServe registers      *)
(* Handle as the only watcher of the service's Log; a command's Log has    *)
(* none.                                                                   *)
(***************************************************************************)
EXTENDS AuditLog, Notifier

CONSTANTS Service, MaxCrashes

ASSUME EventLogAssumption ==
    /\ Service \in Processes /\ MaxCrashes \in Nat
    /\ \A events \in Wanted : events \subseteq Actions

VARIABLE crashes

vars == <<auditVars, notifierVars, crashes>>

Init == AuditInit /\ NotifierInit /\ crashes = 0

\* Append calls the watchers with the entry that made it into the chain.
Announce(w) ==
    /\ Announced(w)
    /\ IF ProcessOf[w] = Service THEN Handle(WriterAt(w))
                                 ELSE UNCHANGED notifierVars
    /\ UNCHANGED crashes

Write(w) ==
    /\ \/ \E a \in Actions : Append_(w, a)
       \/ LockChain(w) \/ ReadHead(w) \/ InsertAndCommit(w)
       \/ Retry(w) \/ GiveUp(w)
    /\ UNCHANGED <<notifierVars, crashes>>

Notify ==
    /\ RunStep
    /\ UNCHANGED <<auditVars, crashes>>

Settings ==
    /\ \E events \in Wanted : Configure(events)
    /\ UNCHANGED <<auditVars, crashes>>

Time == Tick /\ UNCHANGED <<auditVars, crashes>>

\* A process dies at any point; the service comes back.
Crash(p) ==
    /\ crashes < MaxCrashes
    /\ crashes' = crashes + 1
    /\ AuditCrash(p)
    /\ IF p = Service THEN NotifierRestart ELSE UNCHANGED notifierVars

Next ==
    \/ \E w \in Writers : Write(w) \/ Announce(w)
    \/ Notify \/ Settings \/ Time
    \/ \E p \in Processes : Crash(p)

Spec == Init /\ [][Next]_vars

----------------------------------------------------------------------------
TypeOK == AuditTypeOK /\ NotifierTypeOK /\ crashes \in 0..MaxCrashes

(* Two writers in two processes never fork the chain: whoever lost the race *)
(* reads the head again (audit.go:185-202).                                 *)
ChainIntact == Verify(log) = 0

(* Every event somebody wanted to hear of is on its way, was told, was part *)
(* of a message that failed, or is counted for the next one: the count is   *)
(* shared by Handle and Run and nothing falls between them                  *)
(* (notify.go:115-120, 164-172).                                            *)
Accounted ==
    told = Len(queue) + InHand + suppressed + dropped + reached + lost

(* Between any two messages the bucket lets a burst through and one more    *)
(* for every refill period, however quiet it was before                     *)
(* (notify.go:127-132, 153-163).                                           *)
RateBounded ==
    \A i, j \in DOMAIN rendered :
      i <= j => j - i + 1 <= Burst + (rendered[j] - rendered[i]) \div Refill

=============================================================================
