------------------------------ MODULE RDPLogin ------------------------------
(***************************************************************************)
(* What happens on the wire and behind it between the first packet of an   *)
(* RDP client and the answer it gets: the login inside TLS with its one    *)
(* redirection, and the approval of a connection by push. Both wake the    *)
(* machine and wait for it beside the unlocks of the portal.               *)
(*                                                                         *)
(* The client sends what it likes, nothing, or hangs up. Whether a name,   *)
(* password and factor are right is decided by the modules SignIn and      *)
(* Credentials; here it is a choice.                                       *)
(***************************************************************************)
EXTENDS Wake

CONSTANTS
    Approvals,      \* connections held while somebody is asked
    Unlocks,        \* the portal
    Parties,        \* who may come together in one behaviour
    MaxPDUs         \* how many PDUs the login reads before it gives up: 64

ASSUME LoginAssumption ==
    /\ Callers = Logins \union Approvals \union Unlocks
    /\ Logins \intersect Approvals = {}
    /\ (Logins \union Approvals) \intersect Unlocks = {}
    /\ Parties \subseteq SUBSET Callers
    /\ MaxPDUs \in Nat

VARIABLES
    at,             \* where each caller is
    read,           \* how many PDUs a login has read
    sent,           \* the answer a client leaves with; the replies that only
                    \* keep the sequence going are left out
    phone           \* the push of an approval, at Duo

vars == <<wakeVars, at, read, sent, phone>>

PDUs == {"client info", "security exchange", "disconnect", "other"}

Goto(c, l) == at' = [at EXCEPT ![c] = l]
Say(c, m) == sent' = [sent EXCEPT ![c] = m]
\* A step of the sequence alone.
OnWire == UNCHANGED <<wakeVars, phone>>

\* The connection ends; a pending push stays where it is.
Drop(c) == Goto(c, "ended") /\ UNCHANGED <<read, sent>> /\ OnWire

----------------------------------------------------------------------------
(* Login.run: the first packet was read by the relay.                       *)

\* A client that asks for TLS is told so; any other gets the reason.
Negotiate(c) ==
    /\ at[c] = "negotiate"
    /\ \/ Goto(c, "tls") /\ UNCHANGED sent
       \/ Goto(c, "ended") /\ Say(c, "TLS required")
    /\ UNCHANGED read /\ OnWire

TLSHandshake(c) ==
    /\ at[c] = "tls" /\ Goto(c, "initial")
    /\ UNCHANGED <<read, sent>> /\ OnWire

ConnectInitial(c) ==
    /\ at[c] = "initial" /\ Goto(c, "pdus")
    /\ UNCHANGED <<read, sent>> /\ OnWire

\* The short state machine up to the Client Info PDU.
ReadPDU(c) ==
    /\ at[c] = "pdus" /\ read[c] < MaxPDUs
    /\ read' = [read EXCEPT ![c] = @ + 1]
    /\ \E p \in PDUs :
         CASE p = "client info" -> Goto(c, "authenticate")
           [] p \in {"security exchange", "disconnect"} -> Goto(c, "ended")
           [] OTHER -> UNCHANGED at
    /\ UNCHANGED sent
    /\ OnWire

TooManyPDUs(c) == at[c] = "pdus" /\ read[c] = MaxPDUs /\ Drop(c)

\* The client hangs up, sends what cannot be parsed, or says nothing for the
\* length of a step.
OnTheWire == {"negotiate", "tls", "initial", "pdus"}
ClientFails(c) == at[c] \in OnTheWire /\ Drop(c)

----------------------------------------------------------------------------
(* Engine.Authenticate, as far as it waits.                                 *)

Refuse(c) ==
    /\ Goto(c, "ended") /\ Say(c, "disconnect")
    /\ UNCHANGED <<read, phone>>

\* A wrong name, password or factor, and no machine to go to, look alike.
Refused(c) == at[c] = "authenticate" /\ Refuse(c) /\ UNCHANGED wakeVars

Accepted(c) ==
    /\ at[c] = "authenticate" /\ Goto(c, "wake")
    /\ WakeGoto(c, "begin")
    /\ UNCHANGED <<power, waking, done, err, wt, joined, answered, over,
                   read, sent, phone>>

\* After its wake, whatever came of it, the login waits for the machine.
Woken(c) ==
    /\ at[c] = "wake" /\ wk[c] = "returned" /\ Goto(c, "wait")
    /\ WaitGoto(c, "begin")
    /\ UNCHANGED <<power, waking, done, err, wk, joined, answered, over,
                   read, sent, phone>>

Waited(c) == at[c] = "wait" /\ wt[c] \in {"up", "failed"}

NotUp(c) == Waited(c) /\ c \in Logins /\ wt[c] = "failed" /\ Refuse(c)
            /\ UNCHANGED wakeVars

\* The token is stored, unless the context is done or the database fails, and
\* the client sent back to us with it.
Redirect(c) ==
    /\ Waited(c) /\ c \in Logins /\ wt[c] = "up"
    /\ \/ ~over[c] /\ Goto(c, "ended") /\ Say(c, "redirection")
          /\ UNCHANGED <<read, phone>>
       \/ Refuse(c)
    /\ UNCHANGED wakeVars

----------------------------------------------------------------------------
(* Engine.Review, from the recorded request on: wake, ask, wait.            *)

Review(c) ==
    /\ at[c] = "review" /\ Goto(c, "start")
    /\ WakeGoto(c, "begin")
    /\ UNCHANGED <<power, waking, done, err, wt, joined, answered, over,
                   read, sent, phone>>

\* Client.Approve: the transaction is started, or the answer comes at once.
Approve(c) ==
    /\ at[c] = "start"
    /\ \/ Goto(c, "poll") /\ phone' = [phone EXCEPT ![c] = "asked"]
       \/ Goto(c, "allowed") /\ phone' = [phone EXCEPT ![c] = "allow"]
       \/ Goto(c, "denied") /\ phone' = [phone EXCEPT ![c] = "deny"]
       \/ Goto(c, "denied") /\ UNCHANGED phone      \* Duo cannot be reached
    /\ UNCHANGED <<wakeVars, read, sent>>

PhoneAnswers(c) ==
    /\ phone[c] = "asked"
    /\ \E answer \in {"allow", "deny"} :
         phone' = [phone EXCEPT ![c] = answer]
    /\ UNCHANGED <<wakeVars, at, read, sent>>

\* Client.wait: one round of auth_status. "waiting" pauses and asks again; a
\* result nobody knows, or no answer, is an error.
PollOnce(c) ==
    /\ at[c] = "poll"
    /\ Goto(c, IF phone[c] = "deny" THEN "denied" ELSE "allowed")
    /\ UNCHANGED <<wakeVars, read, sent, phone>>
Poll(c) ==
    /\ at[c] = "poll" /\ phone[c] # "asked"
    /\ Goto(c, IF phone[c] = "allow" THEN "allowed" ELSE "denied")
    /\ UNCHANGED <<wakeVars, read, sent, phone>>

PollFails(c) == at[c] = "poll" /\ Goto(c, "denied")
                /\ UNCHANGED <<wakeVars, read, sent, phone>>

\* The hold is over while somebody is still asked.
HoldExpires(c) == at[c] = "poll" /\ over[c] /\ Drop(c)

NotApproved(c) == at[c] = "denied" /\ Drop(c)

ApprovedWaits(c) ==
    /\ at[c] = "allowed" /\ Goto(c, "wait")
    /\ WaitGoto(c, "begin")
    /\ UNCHANGED <<power, waking, done, err, wk, joined, answered, over,
                   read, sent, phone>>

\* The machine is up: a grant is issued and the connection forwarded.
Forward(c) ==
    /\ Waited(c) /\ c \in Approvals
    /\ IF wt[c] = "up" THEN Goto(c, "ended") /\ Say(c, "forwarded")
                       ELSE Goto(c, "ended") /\ UNCHANGED sent
    /\ UNCHANGED <<wakeVars, read, phone>>

----------------------------------------------------------------------------
(* Engine.Unlock: the grant is issued, the wake goes on behind the answer.  *)

Unlock(c) ==
    /\ at[c] = "unlock" /\ Goto(c, "ended")
    /\ WakeGoto(c, "begin")
    /\ UNCHANGED <<power, waking, done, err, wt, joined, answered, over,
                   read, sent, phone>>

\* The login's whole timeout, or the hold.
TimeIsUp(c) ==
    /\ ~over[c] /\ c \notin Unlocks /\ at[c] # "ended"
    /\ over' = [over EXCEPT ![c] = TRUE]
    /\ UNCHANGED <<power, flight, at, read, sent, phone>>

----------------------------------------------------------------------------

Init ==
    /\ WakeInit
    /\ \E present \in Parties :
         at = [c \in Callers |-> CASE c \notin present -> "ended"
                                   [] c \in Logins -> "negotiate"
                                   [] c \in Approvals -> "review"
                                   [] OTHER -> "unlock"]
    /\ read = [c \in Callers |-> 0]
    /\ sent = [c \in Callers |-> "nothing"]
    /\ phone = [c \in Callers |-> "idle"]

Beside == UNCHANGED <<at, read, sent, phone>>

Proceeds(c) ==
    \/ Negotiate(c) \/ TLSHandshake(c) \/ ConnectInitial(c) \/ ReadPDU(c)
    \/ TooManyPDUs(c) \/ ClientFails(c)
    \/ Refused(c) \/ Accepted(c) \/ Woken(c) \/ NotUp(c) \/ Redirect(c)
    \/ Review(c) \/ Approve(c) \/ Poll(c) \/ HoldExpires(c)
    \/ NotApproved(c) \/ ApprovedWaits(c) \/ Forward(c)
    \/ Unlock(c)
Wakes(c) == WakeSteps(c) /\ Beside
Waits(c) == WaitSteps(c) /\ Beside

Environment ==
    \/ (MachineSteps \/ MachineSleeps) /\ Beside
    \/ \E c \in Callers : PhoneAnswers(c) \/ PollFails(c) \/ TimeIsUp(c)

Next == Environment \/ \E c \in Callers : Wakes(c) \/ Waits(c) \/ Proceeds(c)
Spec == Init /\ [][Next]_vars

\* A goroutine that can go on does; every read, probe and hold has a timeout.
\* Of the machine and the phone nothing is assumed.
Fairness == \A c \in Callers :
    /\ WF_vars(Wakes(c)) /\ WF_vars(Waits(c)) /\ WF_vars(Proceeds(c))
    /\ WF_vars(TimeIsUp(c))
FairSpec == Spec /\ Fairness

----------------------------------------------------------------------------

TypeOK ==
    /\ WakeTypeOK
    /\ at \in [Callers -> OnTheWire \union
                 {"authenticate", "wake", "wait", "review", "start", "poll",
                  "allowed", "denied", "unlock", "ended"}]
    /\ read \in [Callers -> 0..MaxPDUs]
    /\ sent \in [Callers -> {"nothing", "TLS required", "disconnect",
                             "redirection", "forwarded"}]
    /\ phone \in [Callers -> {"idle", "asked", "allow", "deny"}]

\* A client is sent to the machine, or forwarded to it, only after a probe was
\* answered, its own or that of the attempt it joined.
PassedOnMeansAnswered ==
    \A c \in Callers : sent[c] \in {"redirection", "forwarded"} => c \in answered

\* A held connection is forwarded only if somebody allowed it, however the
\* poll, the hold and the wake end.
ForwardedMeansAllowed ==
    \A c \in Approvals : sent[c] = "forwarded" => phone[c] = "allow"

\* Everybody leaves, and every wake ends: no login, approval or unlock waits
\* for good, whatever the client, the phone and the machine do.
EverybodyLeaves ==
    <>[](\A c \in Callers : at[c] = "ended" /\ wk[c] \in {"idle", "returned"})

\* "Windows accepts the TCP handshake a moment before RDP is really ready [...]
\* so we wait this long after the first success": nobody is told that the
\* machine is up before it is ready.
SettledBeforeUse ==
    [][ \A c \in Callers : wt[c] # "up" /\ wt'[c] = "up" => Settled ]_vars
=============================================================================
