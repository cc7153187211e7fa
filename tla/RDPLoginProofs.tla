--------------------------- MODULE RDPLoginProofs ---------------------------
(***************************************************************************)
(* Theorems about RDPLogin, for every set of logins, approvals and         *)
(* unlocks, whoever of them comes.                                         *)
(***************************************************************************)
EXTENDS RDPLogin, TLAPS

(***************************************************************************)
(* The invariant.  Besides the types and the single attempt it says what   *)
(* is true of one caller at a time, so that a step of one caller leaves it *)
(* alone for every other one.                                              *)
(***************************************************************************)

\* A caller's wake begins once, on its way through.
Unwoken == OnTheWire \union {"authenticate", "review", "unlock"}
WakesOnce(c) == at[c] \in Unwoken => wk[c] = "idle"

\* Only a login reads from the wire, only an approval asks a phone.
Role(c) ==
    /\ at[c] \in OnTheWire \union {"authenticate", "wake"} => c \in Logins
    /\ at[c] \in {"review", "start", "poll", "allowed", "denied"} => c \in Approvals

\* A wake without an error saw an answer, and so did who is told of it.
Probed(c) ==
    /\ wk[c] = "settle" => c \in answered
    /\ wk[c] \in {"delete", "close"} /\ ~err[c] => c \in answered
    /\ done[c] /\ ~err[c] => c \in answered
    /\ wt[c] \in {"settle", "up"} => c \in answered
    /\ wt[c] = "join" => joined[c].wt \in Callers
    /\ sent[c] \in {"redirection", "forwarded"} => c \in answered

\* Between the answer of the phone and the forwarding nobody asks again.
Asked(c) == c \in Approvals =>
    /\ at[c] \in {"allowed", "wait"} => phone[c] = "allow"
    /\ sent[c] = "forwarded" => at[c] = "ended" /\ phone[c] = "allow"

OnItsWay(c) == WakesOnce(c) /\ Role(c) /\ Probed(c) /\ Asked(c)

IInv == TypeOK /\ OneAttempt /\ \A c \in Callers : OnItsWay(c)

\* What a step of another caller leaves alone.
Untouched(d) ==
    /\ at'[d] = at[d] /\ sent'[d] = sent[d] /\ phone'[d] = phone[d]
    /\ wk'[d] = wk[d] /\ wt'[d] = wt[d]
    /\ joined'[d] = joined[d] /\ done'[d] = done[d] /\ err'[d] = err[d]
    /\ d \in answered => d \in answered'

LEMMA UntouchedKeeps ==
  ASSUME NEW d \in Callers, OnItsWay(d), Untouched(d)
  PROVE  OnItsWay(d)'
BY DEF Untouched, OnItsWay, WakesOnce, Role, Probed, Asked

USE DEF WakeGoto, WaitGoto, Goto, Say, OnWire, Drop, Refuse, Beside

LEMMA InitIInv == Init => IInv
BY WakeAssumption, LoginAssumption
DEF Init, WakeInit, IInv, TypeOK, WakeTypeOK, OneAttempt, Attempting, OnItsWay, WakesOnce,
    Role, Probed, Asked, OnTheWire, Unwoken

-----------------------------------------------------------------------------
(* The flight alone. *)

WakeInv == WakeTypeOK /\ OneAttempt

LEMMA WakeStepsKeep ==
  ASSUME WakeInv, NEW c \in Callers, WakeSteps(c)
  PROVE  WakeInv'
<1> USE WakeAssumption DEF WakeInv, WakeTypeOK, OneAttempt, Attempting
<1>1. CASE WakeBegin(c)   BY <1>1 DEF WakeBegin
<1>2. CASE WakeJoined(c)  BY <1>2 DEF WakeJoined
<1>3. CASE WakeAlive(c)   BY <1>3 DEF WakeAlive
<1>4. CASE ParseMAC(c)
  <2>1. wk[c] = "mac" /\ UNCHANGED <<power, waking, done, wt, joined, answered, over>>
    BY <1>4 DEF ParseMAC
  <2>2. CASE ValidMAC
    BY <1>4, <2>1, <2>2 DEF ParseMAC
  <2>3. CASE ~ValidMAC
    BY <1>4, <2>1, <2>3 DEF ParseMAC
  <2>4. QED BY <2>2, <2>3
<1>5. CASE Send(c)
  <2>1. wk[c] = "send" /\ UNCHANGED <<waking, done, wt, joined, answered, over>>
    BY <1>5 DEF Send
  <2>2. CASE wk' = [wk EXCEPT ![c] = "delete"] /\ err' = [err EXCEPT ![c] = TRUE]
             /\ power' = power
    BY <2>1, <2>2
  <2>3. CASE wk' = [wk EXCEPT ![c] = "probe"] /\ err' = err /\ power' \in {power, "booting"}
    BY <2>1, <2>3
  <2>4. QED BY <1>5, <2>2, <2>3 DEF Send
<1>6. CASE WakeProbe(c)
  <2>1. wk[c] = "probe" /\ UNCHANGED <<power, waking, done, wt, joined, over>>
    BY <1>6 DEF WakeProbe
  <2>2. CASE wk' = [wk EXCEPT ![c] = "settle"] /\ answered' = answered \union {c} /\ err' = err
    BY <2>1, <2>2
  <2>3. CASE wk' = [wk EXCEPT ![c] = "delete"] /\ err' = [err EXCEPT ![c] = TRUE]
             /\ answered' = answered
    BY <2>1, <2>3
  <2>4. QED BY <1>6, <2>2, <2>3 DEF WakeProbe
<1>7. CASE WakeSettle(c)  BY <1>7 DEF WakeSettle
<1>8. CASE WakeDelete(c)  BY <1>8 DEF WakeDelete
<1>9. CASE WakeClose(c)   BY <1>9 DEF WakeClose
<1>10. QED BY <1>1, <1>2, <1>3, <1>4, <1>5, <1>6, <1>7, <1>8, <1>9 DEF WakeSteps

LEMMA WaitStepsKeep ==
  ASSUME WakeInv, NEW c \in Callers, WaitSteps(c)
  PROVE  WakeInv'
<1> USE WakeAssumption DEF WakeInv, WakeTypeOK, OneAttempt, Attempting
<1>1. CASE WaitBegin(c)
  <2>1. UNCHANGED <<power, waking, done, err, wk, answered, over>>
    BY <1>1 DEF WaitBegin
  <2>2. CASE waking # None
    BY <1>1, <2>1, <2>2 DEF WaitBegin
  <2>3. CASE waking = None
    BY <1>1, <2>1, <2>3 DEF WaitBegin
  <2>4. QED BY <2>2, <2>3
<1>2. CASE WaitJoined(c)  BY <1>2 DEF WaitJoined
<1>3. CASE WaitProbe(c)   BY <1>3 DEF WaitProbe
<1>4. CASE WaitSettle(c)  BY <1>4 DEF WaitSettle
<1>5. QED BY <1>1, <1>2, <1>3, <1>4 DEF WaitSteps

Joined == [wk : Callers \union {None}, wt : Callers \union {None}]

LEMMA JoinsWake ==
  ASSUME NEW c \in Callers, NEW v, joined \in [Callers -> Joined],
         joined' = [joined EXCEPT ![c].wk = v]
  PROVE  joined'[c].wt = joined[c].wt /\ \A d \in Callers \ {c} : joined'[d] = joined[d]
BY DEF Joined

LEMMA JoinsWait ==
  ASSUME NEW c \in Callers, NEW v, joined \in [Callers -> Joined],
         joined' = [joined EXCEPT ![c].wt = v]
  PROVE  joined'[c].wt = v /\ \A d \in Callers \ {c} : joined'[d] = joined[d]
BY DEF Joined

\* A step of c's wake or wait touches nobody else, and moves c as it says.
LEMMA WakesLocal ==
  ASSUME WakeInv, NEW c \in Callers, OnItsWay(c), Wakes(c)
  PROVE  /\ OnItsWay(c)'
         /\ \A d \in Callers \ {c} : Untouched(d)
<1> USE DEF WakeInv, WakeTypeOK, OnItsWay, Untouched, WakesOnce, Role, Probed, Asked
<1>0. UNCHANGED <<at, read, sent, phone>> /\ OnItsWay(c)
  BY DEF Wakes
<1>1. CASE WakeBegin(c)
  <2>1. CASE waking # None
    <3>1. joined'[c].wt = joined[c].wt /\ \A d \in Callers \ {c} : joined'[d] = joined[d]
      BY <1>1, <2>1, JoinsWake DEF Joined, WakeBegin
    <3>2. QED BY <1>0, <1>1, <2>1, <3>1 DEF WakeBegin
  <2>2. CASE waking = None BY <1>0, <1>1, <2>2 DEF WakeBegin
  <2>3. QED BY <2>1, <2>2
<1>2. CASE WakeJoined(c)  BY <1>0, <1>2 DEF WakeJoined
<1>3. CASE WakeAlive(c)   BY <1>0, <1>3 DEF WakeAlive
<1>4. CASE ParseMAC(c)    BY <1>0, <1>4 DEF ParseMAC
<1>5. CASE Send(c)
  <2>1. CASE wk' = [wk EXCEPT ![c] = "delete"] BY <1>0, <1>5, <2>1 DEF Send
  <2>2. CASE wk' = [wk EXCEPT ![c] = "probe"]  BY <1>0, <1>5, <2>2 DEF Send
  <2>3. QED BY <1>5, <2>1, <2>2 DEF Send
<1>6. CASE WakeProbe(c)
  <2>1. CASE wk' = [wk EXCEPT ![c] = "settle"] BY <1>0, <1>6, <2>1 DEF WakeProbe
  <2>2. CASE wk' = [wk EXCEPT ![c] = "delete"] BY <1>0, <1>6, <2>2 DEF WakeProbe
  <2>3. QED BY <1>6, <2>1, <2>2 DEF WakeProbe
<1>7. CASE WakeSettle(c)  BY <1>0, <1>7 DEF WakeSettle
<1>8. CASE WakeDelete(c)  BY <1>0, <1>8 DEF WakeDelete
<1>9. CASE WakeClose(c)   BY <1>0, <1>9 DEF WakeClose
<1>10. QED
  BY <1>1, <1>2, <1>3, <1>4, <1>5, <1>6, <1>7, <1>8, <1>9 DEF Wakes, WakeSteps

LEMMA WaitsLocal ==
  ASSUME WakeInv, NEW c \in Callers, Waits(c), \A d \in Callers : OnItsWay(d)
  PROVE  /\ OnItsWay(c)'
         /\ \A d \in Callers \ {c} : Untouched(d)
<1> USE DEF WakeInv, WakeTypeOK, OnItsWay, Untouched, WakesOnce, Role, Probed, Asked
<1>0. UNCHANGED <<at, read, sent, phone>> /\ OnItsWay(c)
  BY DEF Waits
<1>1. CASE WaitBegin(c)
  <2>1. CASE waking # None
    <3>1. joined'[c].wt = waking /\ \A d \in Callers \ {c} : joined'[d] = joined[d]
      BY <1>1, <2>1, JoinsWait DEF Joined, WaitBegin
    <3>2. QED BY <1>0, <1>1, <2>1, <3>1, WakeAssumption DEF WaitBegin
  <2>2. CASE waking = None BY <1>0, <1>1, <2>2 DEF WaitBegin
  <2>3. QED BY <2>1, <2>2
<1>2. CASE WaitJoined(c)
  <2>1. joined[c].wt \in Callers /\ OnItsWay(joined[c].wt)
    BY <1>2 DEF WaitJoined
  <2>2. CASE wt'[c] = "up" BY <1>0, <1>2, <2>1, <2>2 DEF WaitJoined
  <2>3. CASE wt' = [wt EXCEPT ![c] = "failed"]
    <3>1. answered \subseteq answered'
      BY <1>2 DEF WaitJoined
    <3>2. QED BY <1>0, <1>2, <2>3, <3>1 DEF WaitJoined
  <2>4. QED BY <1>2, <2>2, <2>3 DEF WaitJoined
<1>3. CASE WaitProbe(c)   BY <1>0, <1>3 DEF WaitProbe
<1>4. CASE WaitSettle(c)  BY <1>0, <1>4 DEF WaitSettle
<1>5. QED BY <1>1, <1>2, <1>3, <1>4 DEF Waits, WaitSteps

-----------------------------------------------------------------------------
(* The way of a caller. *)

Flying == WakeInv /\ TypeOK

Places == OnTheWire \union {"authenticate", "wake", "wait", "review", "start", "poll",
                            "allowed", "denied", "unlock", "ended"}
Phones == {"idle", "asked", "allow", "deny"}
Replies == {"nothing", "TLS required", "disconnect", "redirection", "forwarded"}

LEMMA StaysTyped ==
  ASSUME WakeInv', at' \in [Callers -> Places], read' \in [Callers -> 0..MaxPDUs],
         sent' \in [Callers -> Replies], phone' \in [Callers -> Phones]
  PROVE  Flying'
BY DEF Flying, WakeInv, TypeOK, Places, Phones, Replies

LEMMA ProceedsTyped ==
  ASSUME Flying, NEW c \in Callers, OnItsWay(c), Proceeds(c)
  PROVE  Flying'
<1> USE WakeAssumption, LoginAssumption
    DEF Flying, WakeInv, TypeOK, WakeTypeOK, OneAttempt, Attempting, OnItsWay, WakesOnce,
        Unwoken, OnTheWire, Places, Phones, Replies, wakeVars, flight
<1>1. CASE Negotiate(c)
  <2>1. WakeInv' /\ read' = read /\ phone' = phone
    BY <1>1 DEF Negotiate
  <2>2. CASE at' = [at EXCEPT ![c] = "tls"] /\ sent' = sent
    BY <2>1, <2>2
  <2>3. CASE at' = [at EXCEPT ![c] = "ended"] /\ sent' = [sent EXCEPT ![c] = "TLS required"]
    BY <2>1, <2>3
  <2>4. QED BY <1>1, <2>2, <2>3 DEF Negotiate
<1>2. CASE TLSHandshake(c)    BY <1>2 DEF TLSHandshake
<1>3. CASE ConnectInitial(c)  BY <1>3 DEF ConnectInitial
<1>4. CASE ReadPDU(c)
  <2>1. WakeInv'
    BY <1>4 DEF ReadPDU
  <2>2. read' \in [Callers -> 0..MaxPDUs]
    <3>1. read[c] < MaxPDUs /\ read' = [read EXCEPT ![c] = @ + 1]
      BY <1>4 DEF ReadPDU
    <3>2. read[c] \in 0..MaxPDUs /\ MaxPDUs \in Nat
      OBVIOUS
    <3>3. read[c] + 1 \in 0..MaxPDUs
      <4> HIDE DEF TypeOK, WakeTypeOK, WakeInv
      <4>1. QED BY <3>1, <3>2, SMTT(20)
    <3>4. QED BY <3>1, <3>3
  <2>3. at' = at \/ at' = [at EXCEPT ![c] = "authenticate"] \/ at' = [at EXCEPT ![c] = "ended"]
    BY <1>4 DEF ReadPDU, PDUs
  <2>4. at' \in [Callers -> Places]
    <3>1. at \in [Callers -> Places] /\ "authenticate" \in Places /\ "ended" \in Places
      OBVIOUS
    <3> HIDE DEF Flying, WakeInv, TypeOK, WakeTypeOK, OneAttempt, OnItsWay, Places
    <3>2. QED BY <2>3, <3>1
  <2>5. sent' \in [Callers -> Replies] /\ phone' \in [Callers -> Phones]
    BY <1>4 DEF ReadPDU
  <2> HIDE DEF Flying, WakeInv, TypeOK
  <2>6. QED BY <2>1, <2>2, <2>4, <2>5, StaysTyped
<1>5. CASE TooManyPDUs(c)     BY <1>5 DEF TooManyPDUs
<1>6. CASE ClientFails(c)     BY <1>6 DEF ClientFails
<1>7. CASE Refused(c)         BY <1>7 DEF Refused
<1>8. CASE Accepted(c)        BY <1>8 DEF Accepted
<1>9. CASE Woken(c)           BY <1>9 DEF Woken
<1>10. CASE NotUp(c)          BY <1>10 DEF NotUp, Waited
<1>11. CASE Redirect(c)
  <2>1. WakeInv' /\ read' = read /\ phone' = phone /\ at' = [at EXCEPT ![c] = "ended"]
    BY <1>11 DEF Redirect
  <2>2. sent' = [sent EXCEPT ![c] = "redirection"] \/ sent' = [sent EXCEPT ![c] = "disconnect"]
    BY <1>11 DEF Redirect
  <2>3. sent' \in [Callers -> Replies]
    <3>1. sent \in [Callers -> Replies] /\ {"redirection", "disconnect"} \subseteq Replies
      OBVIOUS
    <3> HIDE DEF Flying, WakeInv, TypeOK, WakeTypeOK, OneAttempt, OnItsWay, Replies
    <3>2. QED BY <2>2, <3>1
  <2> HIDE DEF WakeInv
  <2>4. QED BY <2>1, <2>3, StaysTyped
<1>12. CASE Review(c)         BY <1>12 DEF Review
<1>13. CASE Approve(c)
  <2>1. WakeInv' /\ read' = read /\ sent' = sent
    BY <1>13 DEF Approve
  <2>2. at' \in [Callers -> Places]
    <3>1. \E p \in {"poll", "allowed", "denied"} : at' = [at EXCEPT ![c] = p]
      BY <1>13 DEF Approve
    <3>2. at \in [Callers -> Places] /\ {"poll", "allowed", "denied"} \subseteq Places
      OBVIOUS
    <3> HIDE DEF Flying, WakeInv, TypeOK, WakeTypeOK, OneAttempt, OnItsWay, Places
    <3>3. QED BY <3>1, <3>2
  <2>3. phone' \in [Callers -> Phones]
    <3>1. phone' = phone \/ \E p \in {"asked", "allow", "deny"} : phone' = [phone EXCEPT ![c] = p]
      BY <1>13 DEF Approve
    <3>2. phone \in [Callers -> Phones] /\ {"asked", "allow", "deny"} \subseteq Phones
      OBVIOUS
    <3> HIDE DEF Flying, WakeInv, TypeOK, WakeTypeOK, OneAttempt, OnItsWay, Phones
    <3>3. QED BY <3>1, <3>2
  <2> HIDE DEF WakeInv
  <2>4. QED BY <2>1, <2>2, <2>3, StaysTyped
<1>14. CASE Poll(c)           BY <1>14 DEF Poll
<1>15. CASE HoldExpires(c)    BY <1>15 DEF HoldExpires
<1>16. CASE NotApproved(c)    BY <1>16 DEF NotApproved
<1>17. CASE ApprovedWaits(c)  BY <1>17 DEF ApprovedWaits
<1>18. CASE Forward(c)
  <2>1. WakeInv' /\ UNCHANGED <<read, phone>> /\ at' = [at EXCEPT ![c] = "ended"]
    BY <1>18 DEF Forward
  <2>2. CASE sent' = sent
    BY <2>1, <2>2
  <2>3. CASE sent' = [sent EXCEPT ![c] = "forwarded"]
    BY <2>1, <2>3
  <2>4. QED BY <1>18, <2>2, <2>3 DEF Forward
<1>19. CASE Unlock(c)         BY <1>19 DEF Unlock
<1>20. QED
  BY <1>1, <1>2, <1>3, <1>4, <1>5, <1>6, <1>7, <1>8, <1>9, <1>10, <1>11, <1>12, <1>13, <1>14, <1>15, <1>16, <1>17, <1>18, <1>19
     DEF Proceeds

LEMMA ProceedsLocal ==
  ASSUME Flying, NEW c \in Callers, OnItsWay(c), Proceeds(c)
  PROVE  /\ OnItsWay(c)'
         /\ \A d \in Callers \ {c} : Untouched(d)
<1> USE LoginAssumption
    DEF Flying, TypeOK, WakeTypeOK, OnItsWay, WakesOnce, Role, Probed, Asked, Untouched,
        Unwoken, OnTheWire, wakeVars, flight
<1>1. CASE Negotiate(c)
  <2>1. /\ at[c] = "negotiate" /\ UNCHANGED <<phone, wk, wt, joined, done, err, answered>>
        /\ \E p \in {"tls", "ended"} : at' = [at EXCEPT ![c] = p]
    BY <1>1 DEF Negotiate
  <2>2. CASE sent' = sent
    BY <2>1, <2>2
  <2>3. CASE sent' = [sent EXCEPT ![c] = "TLS required"]
    BY <2>1, <2>3
  <2>4. QED BY <1>1, <2>2, <2>3 DEF Negotiate
<1>2. CASE TLSHandshake(c)    BY <1>2 DEF TLSHandshake
<1>3. CASE ConnectInitial(c)  BY <1>3 DEF ConnectInitial
<1>4. CASE ReadPDU(c)
  <2>1. UNCHANGED <<sent, phone, wk, wt, joined, done, err, answered>>
    BY <1>4 DEF ReadPDU
  <2>2. at' = at \/ at' = [at EXCEPT ![c] = "authenticate"] \/ at' = [at EXCEPT ![c] = "ended"]
    BY <1>4 DEF ReadPDU, PDUs
  <2>3. at[c] = "pdus"
    BY <1>4 DEF ReadPDU
  <2>4. \A d \in Callers \ {c} : Untouched(d)
    BY <2>1, <2>2
  <2>5. CASE at' = at
    BY <2>1, <2>3, <2>4, <2>5
  <2>6. CASE at' = [at EXCEPT ![c] = "authenticate"]
    BY <2>1, <2>3, <2>4, <2>6
  <2>7. CASE at' = [at EXCEPT ![c] = "ended"]
    BY <2>1, <2>3, <2>4, <2>7
  <2>8. QED BY <2>2, <2>5, <2>6, <2>7
<1>5. CASE TooManyPDUs(c)     BY <1>5 DEF TooManyPDUs
<1>6. CASE ClientFails(c)     BY <1>6 DEF ClientFails
<1>7. CASE Refused(c)         BY <1>7 DEF Refused
<1>8. CASE Accepted(c)        BY <1>8 DEF Accepted
<1>9. CASE Woken(c)           BY <1>9 DEF Woken
<1>10. CASE NotUp(c)          BY <1>10 DEF NotUp, Waited
<1>11. CASE Redirect(c)
  <2>1. /\ at[c] = "wait" /\ c \in Logins /\ wt[c] = "up" /\ at' = [at EXCEPT ![c] = "ended"]
        /\ UNCHANGED <<phone, wk, wt, joined, done, err, answered>>
    BY <1>11 DEF Redirect, Waited
  <2>2. CASE sent' = [sent EXCEPT ![c] = "redirection"]
    BY <2>1, <2>2
  <2>3. CASE sent' = [sent EXCEPT ![c] = "disconnect"]
    BY <2>1, <2>3
  <2>4. QED BY <1>11, <2>2, <2>3 DEF Redirect
<1>12. CASE Review(c)         BY <1>12 DEF Review
<1>13. CASE Approve(c)
  <2>1. at[c] = "start" /\ UNCHANGED <<sent, wk, wt, joined, done, err, answered>>
    BY <1>13 DEF Approve
  <2>2. CASE at' = [at EXCEPT ![c] = "allowed"] /\ phone' = [phone EXCEPT ![c] = "allow"]
    BY <2>1, <2>2
  <2>3. CASE at' = [at EXCEPT ![c] = "poll"] /\ phone' = [phone EXCEPT ![c] = "asked"]
    BY <2>1, <2>3
  <2>4. CASE at' = [at EXCEPT ![c] = "denied"] /\ phone' = [phone EXCEPT ![c] = "deny"]
    BY <2>1, <2>4
  <2>5. CASE at' = [at EXCEPT ![c] = "denied"] /\ phone' = phone
    BY <2>1, <2>5
  <2>6. QED BY <1>13, <2>2, <2>3, <2>4, <2>5 DEF Approve
<1>14. CASE Poll(c)           BY <1>14 DEF Poll
<1>15. CASE HoldExpires(c)    BY <1>15 DEF HoldExpires
<1>16. CASE NotApproved(c)    BY <1>16 DEF NotApproved
<1>17. CASE ApprovedWaits(c)  BY <1>17 DEF ApprovedWaits
<1>18. CASE Forward(c)
  <2>1. /\ at[c] = "wait" /\ c \in Approvals /\ at' = [at EXCEPT ![c] = "ended"]
        /\ UNCHANGED <<phone, wk, wt, joined, done, err, answered>>
    BY <1>18 DEF Forward, Waited
  <2>2. CASE wt[c] = "up" /\ sent' = [sent EXCEPT ![c] = "forwarded"]
    BY <2>1, <2>2
  <2>3. CASE sent' = sent
    BY <2>1, <2>3
  <2>4. QED BY <1>18, <2>2, <2>3 DEF Forward
<1>19. CASE Unlock(c)         BY <1>19 DEF Unlock
<1>20. QED
  BY <1>1, <1>2, <1>3, <1>4, <1>5, <1>6, <1>7, <1>8, <1>9, <1>10, <1>11, <1>12, <1>13, <1>14, <1>15, <1>16, <1>17, <1>18, <1>19
     DEF Proceeds

-----------------------------------------------------------------------------
(* The machine, the phone and the clock. *)

LEMMA EnvironmentTyped ==
  ASSUME Flying, Environment
  PROVE  Flying'
<1> USE DEF Flying, WakeInv, TypeOK, WakeTypeOK, OneAttempt, wakeVars, flight
<1>1. CASE (MachineSteps \/ MachineSleeps) /\ Beside
  BY <1>1 DEF MachineSteps, MachineSleeps
<1>2. ASSUME NEW c \in Callers, PhoneAnswers(c) PROVE Flying'
  <2>1. UNCHANGED <<wakeVars, at, read, sent>>
    BY <1>2 DEF PhoneAnswers
  <2>2. WakeInv'
    BY <2>1
  <2>3. phone' \in [Callers -> {"idle", "asked", "allow", "deny"}]
    BY <1>2 DEF PhoneAnswers
  <2>4. QED BY <2>1, <2>2, <2>3
<1>3. ASSUME NEW c \in Callers, PollFails(c) PROVE Flying'
  BY <1>3 DEF PollFails
<1>4. ASSUME NEW c \in Callers, TimeIsUp(c) PROVE Flying'
  BY <1>4 DEF TimeIsUp
<1>5. QED BY <1>1, <1>2, <1>3, <1>4 DEF Environment

\* A phone answers a question that was asked, so no answer changes.
LEMMA EnvironmentLocal ==
  ASSUME Flying, Environment, NEW d \in Callers, OnItsWay(d)
  PROVE  OnItsWay(d)'
<1> USE DEF Flying, TypeOK, WakeTypeOK, OnItsWay, WakesOnce, Role, Probed, Asked,
        Unwoken, OnTheWire, wakeVars, flight
<1>1. CASE (MachineSteps \/ MachineSleeps) /\ Beside
  BY <1>1 DEF MachineSteps, MachineSleeps
<1>2. ASSUME NEW c \in Callers, PhoneAnswers(c) PROVE OnItsWay(d)'
  BY <1>2 DEF PhoneAnswers
<1>3. ASSUME NEW c \in Callers, PollFails(c) PROVE OnItsWay(d)'
  BY <1>3 DEF PollFails
<1>4. ASSUME NEW c \in Callers, TimeIsUp(c) PROVE OnItsWay(d)'
  BY <1>4 DEF TimeIsUp
<1>5. QED BY <1>1, <1>2, <1>3, <1>4 DEF Environment

LEMMA Step == IInv /\ [Next]_vars => IInv'
<1> SUFFICES ASSUME IInv, [Next]_vars PROVE IInv'
  OBVIOUS
<1>0. Flying /\ \A d \in Callers : OnItsWay(d)
  BY DEF IInv, Flying, WakeInv, TypeOK
<1>1. CASE UNCHANGED vars
  BY <1>1 DEF vars, wakeVars, flight, IInv, TypeOK, WakeTypeOK, OneAttempt, OnItsWay,
              WakesOnce, Role, Probed, Asked
<1>2. CASE Environment
  BY <1>0, <1>2, EnvironmentTyped, EnvironmentLocal DEF IInv, Flying, WakeInv
<1>3. ASSUME NEW c \in Callers, Wakes(c) \/ Waits(c) \/ Proceeds(c) PROVE IInv'
  <2>1. Flying'
    <3>1. CASE Wakes(c)
      BY <1>0, <3>1, WakeStepsKeep DEF Flying, Wakes, TypeOK, WakeInv
    <3>2. CASE Waits(c)
      BY <1>0, <3>2, WaitStepsKeep DEF Flying, Waits, TypeOK, WakeInv
    <3>3. CASE Proceeds(c)
      BY <1>0, <3>3, ProceedsTyped
    <3>4. QED BY <1>3, <3>1, <3>2, <3>3
  <2>2. OnItsWay(c)' /\ \A d \in Callers \ {c} : Untouched(d)
    BY <1>0, <1>3, WakesLocal, WaitsLocal, ProceedsLocal DEF Flying
  <2>3. ASSUME NEW d \in Callers PROVE OnItsWay(d)'
    BY <1>0, <2>2, UntouchedKeeps
  <2>4. QED BY <2>1, <2>3 DEF IInv, Flying, WakeInv
<1>4. QED BY <1>1, <1>2, <1>3 DEF Next

THEOREM Invariance == Spec => []IInv
BY InitIInv, Step, PTL DEF Spec

(* Whatever a caller, an attempt to wake the machine and the phone have     *)
(* come to is of its type, through polls that fail and holds that end       *)
(* (policy.go: wake, waitReady; push.go).                                   *)
THEOREM TypeCorrect == Spec => []TypeOK
<1>1. IInv => TypeOK
  BY DEF IInv
<1>2. QED BY <1>1, Invariance, PTL

(* At most one attempt to wake the machine is under way, and the map names  *)
(* it (policy.go: wake).                                                    *)
THEOREM AttemptsAreShared == Spec => []OneAttempt
<1>1. IInv => OneAttempt
  BY DEF IInv
<1>2. QED BY <1>1, Invariance, PTL

(* Nobody is sent on to a machine no probe had an answer from               *)
(* (policy.go: waitReady, Authenticate, Review).                            *)
THEOREM NobodyGoesUnanswered == Spec => []PassedOnMeansAnswered
<1>1. IInv => PassedOnMeansAnswered
  BY DEF IInv, OnItsWay, Probed, PassedOnMeansAnswered
<1>2. QED BY <1>1, Invariance, PTL

(* Nobody held for an approval is forwarded without one (policy.go: Review, *)
(* duo.go: Approve, wait).                                                  *)
THEOREM NobodyGoesUnasked == Spec => []ForwardedMeansAllowed
<1>1. IInv => ForwardedMeansAllowed
  BY LoginAssumption DEF IInv, OnItsWay, Asked, ForwardedMeansAllowed
<1>2. QED BY <1>1, Invariance, PTL
=============================================================================
