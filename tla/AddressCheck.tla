---------------------------- MODULE AddressCheck ----------------------------
(***************************************************************************)
(* How the gateway looks from the internet: a host an operator configured, *)
(* and an address resolvers report, asked on a timer and by a button.      *)
(* Checks are serialised by one mutex; the published snapshot is behind    *)
(* another, which SetHost takes while a check is under way.                *)
(***************************************************************************)
EXTENDS Naturals, FiniteSets

CONSTANTS Addresses,    \* public addresses the connection may have
          Lan,          \* what a captive portal answers: not public
          Resolvers, Liars,
          Names,        \* configured hosts; Points[n] is what DNS says
          Points,
          MaxMoves

ASSUME AddressAssumption ==
    /\ Liars \subseteq Resolvers /\ Lan \notin Addresses
    /\ "" \notin Names \union Addresses \union {Lan}
    /\ Points \in [Names -> Addresses]
    /\ MaxMoves \in Nat

VARIABLES
    host,       \* Service.host
    detect,     \* Service.detect, fixed when the service is built
    state,      \* Service.state
    check,      \* the check under way; it holds the mutex of checks
    address,    \* the address the internet really sees
    moves,      \* bound
    seen        \* the addresses there were since the check began

addressVars == <<host, detect, state, check, address, moves, seen>>

\* Age of the last look: less than the minimal interval ago, longer, never.
Ages == {"recent", "old", "never"}
NoAnswer == ""
Heard == Addresses \union {NoAnswer}

State == [configured : Names \union {""}, detected : Heard,
          effective : Names \union Heard, mismatch : Names \union {""},
          age : Ages]
Check == [pc : {"idle", "ask"}, host : Names \union {""}]
NoCheck == [pc |-> "idle", host |-> ""]

AddressTypeOK ==
    /\ host \in Names \union {""} /\ detect \in BOOLEAN
    /\ state \in State /\ check \in Check
    /\ address \in Addresses /\ seen \subseteq Addresses
    /\ moves \in 0..MaxMoves

\* A configured host wins; a detected address is the fallback.
WithEffectiveHost(s) ==
    [s EXCEPT !.effective = IF s.configured # "" THEN s.configured
                                                 ELSE s.detected]

NewService(h, d) ==
    /\ host' = h /\ detect' = d
    /\ state' = WithEffectiveHost([configured |-> h, detected |-> NoAnswer,
                   effective |-> "", mismatch |-> "", age |-> "never"])
    /\ check' = NoCheck /\ seen' = {}

ServiceInit(h, d) ==
    /\ host = h /\ detect = d
    /\ state = WithEffectiveHost([configured |-> h, detected |-> NoAnswer,
                  effective |-> "", mismatch |-> "", age |-> "never"])
    /\ check = NoCheck /\ seen = {}
    /\ address = (CHOOSE a \in Addresses : TRUE) /\ moves = 0

ClearMismatch(s) == [s EXCEPT !.mismatch = ""]
SetHost(h) ==
    /\ host' = h
    /\ state' = IF h = host THEN state
                ELSE WithEffectiveHost(ClearMismatch([state EXCEPT !.configured = h]))
    /\ UNCHANGED <<detect, check, address, moves, seen>>

----------------------------------------------------------------------------
\* check begins: it notes the host, then asks.
Begin ==
    /\ check.pc = "idle"
    /\ check' = [pc |-> "ask", host |-> host]
    /\ seen' = {address}
    /\ UNCHANGED <<host, detect, state, address, moves>>

\* Run: at the start and on every tick of its timer.
TimerOnce == state.age = "never" /\ Begin   \* mutant: at the start only
TimerCheck == Begin

Fresh == state.age = "recent"
Refresh == ~Fresh /\ Begin

\* askOne: an answer counts when it is one public address.  A resolver is
\* asked at some time during the check and may not answer in time.
Says(r, had) == (IF r \in Liars THEN Addresses ELSE had) \union {Lan}
AskOne(said) == IF said \in Addresses THEN said ELSE NoAnswer

\* tally and quorum: most votes win, and two have to agree if two can.
Votes(answers, a) == Cardinality({r \in Resolvers : answers[r] = a})
Quorum == IF Cardinality(Resolvers) < 2 THEN 1 ELSE 2
Tally(answers) ==
    LET winner == CHOOSE a \in Addresses :
                    \A b \in Addresses : Votes(answers, b) <= Votes(answers, a)
    IN IF Votes(answers, winner) >= Quorum THEN winner ELSE NoAnswer

\* What a round of questions may end with, by the addresses there were.
Rounds ==
    {[had |-> p[1], detected |-> Tally([r \in Resolvers |-> AskOne(p[2][r])])] :
        p \in {q \in (SUBSET Addresses) \X [Resolvers -> Addresses \union {Lan}] :
                 \A r \in Resolvers : q[2][r] \in Says(r, q[1])}}

\* Detect: an address of the machine's own interface, or what resolvers say.
Detected ==
    IF detect THEN {r.detected : r \in {x \in Rounds : x.had = seen}} \union {address}
              ELSE {NoAnswer}

\* compare: the configured host points where the gateway was detected, or
\* the snapshot complains; so it does when the name cannot be looked up.
Complaints(h, detected) ==
    IF h = "" \/ detected = NoAnswer THEN {""}
    ELSE IF Points[h] = detected THEN {"", h} ELSE {h}

\* The answers are in or the time is up.  A slow check is already old when it
\* is published, and the button may force another.
Publish ==
    /\ check.pc = "ask"
    /\ \E detected \in Detected, age \in {"recent", "old"} :
         /\ \E complaint \in Complaints(check.host, detected) :
              state' = WithEffectiveHost(
                 [configured |-> check.host, detected |-> detected,
                  effective |-> "", mismatch |-> complaint, age |-> age])
    /\ check' = NoCheck /\ seen' = {}
    /\ UNCHANGED <<host, detect, address, moves>>

----------------------------------------------------------------------------
\* The provider gives the connection another address.  Nobody notices before
\* a check asks, so it is enough to let that happen during one.
Move ==
    /\ check.pc = "ask" /\ moves < MaxMoves /\ moves' = moves + 1
    /\ address' \in Addresses \ {address}
    /\ seen' = seen \union {address'}
    /\ UNCHANGED <<host, detect, state, check>>

\* The minimal interval since the last look goes by.
IntervalPasses ==
    /\ check.pc = "idle" /\ state.age = "recent"
    /\ state' = [state EXCEPT !.age = "old"]
    /\ UNCHANGED <<host, detect, check, address, moves, seen>>
=============================================================================
