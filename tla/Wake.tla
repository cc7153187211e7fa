-------------------------------- MODULE Wake --------------------------------
(***************************************************************************)
(* Waking one machine for many callers at once: the portal's unlocks, the  *)
(* RDP logins and the approvals share one attempt, and those that go on    *)
(* to the machine wait until it answers.                                   *)
(***************************************************************************)
EXTENDS Naturals, FiniteSets

CONSTANTS
    Callers,        \* everything that ever wakes the machine, once each
    Logins,         \* the ones that wake it under their own context; the
                    \* others hand the wake a context nobody cancels
    None,
    ValidMAC        \* the machine's address can be parsed

ASSUME WakeAssumption == None \notin Callers /\ Logins \subseteq Callers /\ ValidMAC \in BOOLEAN

VARIABLES
    power,          \* the machine: off, booting, accepting TCP, RDP ready
    waking,         \* e.waking[t.ID]: the caller whose attempt is under way
    done, err,      \* wakeState.done and wakeState.err of each attempt
    wk,             \* where each caller's wake is
    wt,             \* where each caller's waitReady is
    joined,         \* [wk, wt]: whose attempt a caller waits for
    over,           \* the caller's context is done
    answered        \* callers whose own probe, or the one they joined, was answered

flight == <<waking, done, err, wk, wt, joined, answered>>
wakeVars == <<power, flight, over>>

Attempting == {"alive", "mac", "send", "probe", "settle", "delete"}
Answers == power \in {"accepts", "ready"}

WakeInit ==
    /\ power = "off"
    /\ waking = None
    /\ done = [c \in Callers |-> FALSE] /\ err = [c \in Callers |-> FALSE]
    /\ wk = [c \in Callers |-> "idle"] /\ wt = [c \in Callers |-> "idle"]
    /\ joined = [c \in Callers |-> [wk |-> None, wt |-> None]]
    /\ over = [c \in Callers |-> FALSE]
    /\ answered = {}

Cancelled(c) == c \in Logins /\ over[c]
WakeGoto(c, l) == wk' = [wk EXCEPT ![c] = l]
WaitGoto(c, l) == wt' = [wt EXCEPT ![c] = l]

----------------------------------------------------------------------------
(* The machine.                                                             *)

MachineSteps ==
    /\ \/ power = "booting" /\ power' = "accepts"
       \/ power = "accepts" /\ power' = "ready"
    /\ UNCHANGED <<flight, over>>

MachineSleeps ==
    /\ power' = "off"
    /\ UNCHANGED <<flight, over>>

----------------------------------------------------------------------------
(* wake.                                                                    *)

\* Mutant: every caller begins an attempt of its own.
WakeUnshared(c) ==
    /\ wk[c] = "begin"
    /\ waking' = c
    /\ WakeGoto(c, "alive")
    /\ UNCHANGED <<power, done, err, wt, joined, answered, over>>

\* Under wakeMu: join the attempt under way or begin one.
WakeBegin(c) ==
    /\ wk[c] = "begin"
    /\ IF waking # None
       THEN /\ joined' = [joined EXCEPT ![c].wk = waking]
            /\ WakeGoto(c, "join")
            /\ UNCHANGED waking
       ELSE /\ waking' = c
            /\ WakeGoto(c, "alive")
            /\ UNCHANGED joined
    /\ UNCHANGED <<power, done, err, wt, answered, over>>

\* A joiner waits for the channel alone, whatever becomes of its own context.
WakeJoined(c) ==
    /\ wk[c] = "join" /\ done[joined[c].wk]
    /\ WakeGoto(c, "returned")
    /\ UNCHANGED <<power, waking, done, err, wt, joined, answered, over>>

\* A machine that is up already needs nothing. Alive fails on a context that
\* is done.
WakeAlive(c) ==
    /\ wk[c] = "alive"
    /\ IF Answers /\ ~Cancelled(c)
       THEN WakeGoto(c, "delete") /\ answered' = answered \union {c}
       ELSE WakeGoto(c, "mac") /\ UNCHANGED answered
    /\ UNCHANGED <<power, waking, done, err, wt, joined, over>>

ParseMAC(c) ==
    /\ wk[c] = "mac"
    /\ IF ValidMAC THEN WakeGoto(c, "send") /\ UNCHANGED err
       ELSE WakeGoto(c, "delete") /\ err' = [err EXCEPT ![c] = TRUE]
    /\ UNCHANGED <<power, waking, done, wt, joined, answered, over>>

\* Sender.Send: an error of the socket, or packets that wake the machine
\* unless they are lost on the way.
Send(c) ==
    /\ wk[c] = "send"
    /\ \/ /\ WakeGoto(c, "delete") /\ err' = [err EXCEPT ![c] = TRUE]
          /\ UNCHANGED power
       \/ /\ WakeGoto(c, "probe")
          /\ \/ UNCHANGED power
             \/ power = "off" /\ power' = "booting"
          /\ UNCHANGED err
    /\ UNCHANGED <<waking, done, wt, joined, answered, over>>

\* Mutant: no answer is not an error.
ProbeForgets(c) ==
    /\ wk[c] = "probe"
    /\ IF Answers THEN WakeGoto(c, "settle") /\ answered' = answered \union {c}
       ELSE WakeGoto(c, "delete") /\ UNCHANGED answered
    /\ UNCHANGED <<power, waking, done, err, wt, joined, over>>

\* Prober.WaitReady within the boot timeout: an answer, then the settling
\* time, which is as long as a machine that accepts takes to be ready; or the
\* timer, or the end of the context.
WakeProbe(c) ==
    /\ wk[c] = "probe"
    /\ \/ /\ Answers /\ ~Cancelled(c)
          /\ WakeGoto(c, "settle") /\ answered' = answered \union {c}
          /\ UNCHANGED err
       \/ /\ ~Answers \/ Cancelled(c)
          /\ WakeGoto(c, "delete") /\ err' = [err EXCEPT ![c] = TRUE]
          /\ UNCHANGED answered
    /\ UNCHANGED <<power, waking, done, wt, joined, over>>

Settled == power # "accepts"
WakeSettle(c) ==
    /\ wk[c] = "settle"
    /\ WakeGoto(c, "delete")
    /\ \/ Settled /\ UNCHANGED err
       \/ err' = [err EXCEPT ![c] = TRUE]
    /\ UNCHANGED <<power, waking, done, wt, joined, answered, over>>

\* The deferred end, on every way out: the entry goes first, under the mutex,
\* then the channel is closed.
WakeDelete(c) ==
    /\ wk[c] = "delete"
    /\ waking' = None
    /\ WakeGoto(c, "close")
    /\ UNCHANGED <<power, done, err, wt, joined, answered, over>>

\* Mutant: a failed attempt never closes its channel.
CloseMissed(c) ==
    /\ wk[c] = "close"
    /\ done' = IF err[c] THEN done ELSE [done EXCEPT ![c] = TRUE]
    /\ WakeGoto(c, "returned")
    /\ UNCHANGED <<power, waking, err, wt, joined, answered, over>>

WakeClose(c) ==
    /\ wk[c] = "close"
    /\ done' = [done EXCEPT ![c] = TRUE]
    /\ WakeGoto(c, "returned")
    /\ UNCHANGED <<power, waking, err, wt, joined, answered, over>>

WakeSteps(c) ==
    \/ WakeBegin(c) \/ WakeJoined(c) \/ WakeAlive(c) \/ ParseMAC(c) \/ Send(c)
    \/ WakeProbe(c) \/ WakeSettle(c) \/ WakeDelete(c) \/ WakeClose(c)

----------------------------------------------------------------------------
(* waitReady.                                                               *)

\* Under wakeMu: the attempt under way, if any, decides.
WaitBegin(c) ==
    /\ wt[c] = "begin"
    /\ IF waking # None
       THEN /\ joined' = [joined EXCEPT ![c].wt = waking]
            /\ WaitGoto(c, "join")
       ELSE WaitGoto(c, "probe") /\ UNCHANGED joined
    /\ UNCHANGED <<power, waking, done, err, wk, answered, over>>

\* done is closed, or the caller's own boot timeout or context ends.
WaitJoined(c) ==
    /\ wt[c] = "join"
    /\ \/ /\ done[joined[c].wt]
          /\ WaitGoto(c, IF err[joined[c].wt] THEN "failed" ELSE "up")
          /\ answered' = IF joined[c].wt \in answered
                         THEN answered \union {c} ELSE answered
       \/ WaitGoto(c, "failed") /\ UNCHANGED answered
    /\ UNCHANGED <<power, waking, done, err, wk, joined, over>>

WaitProbe(c) ==
    /\ wt[c] = "probe"
    /\ \/ /\ Answers /\ ~over[c]
          /\ WaitGoto(c, "settle") /\ answered' = answered \union {c}
       \/ /\ ~Answers \/ over[c]
          /\ WaitGoto(c, "failed") /\ UNCHANGED answered
    /\ UNCHANGED <<power, waking, done, err, wk, joined, over>>

WaitSettle(c) ==
    /\ wt[c] = "settle"
    /\ \/ Settled /\ WaitGoto(c, "up")
       \/ WaitGoto(c, "failed")
    /\ UNCHANGED <<power, waking, done, err, wk, joined, answered, over>>

WaitSteps(c) == WaitBegin(c) \/ WaitJoined(c) \/ WaitProbe(c) \/ WaitSettle(c)

----------------------------------------------------------------------------

WakeTypeOK ==
    /\ power \in {"off", "booting", "accepts", "ready"}
    /\ waking \in Callers \union {None}
    /\ done \in [Callers -> BOOLEAN] /\ err \in [Callers -> BOOLEAN]
    /\ wk \in [Callers -> Attempting \union {"idle", "begin", "join", "close",
                                             "returned"}]
    /\ wt \in [Callers -> {"idle", "begin", "join", "probe", "settle", "up",
                           "failed"}]
    /\ joined \in [Callers -> [wk : Callers \union {None}, wt : Callers \union {None}]]
    /\ over \in [Callers -> BOOLEAN]
    /\ answered \subseteq Callers

\* One attempt at a time, however many ask, and the entry in the map is the
\* attempt that is under way: "Ten browser tabs must not mean ten magic
\* packets and ten prober goroutines."
OneAttempt ==
    \A c \in Callers : wk[c] \in Attempting <=> waking = c
=============================================================================
