------------------------------ MODULE Notifier ------------------------------
(***************************************************************************)
(* The notifier (internal/notify).  Handle runs on the goroutine that      *)
(* logged an event and never waits: a full queue drops the event and       *)
(* counts it.  Run delivers one message at a time, at the pace of a token  *)
(* bucket, and reports what was left out with the next message it sends.   *)
(*                                                                         *)
(* wanted stands for the settings: the configured events, none at all when *)
(* notifications are off or have no URL.                                   *)
(***************************************************************************)
EXTENDS Sequences, Naturals

CONSTANTS
    Wanted,      \* the sets of events the settings may choose
    QueueDepth, Burst, Refill,
    Tries,       \* attempts of one delivery
    MaxTime,     \* bound of the clock
    MaxConfigs   \* bound: how often the settings are saved

ASSUME NotifierAssumption ==
    /\ QueueDepth \in Nat \ {0} /\ Burst \in Nat \ {0} /\ Refill \in Nat \ {0}
    /\ Tries \in Nat \ {0} /\ MaxTime \in Nat /\ MaxConfigs \in Nat

VARIABLES
    now, configs,          \* the clock; settings saved so far
    wanted,                \* cfg
    queue, dropped,        \* shared between Handle and Run
    runner,                \* Run: what it holds and how far it is
    tokens, last, suppressed,
    told,                  \* history: wanted events given to Handle
    reached, lost,         \* history: events a message told of, or failed to
    rendered               \* history: when each message left the bucket

notifierVars == <<now, configs, wanted, queue, dropped, runner, tokens, last,
                  suppressed, told, reached, lost, rendered>>
bucket == <<tokens, last, suppressed>>
tally == <<told, reached, lost, rendered>>

Least(a, b) == IF a < b THEN a ELSE b
Waiting == [pc |-> "waiting", event |-> <<>>, counts |-> 0, attempt |-> 0]

NotifierInit ==
    /\ now = 0 /\ configs = 0
    /\ wanted \in Wanted
    /\ queue = <<>> /\ dropped = 0
    /\ runner = Waiting
    /\ tokens = Burst /\ last = 0 /\ suppressed = 0
    /\ told = 0 /\ reached = 0 /\ lost = 0 /\ rendered = <<>>

\* Configure: the settings page was saved.
Configure(events) ==
    /\ events # wanted /\ configs < MaxConfigs
    /\ wanted' = events /\ configs' = configs + 1
    /\ UNCHANGED <<now, queue, dropped, runner, bucket, tally>>

Enqueue(e) ==
    \/ /\ Len(queue) < QueueDepth
       /\ queue' = Append(queue, e)
       /\ UNCHANGED dropped
    \/ /\ Len(queue) = QueueDepth
       /\ dropped' = dropped + 1
       /\ UNCHANGED queue

\* Handle: the audit watcher.
Handle(e) ==
    /\ \/ e.action \notin wanted /\ UNCHANGED <<queue, dropped, told>>
       \/ e.action \in wanted /\ Enqueue(e) /\ told' = told + 1
    /\ UNCHANGED <<now, configs, wanted, runner, bucket, reached, lost,
                   rendered>>

\* Run, the receive.
Receive ==
    /\ runner.pc = "waiting" /\ queue # <<>>
    /\ runner' = [Waiting EXCEPT !.pc = "holding", !.event = Head(queue)]
    /\ queue' = Tail(queue)
    /\ UNCHANGED <<now, configs, wanted, dropped, bucket, tally>>

\* What the bucket holds now, and since when it has been filling.
grown == (now - last) \div Refill
Tokens == Least(tokens + grown, Burst)
LastBanked == last + grown * Refill   \* mutant: a full bucket keeps its clock
Last_ == IF Tokens = Burst THEN now ELSE last + grown * Refill

\* Run, an empty bucket: the event is only counted.
Suppress ==
    /\ runner.pc = "holding" /\ Tokens = 0
    /\ suppressed' = suppressed + 1
    /\ tokens' = Tokens /\ last' = Last_
    /\ runner' = Waiting
    /\ UNCHANGED <<now, configs, wanted, queue, dropped, tally>>

\* Mutant: the counts of drops are read, not taken.
RenderLeavingDrops ==
    /\ runner.pc = "holding" /\ Tokens > 0
    /\ tokens' = Tokens - 1 /\ last' = Last_
    /\ runner' = [runner EXCEPT !.pc = "sending",
                                !.counts = suppressed + dropped]
    /\ suppressed' = 0
    /\ rendered' = Append(rendered, now)
    /\ UNCHANGED <<now, configs, wanted, queue, dropped, told, reached, lost>>

\* Run, a token: render, and take over what was left out before.
Render ==
    /\ runner.pc = "holding" /\ Tokens > 0
    /\ tokens' = Tokens - 1 /\ last' = Last_
    /\ runner' = [runner EXCEPT !.pc = "sending",
                                !.counts = suppressed + dropped]
    /\ suppressed' = 0 /\ dropped' = 0
    /\ rendered' = Append(rendered, now)
    /\ UNCHANGED <<now, configs, wanted, queue, told, reached, lost>>

\* deliver: no answer, 429 or 5xx, and attempts left.
TryAgain ==
    /\ runner.pc = "sending" /\ runner.attempt + 1 < Tries
    /\ runner' = [runner EXCEPT !.attempt = @ + 1]
    /\ UNCHANGED <<now, configs, wanted, queue, dropped, bucket, tally>>

Delivered ==
    /\ runner.pc = "sending"
    /\ reached' = reached + 1 + runner.counts
    /\ runner' = Waiting
    /\ UNCHANGED <<now, configs, wanted, queue, dropped, bucket, told, lost,
                   rendered>>

\* Refused for good, out of attempts, or out of time.
NotDelivered ==
    /\ runner.pc = "sending"
    /\ lost' = lost + 1 + runner.counts
    /\ runner' = Waiting
    /\ UNCHANGED <<now, configs, wanted, queue, dropped, bucket, told,
                   reached, rendered>>

Tick ==
    /\ now < MaxTime
    /\ now' = now + 1
    /\ UNCHANGED <<configs, wanted, queue, dropped, runner, bucket, tally>>

\* The service starts again with an empty notifier.
NotifierRestart ==
    /\ queue' = <<>> /\ dropped' = 0
    /\ runner' = Waiting
    /\ tokens' = Burst /\ last' = now /\ suppressed' = 0
    /\ told' = 0 /\ reached' = 0 /\ lost' = 0 /\ rendered' = <<>>
    /\ UNCHANGED <<now, configs, wanted>>

RunStep == Receive \/ Suppress \/ Render \/ TryAgain \/ Delivered
           \/ NotDelivered

InHand == CASE runner.pc = "waiting" -> 0
            [] runner.pc = "holding" -> 1
            [] runner.pc = "sending" -> 1 + runner.counts

NotifierTypeOK ==
    /\ now \in 0..MaxTime /\ wanted \in Wanted /\ Len(queue) <= QueueDepth
    /\ {dropped, suppressed, told, reached, lost} \subseteq Nat
    /\ runner.pc \in {"waiting", "holding", "sending"}
    /\ runner.attempt \in 0..(Tries - 1)
    /\ tokens \in 0..Burst /\ last \in 0..now
=============================================================================
