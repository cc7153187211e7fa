--------------------------- MODULE EventLogProofs ---------------------------
(***************************************************************************)
(* Theorems about EventLog, for every number of writers and processes,     *)
(* every depth of the queue and every burst and refill of the bucket.      *)
(***************************************************************************)
EXTENDS EventLog, TLAPS

-----------------------------------------------------------------------------
(* The chain.  A writer that has read the head may insert only while        *)
(* nobody has inserted since, and then what it read is still the head.      *)

Previous(rows, i) == IF i = 1 THEN genesis ELSE rows[i - 1].hash

Linked(rows) == \A i \in 1..Len(rows) :
  /\ rows[i].prev = Previous(rows, i)
  /\ rows[i].hash = chainHash(rows[i].prev, rows[i].entry)

Fields == {"pc", "n", "action", "prev", "seen", "attempt"}

KnowsHead(w) ==
  /\ DOMAIN writer[w] = Fields
  /\ writer[w].pc = "insert" => /\ writer[w].seen \in Nat /\ writer[w].seen <= Len(log)
                                /\ Unchanged(w) => writer[w].prev = head(log)

Chain == /\ \E S : log \in Seq(S)
         /\ Linked(log)
         /\ DOMAIN writer = Writers
         /\ \A w \in Writers : KnowsHead(w)

LEMMA HeadIsPrevious ==
  ASSUME NEW S, NEW rows \in Seq(S), NEW i \in 1..(Len(rows) + 1)
  PROVE  head(SubSeq(rows, 1, i - 1)) = Previous(rows, i)
<1>1. CASE i = 1
  <2>1. SubSeq(rows, 1, i - 1) = <<>>
    BY <1>1
  <2>2. QED BY <1>1, <2>1 DEF head, Previous
<1>2. CASE i > 1
  BY <1>2 DEF head, Previous, Last
<1>3. QED BY <1>1, <1>2

LEMMA LinkedVerifies ==
  ASSUME NEW S, log \in Seq(S), Linked(log)
  PROVE  Verify(log) = 0
<1>1. \A i \in DOMAIN log : Fits(log, i)
  BY HeadIsPrevious DEF Fits, Linked
<1>2. QED BY <1>1 DEF Verify

LEMMA AppendLinks ==
  ASSUME NEW S, NEW rows \in Seq(S), Linked(rows), NEW e
  PROVE  Linked(Append(rows, Row(head(rows), e)))
<1> DEFINE r == Row(head(rows), e)
<1>1. r.prev = head(rows) /\ r.hash = chainHash(r.prev, r.entry)
  BY DEF Row
<1>2. head(rows) = Previous(rows, Len(rows) + 1)
  <2>1. SubSeq(rows, 1, Len(rows)) = rows
    OBVIOUS
  <2>2. Len(rows) \in Nat
    OBVIOUS
  <2>3. Len(rows) + 1 \in 1..(Len(rows) + 1) /\ (Len(rows) + 1) - 1 = Len(rows)
    BY <2>2
  <2>4. head(SubSeq(rows, 1, (Len(rows) + 1) - 1)) = Previous(rows, Len(rows) + 1)
    BY <2>3, HeadIsPrevious
  <2>5. QED BY <2>1, <2>3, <2>4, Zenon
<1> HIDE DEF r
<1>3. Len(Append(rows, r)) = Len(rows) + 1
  OBVIOUS
<1>4. ASSUME NEW i \in 1..(Len(rows) + 1)
      PROVE  Append(rows, r)[i] = IF i = Len(rows) + 1 THEN r ELSE rows[i]
  OBVIOUS
<1>5. ASSUME NEW i \in 1..(Len(rows) + 1)
      PROVE  Previous(Append(rows, r), i) = Previous(rows, i)
  <2>1. CASE i = 1
    BY <2>1 DEF Previous
  <2>2. CASE i # 1
    <3>1. i - 1 \in 1..(Len(rows) + 1) /\ i - 1 # Len(rows) + 1
      BY <2>2
    <3>2. QED BY <2>2, <3>1, <1>4 DEF Previous
  <2>3. QED BY <2>1, <2>2
<1> DEFINE all == Append(rows, r)
<1>6. ASSUME NEW i \in 1..(Len(rows) + 1)
      PROVE  /\ all[i].prev = Previous(all, i)
             /\ all[i].hash = chainHash(all[i].prev, all[i].entry)
  <2>1. CASE i = Len(rows) + 1
    BY <1>1, <1>2, <1>4, <1>5, <2>1
  <2>2. CASE i # Len(rows) + 1
    <3>1. i \in 1..Len(rows) /\ all[i] = rows[i]
      BY <2>2, <1>4
    <3>2. QED BY <1>5, <3>1 DEF Linked
  <2>3. QED BY <2>1, <2>2
<1>7. Len(all) = Len(rows) + 1
  BY <1>3
<1> HIDE DEF all
<1>8. Linked(all)
  BY <1>6, <1>7 DEF Linked
<1>9. QED BY <1>8 DEF all, r

\* A step that leaves the log alone and w where it does not know the head.
LEMMA NotInserting ==
  ASSUME Chain, UNCHANGED log, NEW w \in Writers, NEW r, DOMAIN r = Fields, r.pc # "insert",
         writer' = [writer EXCEPT ![w] = r]
  PROVE  Chain'
BY DEF Chain, KnowsHead, Unchanged

LEMMA WriteKeepsChain ==
  ASSUME Chain, NEW w \in Writers, Write(w) \/ Announce(w)
  PROVE  Chain'
<1>1. DOMAIN writer[w] = Fields /\ DOMAIN Idle(writer[w].n) = Fields
  BY DEF Chain, KnowsHead, Idle, Fields
<1>2. ASSUME NEW a \in Actions, Append_(w, a) PROVE Chain'
  <2> DEFINE r == [writer[w] EXCEPT !.pc = "locking", !.n = @ + 1, !.action = a]
  <2>1. DOMAIN r = Fields /\ r.pc # "insert"
    BY <1>1 DEF Fields
  <2>2. writer' = [writer EXCEPT ![w] = r] /\ UNCHANGED log
    BY <1>2 DEF Append_
  <2> HIDE DEF r
  <2>3. QED BY <2>1, <2>2, NotInserting
<1>3. CASE LockChain(w)
  <2> DEFINE r == [writer[w] EXCEPT !.pc = "begin"]
  <2>1. DOMAIN r = Fields /\ r.pc # "insert"
    BY <1>1 DEF Fields
  <2>2. writer' = [writer EXCEPT ![w] = r] /\ UNCHANGED log
    BY <1>3 DEF LockChain
  <2> HIDE DEF r
  <2>3. QED BY <2>1, <2>2, NotInserting
<1>4. CASE ReadHead(w)
  <2> DEFINE r == [writer[w] EXCEPT !.pc = "insert", !.prev = head(log), !.seen = Len(log)]
  <2>1. DOMAIN r = Fields /\ r.prev = head(log) /\ r.seen = Len(log)
    BY <1>1 DEF Fields
  <2>2. writer' = [writer EXCEPT ![w] = r] /\ UNCHANGED log
    BY <1>4 DEF ReadHead
  <2>3. Len(log) \in Nat
    BY DEF Chain
  <2> HIDE DEF r
  <2>4. QED BY <2>1, <2>2, <2>3 DEF Chain, KnowsHead, Unchanged
<1>5. CASE InsertAndCommit(w)
  <2> DEFINE r == [Idle(writer[w].n) EXCEPT !.pc = "announce", !.action = writer[w].action]
             row == Row(writer[w].prev, WriterAt(w))
  <2>1. DOMAIN r = Fields /\ r.pc = "announce"
    BY <1>1 DEF Fields
  <2>2. writer' = [writer EXCEPT ![w] = r] /\ log' = Append(log, row)
    BY <1>5 DEF InsertAndCommit
  <2>3. writer[w].prev = head(log)
    BY <1>5 DEF InsertAndCommit, Holds, Chain, KnowsHead
  <2>4. PICK S : log \in Seq(S)
    BY DEF Chain
  <2>5. Linked(log')
    BY <2>2, <2>3, <2>4, AppendLinks DEF Chain
  <2> HIDE DEF r, row
  <2>6. log' \in Seq(S \cup {row}) /\ Len(log') = Len(log) + 1 /\ Len(log) \in Nat
    <3>1. log \in Seq(S \cup {row})
      BY <2>4
    <3>2. QED BY <2>2, <2>4, <3>1
  <2>7. \A v \in Writers : KnowsHead(v)'
    BY <2>1, <2>2, <2>6 DEF Chain, KnowsHead, Unchanged
  <2>8. QED BY <2>2, <2>5, <2>6, <2>7 DEF Chain
<1>6. CASE Retry(w)
  <2> DEFINE r == [writer[w] EXCEPT !.pc = "begin", !.attempt = @ + 1, !.prev = genesis, !.seen = 0]
  <2>1. DOMAIN r = Fields /\ r.pc # "insert"
    BY <1>1 DEF Fields
  <2>2. writer' = [writer EXCEPT ![w] = r] /\ UNCHANGED log
    BY <1>6 DEF Retry
  <2> HIDE DEF r
  <2>3. QED BY <2>1, <2>2, NotInserting
<1>7. CASE GiveUp(w) \/ Announce(w)
  <2>1. writer' = [writer EXCEPT ![w] = Idle(writer[w].n)] /\ UNCHANGED log
    BY <1>7 DEF GiveUp, Announce, Announced
  <2>2. Idle(writer[w].n).pc # "insert"
    BY DEF Idle
  <2>3. QED BY <1>1, <2>1, <2>2, NotInserting
<1>8. QED BY <1>2, <1>3, <1>4, <1>5, <1>6, <1>7 DEF Write

LEMMA CrashKeepsChain ==
  ASSUME Chain, NEW p \in Processes, Crash(p)
  PROVE  Chain'
<1>1. ASSUME NEW w \in Writers
      PROVE  writer'[w] = writer[w] \/ writer'[w] = Idle(writer[w].n)
  BY DEF Crash, AuditCrash
<1>2. ASSUME NEW n PROVE DOMAIN Idle(n) = Fields /\ Idle(n).pc # "insert"
  BY DEF Idle, Fields
<1>3. UNCHANGED log /\ DOMAIN writer' = Writers
  BY DEF Crash, AuditCrash
<1>4. QED BY <1>1, <1>2, <1>3 DEF Chain, KnowsHead, Unchanged

LEMMA NextChain ==
  ASSUME Chain, [Next]_vars
  PROVE  Chain'
<1>1. CASE UNCHANGED auditVars
  BY <1>1 DEF auditVars, Chain, KnowsHead, Unchanged
<1>2. QED
  BY <1>1, WriteKeepsChain, CrashKeepsChain DEF Next, Notify, Settings, Time, vars

-----------------------------------------------------------------------------
(* The account of the notifier.                                             *)

RunnerFields == {"pc", "event", "counts", "attempt"}
NotifierOK ==
  /\ dropped \in Nat /\ suppressed \in Nat /\ told \in Nat
  /\ reached \in Nat /\ lost \in Nat
  /\ DOMAIN runner = RunnerFields
  /\ runner.pc \in {"waiting", "holding", "sending"} /\ runner.counts \in Nat
  /\ \E S : queue \in Seq(S)
  /\ Accounted

LEMMA HandleKeeps ==
  ASSUME NotifierOK, NEW e, Handle(e)
  PROVE  NotifierOK'
<1>1. PICK S : queue \in Seq(S)
  BY DEF NotifierOK
<1>2. CASE queue' = Append(queue, e) /\ UNCHANGED dropped
  <2>1. queue \in Seq(S \cup {e})
    BY <1>1
  <2>2. queue' \in Seq(S \cup {e}) /\ Len(queue') = Len(queue) + 1 /\ Len(queue) \in Nat
    BY <1>2, <2>1
  <2>3. told' = told + 1 /\ UNCHANGED <<suppressed, reached, lost, runner>>
    BY <1>2, <2>2 DEF Handle, Enqueue, bucket
  <2>4. InHand' = InHand /\ InHand \in Nat
    BY <2>3 DEF NotifierOK, InHand
  <2>5. Accounted'
    BY <1>2, <2>2, <2>3, <2>4 DEF NotifierOK, Accounted
  <2>6. QED BY <1>2, <2>2, <2>3, <2>5 DEF NotifierOK
<1>3. CASE queue' = queue
  <2>1. UNCHANGED <<suppressed, reached, lost, runner>>
    BY DEF Handle, bucket
  <2>2. \/ told' = told /\ dropped' = dropped
        \/ told' = told + 1 /\ dropped' = dropped + 1
    <3>1. CASE e.action \notin wanted
      BY <3>1 DEF Handle
    <3>2. CASE e.action \in wanted /\ Enqueue(e) /\ told' = told + 1
      <4>1. Append(queue, e) # queue
        <5>1. Len(Append(queue, e)) = Len(queue) + 1 /\ Len(queue) \in Nat
          BY <1>1
        <5>2. QED BY <5>1
      <4>2. QED BY <1>3, <3>2, <4>1 DEF Enqueue
    <3>3. QED BY <3>1, <3>2 DEF Handle
  <2>3. Len(queue) \in Nat
    BY <1>1
  <2>4. InHand' = InHand /\ InHand \in Nat
    BY <2>1 DEF NotifierOK, InHand
  <2>5. Accounted'
    BY <1>3, <2>1, <2>2, <2>3, <2>4 DEF NotifierOK, Accounted
  <2>6. told' \in Nat /\ dropped' \in Nat
    BY <2>2 DEF NotifierOK
  <2>7. QED BY <1>1, <1>3, <2>1, <2>5, <2>6 DEF NotifierOK
<1>4. QED BY <1>2, <1>3 DEF Handle, Enqueue

LEMMA RunKeeps ==
  ASSUME NotifierOK, RunStep
  PROVE  NotifierOK'
<1>1. PICK S : queue \in Seq(S)
  BY DEF NotifierOK
<1>2. Len(queue) \in Nat
  BY <1>1
<1>3. CASE Receive
  <2> DEFINE r == [Waiting EXCEPT !.pc = "holding", !.event = Head(queue)]
  <2>1. DOMAIN r = RunnerFields /\ r.pc = "holding" /\ r.counts = 0
    BY DEF Waiting, RunnerFields
  <2>2. queue' \in Seq(S) /\ Len(queue') = Len(queue) - 1
    BY <1>1, <1>3 DEF Receive
  <2>3. runner' = r /\ runner.pc = "waiting" /\ UNCHANGED <<dropped, suppressed, told, reached, lost>>
    BY <1>3 DEF Receive, bucket, tally
  <2> HIDE DEF r
  <2>4. InHand = 0 /\ InHand' = 1
    BY <2>1, <2>3 DEF InHand
  <2>5. Accounted'
    BY <1>2, <2>2, <2>3, <2>4 DEF NotifierOK, Accounted
  <2>6. QED BY <1>2, <2>1, <2>2, <2>3, <2>5 DEF NotifierOK
<1>4. CASE Suppress
  <2>1. DOMAIN Waiting = RunnerFields /\ Waiting.pc = "waiting" /\ Waiting.counts = 0
    BY DEF Waiting, RunnerFields
  <2>2. /\ runner' = Waiting /\ runner.pc = "holding" /\ suppressed' = suppressed + 1
        /\ UNCHANGED <<queue, dropped, told, reached, lost>>
    BY <1>4 DEF Suppress, tally
  <2>3. InHand = 1 /\ InHand' = 0
    BY <2>1, <2>2 DEF InHand, NotifierOK
  <2>4. Accounted'
    BY <1>2, <2>2, <2>3 DEF NotifierOK, Accounted
  <2>5. QED BY <1>1, <2>1, <2>2, <2>4 DEF NotifierOK
<1>5. CASE Render
  <2> DEFINE r == [runner EXCEPT !.pc = "sending", !.counts = suppressed + dropped]
  <2>1. DOMAIN r = RunnerFields /\ r.pc = "sending" /\ r.counts = suppressed + dropped
    BY DEF NotifierOK, RunnerFields
  <2>2. /\ runner' = r /\ runner.pc = "holding" /\ suppressed' = 0 /\ dropped' = 0
        /\ UNCHANGED <<queue, told, reached, lost>>
    BY <1>5 DEF Render
  <2> HIDE DEF r
  <2>3. InHand = 1 /\ InHand' = 1 + suppressed + dropped
    BY <2>1, <2>2 DEF InHand, NotifierOK
  <2>4. Accounted'
    BY <1>2, <2>2, <2>3 DEF NotifierOK, Accounted
  <2>5. QED BY <1>1, <1>2, <2>1, <2>2, <2>4 DEF NotifierOK
<1>6. CASE TryAgain
  <2> DEFINE r == [runner EXCEPT !.attempt = @ + 1]
  <2>1. DOMAIN r = RunnerFields /\ r.pc = runner.pc /\ r.counts = runner.counts
    BY DEF NotifierOK, RunnerFields
  <2>2. runner' = r /\ UNCHANGED <<queue, dropped, suppressed, told, reached, lost>>
    BY <1>6 DEF TryAgain, bucket, tally
  <2> HIDE DEF r
  <2>3. InHand' = InHand
    BY <2>1, <2>2 DEF InHand
  <2>4. Accounted'
    BY <2>2, <2>3 DEF NotifierOK, Accounted
  <2>5. QED BY <1>1, <2>1, <2>2, <2>4 DEF NotifierOK
<1>7. CASE Delivered \/ NotDelivered
  <2>1. DOMAIN Waiting = RunnerFields /\ Waiting.pc = "waiting" /\ Waiting.counts = 0
    BY DEF Waiting, RunnerFields
  <2>2. /\ runner' = Waiting /\ runner.pc = "sending"
        /\ \/ reached' = reached + 1 + runner.counts /\ lost' = lost
           \/ lost' = lost + 1 + runner.counts /\ reached' = reached
        /\ UNCHANGED <<queue, dropped, suppressed, told>>
    BY <1>7 DEF Delivered, NotDelivered, bucket
  <2>3. InHand = 1 + runner.counts /\ InHand' = 0
    BY <2>1, <2>2 DEF InHand
  <2>4. Accounted'
    <3> DEFINE c == runner.counts
    <3>1. /\ told = Len(queue) + (1 + c) + suppressed + dropped + reached + lost
          /\ c \in Nat /\ told \in Nat /\ suppressed \in Nat /\ dropped \in Nat
          /\ reached \in Nat /\ lost \in Nat
      BY <2>3 DEF NotifierOK, Accounted
    <3>2. reached' + lost' = reached + lost + 1 + c /\ reached' \in Nat /\ lost' \in Nat
      <4>1. \/ reached' = reached + 1 + c /\ lost' = lost
            \/ lost' = lost + 1 + c /\ reached' = reached
        BY <2>2
      <4> HIDE DEF c
      <4>2. QED BY <3>1, <4>1
    <3>3. told' = told /\ Len(queue') = Len(queue) /\ InHand' = 0
          /\ suppressed' = suppressed /\ dropped' = dropped
      BY <2>2, <2>3
    <3> HIDE DEF c
    <3> DEFINE sum == reached' + lost'
    <3>4. told = Len(queue) + suppressed + dropped + sum
      <4>1. sum = reached + lost + 1 + c
        BY <3>2
      <4> HIDE DEF sum
      <4>2. QED BY <1>2, <3>1, <4>1
    <3>5. told' = Len(queue') + 0 + suppressed' + dropped' + reached' + lost'
      BY <1>2, <3>1, <3>2, <3>3, <3>4
    <3>6. QED BY <3>3, <3>5 DEF Accounted
  <2>5. reached' \in Nat /\ lost' \in Nat
    BY <2>2 DEF NotifierOK
  <2>6. QED BY <2>1, <2>2, <2>4, <2>5 DEF NotifierOK
<1>8. QED BY <1>3, <1>4, <1>5, <1>6, <1>7 DEF RunStep

LEMMA RestartAccounts ==
  ASSUME NotifierRestart
  PROVE  NotifierOK'
<1>1. DOMAIN Waiting = RunnerFields /\ Waiting.pc = "waiting" /\ Waiting.counts = 0
  BY DEF Waiting, RunnerFields
<1>2. Len(<<>>) = 0 /\ <<>> \in Seq({})
  OBVIOUS
<1>3. QED BY <1>1, <1>2 DEF NotifierRestart, NotifierOK, Accounted, InHand

LEMMA NextAccounts ==
  ASSUME NotifierOK, [Next]_vars
  PROVE  NotifierOK'
<1>1. CASE UNCHANGED <<queue, dropped, runner, suppressed, told, reached, lost>>
  BY <1>1 DEF NotifierOK, Accounted, InHand
<1>2. ASSUME NEW w \in Writers, Write(w) \/ Announce(w) PROVE NotifierOK'
  BY <1>1, <1>2, HandleKeeps DEF Write, Announce, notifierVars, bucket, tally
<1>3. CASE Notify
  BY <1>3, RunKeeps DEF Notify
<1>4. CASE Settings \/ Time
  BY <1>1, <1>4 DEF Settings, Configure, Time, Tick, bucket, tally
<1>5. ASSUME NEW p \in Processes, Crash(p) PROVE NotifierOK'
  BY <1>1, <1>5, RestartAccounts DEF Crash, notifierVars, bucket, tally
<1>6. QED
  BY <1>1, <1>2, <1>3, <1>4, <1>5 DEF Next, vars, notifierVars, bucket, tally

-----------------------------------------------------------------------------
(* The bucket.  A message is one token; the tokens left and the refills     *)
(* banked since a message together stay under what the burst allows.        *)

LEMMA AddRefills ==
  ASSUME NEW a \in Int, NEW g \in Int, NEW R \in Nat \ {0}
  PROVE  (a + g * R) \div R = (a \div R) + g
OBVIOUS

LEMMA DivMonotone ==
  ASSUME NEW a \in Int, NEW b \in Int, NEW R \in Nat \ {0}, a <= b
  PROVE  (a \div R) <= (b \div R)
OBVIOUS

LEMMA DivBounds ==
  ASSUME NEW a \in Int, NEW R \in Nat \ {0}
  PROVE  /\ a \div R \in Int
         /\ (a \div R) * R <= a /\ a < (a \div R) * R + R
         /\ a > 0 - R => (a \div R) >= -1
OBVIOUS

\* The messages rendered from the i-th on.
From(i) == Len(rendered) - i + 1

Rate ==
  /\ now \in Nat /\ last \in Nat /\ last <= now
  /\ tokens \in Nat /\ tokens <= Burst
  /\ rendered \in Seq(Nat)
  /\ \A i \in 1..Len(rendered) :
       /\ rendered[i] <= now
       /\ From(i) + tokens <= Burst + (last - rendered[i]) \div Refill
  /\ RateBounded

\* What the bucket holds once it has been filled up to now.
LEMMA Banked ==
  ASSUME Rate
  PROVE  /\ Tokens \in Nat /\ Tokens <= Burst
         /\ Last_ \in Nat /\ Last_ <= now
         /\ Tokens # Burst => now - Last_ < Refill
         /\ Tokens = Burst => Last_ = now
         /\ \A i \in 1..Len(rendered) :
              From(i) + Tokens <= Burst + (Last_ - rendered[i]) \div Refill
<1>1. Burst \in Nat \ {0} /\ Refill \in Nat \ {0}
  BY NotifierAssumption
<1> DEFINE g == grown
<1>2. /\ g \in Nat /\ g * Refill \in Nat
      /\ last + g * Refill <= now /\ now - (last + g * Refill) < Refill
  <2>1. now - last \in Nat
    BY DEF Rate
  <2>2. g \in Int /\ g * Refill <= now - last /\ now - last < g * Refill + Refill
    BY <1>1, <2>1, DivBounds DEF grown
  <2>3. g \in Nat
    BY <1>1, <2>1 DEF grown
  <2>4. g * Refill \in Nat
    BY <1>1, <2>3
  <2>5. QED BY <1>1, <2>2, <2>3, <2>4 DEF Rate
<1>3. Tokens = (IF tokens + g < Burst THEN tokens + g ELSE Burst)
  BY DEF Tokens, Least
<1>4. Last_ = IF Tokens = Burst THEN now ELSE last + g * Refill
  BY DEF Last_
<1> HIDE DEF g
<1>5. Tokens \in Nat /\ Tokens <= Burst /\ Tokens <= tokens + g
  BY <1>1, <1>2, <1>3 DEF Rate
<1>6. /\ Last_ \in Nat /\ Last_ <= now
      /\ Tokens # Burst => now - Last_ < Refill
      /\ Tokens = Burst => Last_ = now
  BY <1>2, <1>4 DEF Rate
<1>7. ASSUME NEW i \in 1..Len(rendered)
      PROVE  From(i) + Tokens <= Burst + (Last_ - rendered[i]) \div Refill
  <2> DEFINE a == last - rendered[i]
  <2>1. /\ rendered[i] \in Nat /\ a \in Int /\ From(i) \in Int
        /\ From(i) + tokens <= Burst + a \div Refill
    BY DEF Rate, From
  <2>2. (a + g * Refill) \div Refill = a \div Refill + g
    <3>1. a \in Int /\ g \in Int
      BY <1>2, <2>1
    <3> HIDE DEF a
    <3>2. QED BY <1>1, <3>1, AddRefills
  <2>3. (last + g * Refill) - rendered[i] = a + g * Refill /\ a + g * Refill \in Int
    <3> DEFINE m == g * Refill
               e == rendered[i]
    <3>1. m \in Int /\ e \in Int /\ last \in Int
      BY <1>2, <2>1 DEF Rate
    <3> HIDE DEF m, e
    <3>2. (last + m) - e = (last - e) + m /\ (last - e) + m \in Int
      BY <3>1
    <3>3. QED BY <3>2 DEF m, e
  <2>4. a \div Refill \in Int
    BY <1>1, <2>1, DivBounds
  <2>5. CASE Tokens # Burst
    <3>1. Last_ - rendered[i] = a + g * Refill
      <4>1. Last_ = last + g * Refill
        BY <1>4, <2>5
      <4>2. Last_ - rendered[i] = (last + g * Refill) - rendered[i]
        BY <4>1
      <4>3. QED BY <2>3, <4>2
    <3> DEFINE q == a \div Refill
    <3>2. (Last_ - rendered[i]) \div Refill = q + g
      BY <2>2, <3>1
    <3>3. q \in Int /\ From(i) + tokens <= Burst + q
      BY <2>1, <2>4
    <3> HIDE DEF q
    <3>4. From(i) + Tokens <= Burst + (q + g)
      BY <1>1, <1>2, <1>5, <2>1, <3>3 DEF Rate
    <3>5. QED BY <3>2, <3>4
  <2>6. CASE Tokens = Burst
    <3>1. now - rendered[i] \in Int /\ a + g * Refill <= now - rendered[i]
      <4> DEFINE w == g * Refill
                 t == rendered[i]
      <4>1. /\ w \in Nat /\ t \in Nat /\ now \in Nat /\ last \in Nat /\ last + w <= now
            /\ a = last - t
        BY <1>2, <2>1 DEF Rate
      <4> HIDE DEF w, t, a
      <4>2. a + w <= now - t /\ now - t \in Int
        BY <4>1
      <4>3. QED BY <4>2 DEF w, t
    <3> DEFINE q == a \div Refill
               p == (now - rendered[i]) \div Refill
    <3>2. q + g <= p
      BY <1>1, <2>2, <2>3, <3>1, DivMonotone
    <3>3. q \in Int /\ p \in Int /\ From(i) + tokens <= Burst + q
      BY <1>1, <2>1, <2>4, <3>1, DivBounds
    <3>4. Burst <= tokens + g
      BY <1>5, <2>6
    <3>5. (Last_ - rendered[i]) \div Refill = p
      BY <1>6, <2>6
    <3> HIDE DEF q, p
    <3>6. From(i) + Burst <= Burst + p
      BY <1>1, <1>2, <2>1, <3>2, <3>3, <3>4 DEF Rate
    <3>7. QED BY <2>6, <3>5, <3>6
  <2>7. QED BY <2>5, <2>6
<1>8. QED BY <1>5, <1>6, <1>7

LEMMA SuppressKeepsRate ==
  ASSUME Rate, Suppress
  PROVE  Rate'
<1>1. tokens' = Tokens /\ last' = Last_ /\ UNCHANGED <<now, rendered>>
  BY DEF Suppress, tally
<1>2. ASSUME NEW i \in 1..Len(rendered') PROVE From(i)' = From(i)
  BY <1>1 DEF From
<1>3. RateBounded'
  BY <1>1 DEF Rate, RateBounded
<1>4. QED BY <1>1, <1>2, <1>3, Banked DEF Rate

LEMMA RenderKeepsRate ==
  ASSUME Rate, Render
  PROVE  Rate'
<1> DEFINE n == Len(rendered)
<1>1. /\ tokens' = Tokens - 1 /\ Tokens > 0 /\ last' = Last_ /\ now' = now
      /\ rendered' = Append(rendered, now)
  BY DEF Render
<1>2. /\ rendered' \in Seq(Nat) /\ Len(rendered') = n + 1 /\ n \in Nat
      /\ \A i \in 1..n : rendered'[i] = rendered[i] /\ rendered[i] \in Nat
      /\ rendered'[n + 1] = now
  BY <1>1 DEF Rate
<1>3. Burst \in Nat \ {0} /\ Refill \in Nat \ {0}
  BY NotifierAssumption
<1>4. /\ Tokens \in Nat /\ Tokens <= Burst /\ now \in Nat
      /\ tokens' \in Nat /\ tokens' <= Burst
      /\ last' \in Nat /\ last' <= now'
  BY <1>1, <1>3, Banked DEF Rate
<1>5. ASSUME NEW i \in 1..(n + 1)
      PROVE  /\ rendered'[i] <= now'
             /\ From(i)' + tokens' <= Burst + (last' - rendered'[i]) \div Refill
  <2>0. From(i)' = n + 1 - i + 1
    BY <1>2 DEF From
  <2>1. CASE i \in 1..n
    <3>1. rendered'[i] = rendered[i] /\ rendered[i] <= now
      BY <1>2, <2>1 DEF Rate
    <3>2. From(i) + Tokens <= Burst + (last' - rendered[i]) \div Refill
      BY <1>1, <2>1, Banked
    <3>3. From(i)' + tokens' = From(i) + Tokens
      BY <1>1, <1>2, <1>4, <2>0, <2>1 DEF From
    <3>4. QED BY <1>1, <3>1, <3>2, <3>3
  <2>2. CASE i = n + 1
    <3>1. rendered'[i] = now /\ From(i)' + tokens' = Tokens
      BY <1>1, <1>2, <1>4, <2>0, <2>2
    <3> DEFINE q == (last' - now) \div Refill
    <3>2. CASE Tokens # Burst
      <4>1. last' - now \in Int /\ last' - now > 0 - Refill
        BY <1>1, <1>3, <1>4, <3>2, Banked
      <4>2. q \in Int /\ q >= -1
        BY <1>3, <4>1, DivBounds
      <4> HIDE DEF q
      <4>3. Tokens <= Burst + q
        BY <1>3, <1>4, <3>2, <4>2
      <4>4. QED BY <1>1, <1>4, <3>1, <4>3 DEF q
    <3>3. CASE Tokens = Burst
      <4>1. last' - now = 0
        BY <1>1, <1>4, <3>3, Banked
      <4>2. q = 0
        BY <1>3, <4>1
      <4>3. QED BY <1>1, <1>3, <1>4, <3>1, <3>3, <4>2
    <3>4. QED BY <3>2, <3>3
  <2>3. QED BY <1>2, <2>1, <2>2
<1>6. ASSUME NEW i \in 1..(n + 1)
      PROVE  n + 1 - i + 1 <= Burst + (now - rendered'[i]) \div Refill
  <2>1. /\ rendered'[i] \in Nat /\ last' - rendered'[i] \in Int
        /\ now - rendered'[i] \in Int /\ last' - rendered'[i] <= now - rendered'[i]
    <3>1. rendered'[i] \in Nat
      BY <1>1, <1>2, <1>4
    <3>2. last' \in Nat /\ now \in Nat /\ last' <= now
      BY <1>1, <1>2, <1>4
    <3> DEFINE e == rendered'[i]
               l == last'
    <3> HIDE DEF e, l
    <3>3. e \in Nat /\ l \in Nat /\ now \in Nat /\ l <= now
      BY <3>1, <3>2 DEF e, l
    <3>4. l - e \in Int /\ now - e \in Int /\ l - e <= now - e
      BY <3>3
    <3>5. QED BY <3>1, <3>4 DEF e, l
  <2> DEFINE q == (last' - rendered'[i]) \div Refill
             p == (now - rendered'[i]) \div Refill
  <2>2. q <= p
    BY <1>3, <2>1, DivMonotone
  <2>3. q \in Int /\ p \in Int
    BY <1>3, <2>1, DivBounds
  <2>4. n + 1 - i + 1 + tokens' <= Burst + q
    BY <1>2, <1>5 DEF From
  <2> HIDE DEF q, p
  <2>5. n + 1 - i + 1 <= Burst + p
    BY <1>2, <1>3, <1>4, <2>2, <2>3, <2>4
  <2>6. QED BY <2>5 DEF p
<1>7. RateBounded'
  <2>1. SUFFICES ASSUME NEW i \in 1..(n + 1), NEW j \in 1..(n + 1), i <= j
                 PROVE  j - i + 1 <= Burst + (rendered'[j] - rendered'[i]) \div Refill
    BY <1>2 DEF RateBounded
  <2>2. CASE j = n + 1
    BY <1>2, <1>6, <2>2
  <2>3. CASE j # n + 1
    <3>1. i \in 1..n /\ j \in 1..n
      BY <1>2, <2>1, <2>3
    <3>2. rendered'[i] = rendered[i] /\ rendered'[j] = rendered[j]
      BY <1>2, <3>1
    <3>3. DOMAIN rendered = 1..n
      BY DEF Rate
    <3>4. QED BY <2>1, <3>1, <3>2, <3>3 DEF Rate, RateBounded
  <2>4. QED BY <2>2, <2>3
<1>8. QED BY <1>1, <1>2, <1>4, <1>5, <1>7 DEF Rate

LEMMA NextRate ==
  ASSUME Rate, [Next]_vars
  PROVE  Rate'
<1>1. CASE UNCHANGED <<now, tokens, last, rendered>>
  BY <1>1 DEF Rate, RateBounded, From
<1>2. ASSUME NEW w \in Writers, Write(w) \/ Announce(w) PROVE Rate'
  BY <1>1, <1>2 DEF Write, Announce, Handle, notifierVars, bucket, tally
<1>3. CASE Notify
  BY <1>1, <1>3, SuppressKeepsRate, RenderKeepsRate
     DEF Notify, RunStep, Receive, TryAgain, Delivered, NotDelivered, bucket, tally
<1>4. CASE Settings
  BY <1>1, <1>4 DEF Settings, Configure, bucket, tally
<1>5. CASE Time
  <2>1. now' = now + 1 /\ UNCHANGED <<tokens, last, rendered>>
    BY <1>5 DEF Time, Tick, bucket, tally
  <2>2. now' \in Nat /\ last' <= now' /\ \A i \in 1..Len(rendered) : rendered[i] <= now'
    BY <2>1 DEF Rate
  <2>3. \A i \in 1..Len(rendered) : From(i)' = From(i)
    BY <2>1 DEF From
  <2>4. RateBounded'
    BY <2>1 DEF Rate, RateBounded
  <2>5. QED BY <2>1, <2>2, <2>3, <2>4 DEF Rate
<1>6. ASSUME NEW p \in Processes, Crash(p) PROVE Rate'
  <2>1. CASE NotifierRestart
    <3>1. /\ tokens' = Burst /\ last' = now /\ now' = now /\ rendered' = <<>>
      BY <2>1 DEF NotifierRestart
    <3>2. Burst \in Nat /\ now \in Nat
      BY NotifierAssumption DEF Rate
    <3>3. <<>> \in Seq(Nat) /\ 1..Len(<<>>) = {} /\ DOMAIN <<>> = {}
      OBVIOUS
    <3>4. QED BY <3>1, <3>2, <3>3 DEF Rate, RateBounded
  <2>2. QED BY <1>1, <1>6, <2>1 DEF Crash, notifierVars, bucket, tally
<1>7. QED
  BY <1>1, <1>2, <1>3, <1>4, <1>5, <1>6 DEF Next, vars, notifierVars, bucket, tally

-----------------------------------------------------------------------------
(* Types.  Attempts are counted, the queue is bounded, and every row names  *)
(* who wrote it: inductive together with the chain, the account and the     *)
(* rate.                                                                    *)

TypedWriter(w, r) ==
  /\ r.pc \in {"idle", "locking", "begin", "insert", "announce"}
  /\ r.n \in 0..MaxEntries[w]
  /\ r.attempt \in 0..(MaxAttempts - 1)
  /\ r.pc # "idle" => r.action \in Actions

LEMMA WriterTyped ==
  ASSUME NEW w \in Writers
  PROVE  /\ AuditTypeOK => TypedWriter(w, writer[w])
         /\ TypedWriter(w, writer[w]) /\ writer[w].pc # "idle" => WriterAt(w) \in Entry
<1>1. MaxEntries[w] \in Nat
  BY AuditAssumption
<1>2. QED BY <1>1 DEF AuditTypeOK, TypedWriter, WriterAt, Entry

\* A writer goes on, and its process passes the mutex on or keeps it.
LEMMA WriterSteps ==
  ASSUME Chain, AuditTypeOK, NEW w \in Writers, NEW r, TypedWriter(w, r),
         writer' = [writer EXCEPT ![w] = r],
         mu' = mu \/ \E v \in Writers \cup {None} : mu' = [mu EXCEPT ![ProcessOf[w]] = v],
         \A i \in DOMAIN log' : log'[i].entry \in Entry
  PROVE  AuditTypeOK'
<1>1. DOMAIN writer = Writers /\ ProcessOf[w] \in Processes
  BY AuditAssumption DEF Chain
<1>2. mu' \in [Processes -> Writers \cup {None}]
  BY <1>1 DEF AuditTypeOK
<1>3. ASSUME NEW v \in Writers
      PROVE  TypedWriter(v, writer'[v]) /\ (writer'[v].pc # "idle" => WriterAt(v)' \in Entry)
  <2>1. MaxEntries[v] \in Nat
    BY AuditAssumption
  <2>2. TypedWriter(v, writer'[v])
    BY <1>1, WriterTyped
  <2>3. QED BY <2>1, <2>2 DEF TypedWriter, WriterAt, Entry
<1>4. QED BY <1>2, <1>3 DEF AuditTypeOK, TypedWriter

LEMMA IdleTyped ==
  ASSUME NEW w \in Writers, NEW n \in 0..MaxEntries[w]
  PROVE  TypedWriter(w, Idle(n))
BY AuditAssumption DEF TypedWriter, Idle

LEMMA WriteTyped ==
  ASSUME Chain, AuditTypeOK, NEW w \in Writers, Write(w) \/ Announce(w)
  PROVE  AuditTypeOK'
<1>0. /\ DOMAIN writer[w] = Fields /\ TypedWriter(w, writer[w])
      /\ MaxEntries[w] \in Nat /\ MaxAttempts \in Nat \ {0}
      /\ \A i \in DOMAIN log : log[i].entry \in Entry
  BY WriterTyped, AuditAssumption DEF Chain, KnowsHead, AuditTypeOK
<1>1. ASSUME NEW a \in Actions, Append_(w, a) PROVE AuditTypeOK'
  <2> DEFINE r == [writer[w] EXCEPT !.pc = "locking", !.n = @ + 1, !.action = a]
  <2>1. TypedWriter(w, r)
    BY <1>0, <1>1 DEF Append_, TypedWriter, Fields
  <2>2. writer' = [writer EXCEPT ![w] = r] /\ UNCHANGED <<log, mu>>
    BY <1>1 DEF Append_
  <2> HIDE DEF r
  <2>3. QED BY <1>0, <2>1, <2>2, WriterSteps
<1>2. CASE LockChain(w)
  <2> DEFINE r == [writer[w] EXCEPT !.pc = "begin"]
  <2>1. TypedWriter(w, r)
    BY <1>0, <1>2 DEF LockChain, TypedWriter, Fields
  <2>2. writer' = [writer EXCEPT ![w] = r] /\ mu' = [mu EXCEPT ![ProcessOf[w]] = w]
        /\ UNCHANGED log
    BY <1>2 DEF LockChain
  <2> HIDE DEF r
  <2>3. QED BY <1>0, <2>1, <2>2, WriterSteps
<1>3. CASE ReadHead(w)
  <2> DEFINE r == [writer[w] EXCEPT !.pc = "insert", !.prev = head(log), !.seen = Len(log)]
  <2>1. TypedWriter(w, r)
    BY <1>0, <1>3 DEF ReadHead, Holds, TypedWriter, Fields
  <2>2. writer' = [writer EXCEPT ![w] = r] /\ UNCHANGED <<log, mu>>
    BY <1>3 DEF ReadHead
  <2> HIDE DEF r
  <2>3. QED BY <1>0, <2>1, <2>2, WriterSteps
<1>4. CASE InsertAndCommit(w)
  <2> DEFINE r == [Idle(writer[w].n) EXCEPT !.pc = "announce", !.action = writer[w].action]
             row == Row(writer[w].prev, WriterAt(w))
  <2>1. TypedWriter(w, r)
    BY <1>0, <1>4 DEF InsertAndCommit, Holds, TypedWriter, Idle
  <2>2. /\ writer' = [writer EXCEPT ![w] = r] /\ mu' = [mu EXCEPT ![ProcessOf[w]] = None]
        /\ log' = Append(log, row)
    BY <1>4 DEF InsertAndCommit
  <2>3. row.entry \in Entry
    BY <1>0, <1>4, WriterTyped DEF InsertAndCommit, Holds, Row
  <2> HIDE DEF r, row
  <2>4. \A i \in DOMAIN log' : (i \in DOMAIN log /\ log'[i] = log[i]) \/ log'[i] = row
    <3>1. PICK S : log \in Seq(S)
      BY DEF Chain
    <3>2. QED BY <2>2, <3>1
  <2>5. QED BY <1>0, <2>1, <2>2, <2>3, <2>4, WriterSteps
<1>5. CASE Retry(w)
  <2> DEFINE r == [writer[w] EXCEPT !.pc = "begin", !.attempt = @ + 1, !.prev = genesis, !.seen = 0]
  <2>1. TypedWriter(w, r)
    BY <1>0, <1>5 DEF Retry, TypedWriter, Fields
  <2>2. writer' = [writer EXCEPT ![w] = r] /\ UNCHANGED <<log, mu>>
    BY <1>5 DEF Retry
  <2> HIDE DEF r
  <2>3. QED BY <1>0, <2>1, <2>2, WriterSteps
<1>6. CASE GiveUp(w) \/ Announce(w)
  <2>1. TypedWriter(w, Idle(writer[w].n))
    BY <1>0, IdleTyped DEF TypedWriter
  <2>2. /\ writer' = [writer EXCEPT ![w] = Idle(writer[w].n)] /\ UNCHANGED log
        /\ mu' = mu \/ mu' = [mu EXCEPT ![ProcessOf[w]] = None]
    BY <1>6 DEF GiveUp, Announce, Announced
  <2>3. QED BY <1>0, <2>1, <2>2, WriterSteps
<1>7. QED BY <1>1, <1>2, <1>3, <1>4, <1>5, <1>6 DEF Write

LEMMA CrashTyped ==
  ASSUME Chain, AuditTypeOK, NEW p \in Processes, Crash(p)
  PROVE  AuditTypeOK'
<1>1. mu' \in [Processes -> Writers \cup {None}] /\ UNCHANGED log
  BY DEF Crash, AuditCrash, AuditTypeOK
<1>2. ASSUME NEW w \in Writers
      PROVE  TypedWriter(w, writer'[w]) /\ (writer'[w].pc # "idle" => WriterAt(w)' \in Entry)
  <2>1. TypedWriter(w, writer[w]) /\ MaxEntries[w] \in Nat
    BY WriterTyped, AuditAssumption
  <2>2. writer'[w] = writer[w] \/ writer'[w] = Idle(writer[w].n)
    BY DEF Crash, AuditCrash
  <2>3. TypedWriter(w, writer'[w])
    BY <2>1, <2>2, IdleTyped DEF TypedWriter
  <2>4. QED BY <2>1, <2>3 DEF TypedWriter, WriterAt, Entry
<1>3. QED BY <1>1, <1>2 DEF AuditTypeOK, TypedWriter

LEMMA NextAuditTyped ==
  ASSUME Chain, AuditTypeOK, [Next]_vars
  PROVE  AuditTypeOK'
<1>1. CASE UNCHANGED auditVars
  BY <1>1 DEF auditVars, AuditTypeOK, WriterAt
<1>2. QED
  BY <1>1, WriteTyped, CrashTyped DEF Next, Notify, Settings, Time, vars

\* What the account and the rate do not say yet.
Bounds ==
  /\ now <= MaxTime /\ wanted \in Wanted /\ Len(queue) <= QueueDepth
  /\ runner.attempt \in 0..(Tries - 1)
  /\ crashes \in 0..MaxCrashes

LEMMA NextBounds ==
  ASSUME NotifierOK, Rate, Bounds, [Next]_vars
  PROVE  Bounds'
<1>0. /\ QueueDepth \in Nat \ {0} /\ Tries \in Nat \ {0} /\ MaxTime \in Nat /\ MaxCrashes \in Nat
      /\ now \in Nat /\ DOMAIN runner = RunnerFields /\ Waiting.attempt = 0
  BY NotifierAssumption, EventLogAssumption DEF NotifierOK, Rate, Waiting
<1>1. PICK S : queue \in Seq(S)
  BY DEF NotifierOK
<1>2. Len(queue) \in Nat
  BY <1>1
<1>3. ASSUME NEW e, Handle(e), UNCHANGED crashes PROVE Bounds'
  <2>1. UNCHANGED <<now, wanted, runner, crashes>>
    BY <1>3 DEF Handle
  <2>2. queue' = queue \/ (Len(queue) < QueueDepth /\ queue' = Append(queue, e))
    BY <1>3 DEF Handle, Enqueue
  <2>3. Len(Append(queue, e)) = Len(queue) + 1
    BY <1>1
  <2>4. Len(queue') <= QueueDepth
    BY <1>0, <1>2, <2>2, <2>3 DEF Bounds
  <2>5. QED BY <2>1, <2>4 DEF Bounds
<1>4. CASE Notify
  <2>1. UNCHANGED <<now, wanted, crashes>>
    BY <1>4 DEF Notify, RunStep, Receive, Suppress, Render, TryAgain, Delivered, NotDelivered
  <2>2. Len(queue') <= QueueDepth
    <3>1. queue' = queue \/ (queue # <<>> /\ queue' = Tail(queue))
      BY <1>4 DEF Notify, RunStep, Receive, Suppress, Render, TryAgain, Delivered, NotDelivered
    <3>2. queue # <<>> => Len(Tail(queue)) = Len(queue) - 1
      BY <1>1
    <3>3. QED BY <1>0, <1>2, <3>1, <3>2 DEF Bounds
  <2>3. runner'.attempt \in 0..(Tries - 1)
    <3>1. CASE TryAgain
      BY <1>0, <3>1 DEF TryAgain, Bounds, RunnerFields
    <3>2. CASE Render
      BY <1>0, <3>2 DEF Render, Bounds, RunnerFields
    <3>3. CASE Receive
      BY <1>0, <3>3 DEF Receive, Waiting
    <3>4. CASE Suppress \/ Delivered \/ NotDelivered
      BY <1>0, <3>4 DEF Suppress, Delivered, NotDelivered
    <3>5. QED BY <1>4, <3>1, <3>2, <3>3, <3>4 DEF Notify, RunStep
  <2>4. QED BY <2>1, <2>2, <2>3 DEF Bounds
<1>5. CASE Settings
  BY <1>5 DEF Settings, Configure, Bounds
<1>6. CASE Time
  BY <1>0, <1>6 DEF Time, Tick, Bounds
<1>7. ASSUME NEW p \in Processes, Crash(p) PROVE Bounds'
  <2>1. crashes' \in 0..MaxCrashes
    BY <1>0, <1>7 DEF Crash, Bounds
  <2>2. CASE NotifierRestart
    <3>1. Len(<<>>) = 0
      OBVIOUS
    <3>2. QED BY <1>0, <2>1, <2>2, <3>1 DEF NotifierRestart, Bounds
  <2>3. CASE UNCHANGED notifierVars
    BY <2>1, <2>3 DEF notifierVars, Bounds
  <2>4. QED BY <1>7, <2>2, <2>3 DEF Crash
<1>8. CASE UNCHANGED <<notifierVars, crashes>>
  BY <1>8 DEF notifierVars, Bounds
<1>9. ASSUME NEW w \in Writers, Write(w) \/ Announce(w) PROVE Bounds'
  BY <1>3, <1>8, <1>9 DEF Write, Announce
<1>10. QED
  BY <1>4, <1>5, <1>6, <1>7, <1>8, <1>9 DEF Next, vars

-----------------------------------------------------------------------------
(* The theorems.                                                            *)

\* The inductive invariant: what it takes to keep the chain, the account, the
\* rate and the types.
IInv == Chain /\ NotifierOK /\ Rate /\ AuditTypeOK /\ Bounds

LEMMA InitEstablishes == Init => IInv
<1> SUFFICES ASSUME Init PROVE IInv
  OBVIOUS
<1>1. Len(<<>>) = 0 /\ <<>> \in Seq({}) /\ <<>> \in Seq(Nat) /\ DOMAIN <<>> = {}
  OBVIOUS
<1>2. Chain
  <2>1. log = <<>> /\ writer = [w \in Writers |-> Idle(0)]
    BY DEF Init, AuditInit
  <2>2. \A w \in Writers : DOMAIN writer[w] = Fields /\ writer[w].pc # "insert"
    BY <2>1 DEF Idle, Fields
  <2>3. QED BY <1>1, <2>1, <2>2 DEF Chain, Linked, KnowsHead
<1>3. NotifierOK
  <2>1. DOMAIN Waiting = RunnerFields /\ Waiting.pc = "waiting" /\ Waiting.counts = 0
    BY DEF Waiting, RunnerFields
  <2>2. QED BY <1>1, <2>1 DEF Init, NotifierInit, NotifierOK, Accounted, InHand
<1>4. Rate
  BY <1>1, NotifierAssumption DEF Init, NotifierInit, Rate, RateBounded
<1>5. AuditTypeOK
  BY IdleTyped, AuditAssumption DEF Init, AuditInit, AuditTypeOK, TypedWriter, Idle
<1>6. Bounds
  BY <1>1, NotifierAssumption, EventLogAssumption
  DEF Init, NotifierInit, Bounds, Waiting
<1>7. QED BY <1>2, <1>3, <1>4, <1>5, <1>6 DEF IInv

\* Every reachable state satisfies the inductive invariant.
THEOREM Invariance == Spec => []IInv
<1>1. IInv /\ [Next]_vars => IInv'
  BY NextChain, NextAccounts, NextRate, NextAuditTyped, NextBounds DEF IInv
<1>2. QED BY InitEstablishes, <1>1, PTL DEF Spec

\* The queue never holds more than it is made for, no append and no delivery is
\* tried more often than it may be, and every row and every mutex names a writer
\* (Append, Handle, Run and deliver), through crashes and restarts.
THEOREM TypeCorrect == Spec => []TypeOK
<1>1. IInv => TypeOK
  <2> SUFFICES ASSUME IInv PROVE TypeOK
    OBVIOUS
  <2>1. now \in 0..MaxTime /\ tokens \in 0..Burst /\ last \in 0..now
    BY NotifierAssumption DEF IInv, Rate, Bounds
  <2>2. QED BY <2>1 DEF IInv, NotifierOK, Bounds, TypeOK, NotifierTypeOK
<1>2. QED BY Invariance, <1>1, PTL

\* Whatever the service and the commands append, and however their attempts
\* interleave, Verify accepts the log (audit.go:185-202, 230-274).
THEOREM TheChainHolds == Spec => []ChainIntact
<1>1. IInv => ChainIntact
  <2> SUFFICES ASSUME IInv PROVE ChainIntact
    OBVIOUS
  <2>1. PICK S : log \in Seq(S)
    BY DEF IInv, Chain
  <2>2. QED BY <2>1, LinkedVerifies DEF IInv, Chain, ChainIntact
<1>2. QED BY Invariance, <1>1, PTL

\* No event somebody asked for disappears uncounted (notify.go:103-172).
THEOREM EverythingIsAccountedFor == Spec => []Accounted
<1>1. IInv => Accounted
  BY DEF IInv, NotifierOK
<1>2. QED BY Invariance, <1>1, PTL

\* The bucket bounds every stretch of messages, not only the first burst
\* (notify.go:127-163).
THEOREM NoFlood == Spec => []RateBounded
<1>1. IInv => RateBounded
  BY DEF IInv, Rate
<1>2. QED BY Invariance, <1>1, PTL

=============================================================================
