------------------------------ MODULE AuditLog ------------------------------
(***************************************************************************)
(* The audit log (internal/audit): a table in which every row carries the  *)
(* hash of the row before it.  The service and the command line append to  *)
(* it as two processes on one SQLite file.  The mutex of a Log covers one  *)
(* process; across processes only the transaction does, which SQLite       *)
(* refuses to commit once the other process has written since it began.    *)
(*                                                                         *)
(* A hash is the pair it was computed from, so two rows have one hash only *)
(* if they agree in their whole history: what a collision-free hash gives. *)
(***************************************************************************)
EXTENDS Sequences, SequencesExt, Naturals

CONSTANTS
    Writers,      \* goroutines and commands that append
    Processes,    \* the service and the commands beside it
    ProcessOf,    \* the process a writer belongs to
    Actions,      \* the names an entry can have
    None,
    MaxAttempts,  \* how often appendChained tries
    MaxEntries    \* bound: how many entries each writer starts

ASSUME AuditAssumption ==
    /\ ProcessOf \in [Writers -> Processes]
    /\ None \notin Writers
    /\ MaxAttempts \in Nat \ {0} /\ MaxEntries \in [Writers -> Nat]

VARIABLES
    log,      \* audit_log, by id
    mu,       \* Log.mu of each process: who holds it
    writer    \* every Append in progress

auditVars == <<log, mu, writer>>

Entry == [by : Writers, n : Nat, action : Actions]

genesis == <<>>
chainHash(prev, e) == <<prev, e>>
Row(prev, e) == [entry |-> e, prev |-> prev, hash |-> chainHash(prev, e)]

\* SELECT hash FROM audit_log ORDER BY id DESC LIMIT 1
head(rows) == IF rows = <<>> THEN genesis ELSE Last(rows).hash

\* Verify: the position of the first row that does not fit, or 0.
Fits(rows, i) ==
    /\ rows[i].prev = head(SubSeq(rows, 1, i - 1))
    /\ rows[i].hash = chainHash(rows[i].prev, rows[i].entry)
Verify(rows) ==
    LET broken == {i \in DOMAIN rows : ~Fits(rows, i)}
    IN  IF broken = {} THEN 0
        ELSE CHOOSE i \in broken : \A j \in broken : i <= j

Idle(n) == [pc |-> "idle", n |-> n, action |-> None, prev |-> genesis,
            seen |-> 0, attempt |-> 0]

AuditInit ==
    /\ log = <<>>
    /\ mu = [p \in Processes |-> None]
    /\ writer = [w \in Writers |-> Idle(0)]

Holds(w, pc) == writer[w].pc = pc /\ mu[ProcessOf[w]] = w
WriterAt(w) == [by |-> w, n |-> writer[w].n, action |-> writer[w].action]

\* Append(ctx, e), up to the mutex.
Append_(w, a) ==
    /\ writer[w].pc = "idle" /\ writer[w].n < MaxEntries[w]
    /\ writer' = [writer EXCEPT ![w].pc = "locking", ![w].n = @ + 1,
                                ![w].action = a]
    /\ UNCHANGED <<log, mu>>

\* l.mu.Lock()
LockChain(w) ==
    /\ writer[w].pc = "locking" /\ mu[ProcessOf[w]] = None
    /\ mu' = [mu EXCEPT ![ProcessOf[w]] = w]
    /\ writer' = [writer EXCEPT ![w].pc = "begin"]
    /\ UNCHANGED log

\* appendOnce: the transaction begins with the SELECT, which fixes what it sees.
ReadHead(w) ==
    /\ Holds(w, "begin")
    /\ writer' = [writer EXCEPT ![w].pc = "insert", ![w].prev = head(log),
                                ![w].seen = Len(log)]
    /\ UNCHANGED <<log, mu>>

\* INSERT and Commit; SQLite lets them through only on what was seen.
AnyHead(w) == TRUE   \* mutant: no transaction around SELECT and INSERT
Unchanged(w) == writer[w].seen = Len(log)
InsertAndCommit(w) ==
    /\ Holds(w, "insert") /\ Unchanged(w)
    /\ log' = Append(log, Row(writer[w].prev, WriterAt(w)))
    /\ mu' = [mu EXCEPT ![ProcessOf[w]] = None]
    /\ writer' = [writer EXCEPT ![w] = [Idle(writer[w].n) EXCEPT
                     !.pc = "announce", !.action = writer[w].action]]

\* Any statement of the transaction fails: rollback, pause, once more.
Retry(w) ==
    /\ writer[w].pc \in {"begin", "insert"}
    /\ writer[w].attempt + 1 < MaxAttempts
    /\ writer' = [writer EXCEPT ![w].pc = "begin", ![w].attempt = @ + 1,
                                ![w].prev = genesis, ![w].seen = 0]
    /\ UNCHANGED <<log, mu>>

\* The last attempt failed, or the caller's context is over.
GiveUp(w) ==
    /\ writer[w].pc \in {"begin", "insert"}
    /\ mu' = [mu EXCEPT ![ProcessOf[w]] = None]
    /\ writer' = [writer EXCEPT ![w] = Idle(@.n)]
    /\ UNCHANGED log

\* Append returns, once every watcher has been called.
Announced(w) ==
    /\ writer[w].pc = "announce"
    /\ writer' = [writer EXCEPT ![w] = Idle(@.n)]
    /\ UNCHANGED <<log, mu>>

\* The process ends; what it had begun is rolled back.
AuditCrash(p) ==
    /\ mu' = [mu EXCEPT ![p] = None]
    /\ writer' = [w \in Writers |-> IF ProcessOf[w] = p
                                    THEN Idle(writer[w].n)
                                    ELSE writer[w]]
    /\ UNCHANGED log

AuditTypeOK ==
    /\ mu \in [Processes -> Writers \cup {None}]
    /\ \A w \in Writers :
         /\ writer[w].pc \in {"idle", "locking", "begin", "insert", "announce"}
         /\ writer[w].n \in 0..MaxEntries[w]
         /\ writer[w].attempt \in 0..(MaxAttempts - 1)
         /\ writer[w].pc # "idle" => WriterAt(w) \in Entry
    /\ \A i \in DOMAIN log : log[i].entry \in Entry
=============================================================================
