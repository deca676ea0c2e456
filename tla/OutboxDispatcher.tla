-------------------------- MODULE OutboxDispatcher --------------------------
(***************************************************************************)
(* The transactional outbox and the dispatchers that drain it              *)
(* (PgPollingDispatcher).  Every dispatcher is a process that runs poll    *)
(* cycles against one outbox table; the table is what they share.  An      *)
(* action is what happens between two points where another dispatcher, the *)
(* handler or a fault can intervene: a SELECT, a settled handler, a COMMIT.*)
(*                                                                         *)
(* The row lock is not a variable.  A dispatcher holds the lock of the row *)
(* it works on exactly while it has a transaction open on a live           *)
(* connection, so that losing the connection frees the row although the    *)
(* handler keeps running.                                                  *)
(***************************************************************************)
EXTENDS Naturals, FiniteSets

CONSTANTS
    Rows,           \* values of the BIGSERIAL column seq
    AggregateOf,    \* the column aggregate_id of each row
    Dispatchers,    \* dispatcher instances polling this outbox
    MaxAttempts,    \* deps.maxAttempts
    BatchSize,      \* the argument of poll
    HandlerTimeout, \* handlerTimeoutMs > 0
    Unregistered,   \* rows whose type has no registered rehydrator
    MaxFaults       \* bound: faults of the database, network and processes

ASSUME RowsAssumption == Rows \subseteq Nat \ {0}
ASSUME DispatchersAssumption == IsFiniteSet(Dispatchers)
ASSUME AttemptsAssumption == MaxAttempts \in Nat \ {0}
ASSUME BatchAssumption == BatchSize \in Nat \ {0}
ASSUME TimeoutAssumption == HandlerTimeout \in BOOLEAN
ASSUME UnregisteredAssumption == Unregistered \subseteq Rows
ASSUME FaultsAssumption == MaxFaults \in Nat

VARIABLES
    committed,  \* rows whose inserting transaction has committed
    dispatched, \* rows with dispatched_at set
    attempts,   \* the column attempts
    pc,         \* where each dispatcher is
    row,        \* the row it selected, NoRow when it has none
    conn,       \* FALSE once the client it checked out is dead
    signalled,  \* the AbortSignal handed to its handler has fired
    batch,      \* rows it dispatched in this poll
    report,     \* what its last poll returned or threw
    deliveries, \* history: handler calls that resolved, per row
    failures,   \* history: dispatches of the row that failed
    faults      \* faults so far, at most MaxFaults

table   == <<committed, dispatched, attempts>>
history == <<deliveries, failures>>
vars    == <<table, pc, row, conn, signalled, batch, report, history, faults>>

NoRow   == 0
Unknown == 0   \* OutboxDispatchFailed.attempts = undefined; a real one is >= 1

NoReport == [kind |-> "none", seq |-> NoRow, attempts |-> Unknown, quarantined |-> 0]
Reports  == [kind : {"none", "ok", "failed", "fault"}, seq : Rows \cup {NoRow},
             attempts : Nat, quarantined : Nat]

Locations == {"idle", "polling", "handling", "mark", "record", "recordCommit", "counting"}

TypeOK ==
    /\ committed \subseteq Rows /\ IsFiniteSet(committed)
    /\ dispatched \subseteq committed
    /\ attempts \in [Rows -> Nat]
    /\ pc \in [Dispatchers -> Locations]
    /\ row \in [Dispatchers -> Rows \cup {NoRow}]
    /\ conn \in [Dispatchers -> BOOLEAN]
    /\ signalled \in [Dispatchers -> BOOLEAN]
    /\ batch \in [Dispatchers -> Nat]
    /\ report \in [Dispatchers -> Reports]
    /\ deliveries \in [Rows -> Nat]
    /\ failures \in [Rows -> Nat]
    /\ faults \in 0..MaxFaults

-----------------------------------------------------------------------------
(* Definitions marked Broken are variants with a bug that belongs to the   *)
(* code at hand; a check replaces a definition by one to see that a        *)
(* property notices.                                                       *)

\* Broken: the lock is given up when the handler returns, before the UPDATE.
HoldsLockWhileHandling(d, r) ==
    /\ row[d] = r
    /\ conn[d]
    /\ pc[d] \in {"handling", "recordCommit"}

HoldsLock(d, r) ==
    /\ row[d] = r
    /\ conn[d]
    /\ pc[d] \in {"handling", "mark", "recordCommit"}

Locked(r) == \E d \in Dispatchers : HoldsLock(d, r)

\* Broken: dispatched rows are selected again; attempts <= $1.
EligibleAgain(r)    == r \in committed /\ attempts[r] < MaxAttempts
EligibleOnceMore(r) == r \in committed \ dispatched /\ attempts[r] <= MaxAttempts

\* WHERE dispatched_at IS NULL AND attempts < $1
Eligible(r) == r \in committed \ dispatched /\ attempts[r] < MaxAttempts

\* Broken: no FOR UPDATE SKIP LOCKED; no ORDER BY.
IsNextRowUnlocked(r)  == Eligible(r) /\ \A q \in Rows : Eligible(q) => r <= q
IsNextRowUnordered(r) == Eligible(r) /\ ~Locked(r)

\* ... ORDER BY seq FOR UPDATE SKIP LOCKED LIMIT 1
IsNextRow(r) ==
    /\ Eligible(r) /\ ~Locked(r)
    /\ \A q \in Rows : Eligible(q) /\ ~Locked(q) => r <= q

NoNextRow == \A q \in Rows : ~Eligible(q) \/ Locked(q)

Quarantined == {r \in committed \ dispatched : attempts[r] >= MaxAttempts}

Fault == faults < MaxFaults /\ faults' = faults + 1

Goto(d, from, to) == pc[d] = from /\ pc' = [pc EXCEPT ![d] = to]

\* poll ends: the client is released and the caller gets r.
EndPoll(d, r) ==
    /\ pc'        = [pc EXCEPT ![d] = "idle"]
    /\ row'       = [row EXCEPT ![d] = NoRow]
    /\ conn'      = [conn EXCEPT ![d] = TRUE]
    /\ signalled' = [signalled EXCEPT ![d] = FALSE]
    /\ batch'     = [batch EXCEPT ![d] = 0]
    /\ report'    = [report EXCEPT ![d] = r]

\* processOne threw OutboxDispatchFailed, and poll with it.
ThrowDispatchFailed(d, n) ==
    EndPoll(d, [kind |-> "failed", seq |-> row[d], attempts |-> n, quarantined |-> 0])

-----------------------------------------------------------------------------
Init ==
    /\ committed  = {}
    /\ dispatched = {}
    /\ attempts   = [r \in Rows |-> 0]
    /\ pc         = [d \in Dispatchers |-> "idle"]
    /\ row        = [d \in Dispatchers |-> NoRow]
    /\ conn       = [d \in Dispatchers |-> TRUE]
    /\ signalled  = [d \in Dispatchers |-> FALSE]
    /\ batch      = [d \in Dispatchers |-> 0]
    /\ report     = [d \in Dispatchers |-> NoReport]
    /\ deliveries = [r \in Rows |-> 0]
    /\ failures   = [r \in Rows |-> 0]
    /\ faults     = 0

EarlierOfAggregate(q, r) == q < r /\ AggregateOf[q] = AggregateOf[r]

\* A business transaction that wrote outbox row r commits.  seq is drawn at
\* the INSERT, so rows of different aggregates become visible in any order of
\* seq; those of one aggregate do in seq order, because its row lock orders
\* the transactions that write them.
Publish(r) ==
    /\ r \notin committed
    /\ \A q \in Rows : EarlierOfAggregate(q, r) => q \in committed
    /\ committed' = committed \cup {r}
    /\ UNCHANGED <<dispatched, attempts, pc, row, conn, signalled, batch, report, history, faults>>

StartPoll(d) ==
    /\ Goto(d, "idle", "polling")
    /\ report' = [report EXCEPT ![d] = NoReport]
    /\ UNCHANGED <<table, row, conn, signalled, batch, history, faults>>

\* Broken: at-most-once, dispatched_at is committed before the handler runs.
SelectRowAndMark(d, r) ==
    /\ Goto(d, "polling", "handling")
    /\ IsNextRow(r)
    /\ row' = [row EXCEPT ![d] = r]
    /\ dispatched' = dispatched \cup {r}
    /\ UNCHANGED <<committed, attempts, conn, signalled, batch, report, history, faults>>

\* selectNextRow found and locked r; dispatchRow calls the handler.
SelectRow(d, r) ==
    /\ Goto(d, "polling", "handling")
    /\ IsNextRow(r)
    /\ row' = [row EXCEPT ![d] = r]
    /\ UNCHANGED <<table, conn, signalled, batch, report, history, faults>>

\* selectNextRow found nothing: the loop of poll breaks.
SelectNothing(d) ==
    /\ Goto(d, "polling", "counting")
    /\ NoNextRow
    /\ UNCHANGED <<table, row, conn, signalled, batch, report, history, faults>>

\* connect, BEGIN or the SELECT fails: TransactionFailed, no row is charged.
PollFails(d) ==
    /\ pc[d] \in {"polling", "counting"}
    /\ Fault
    /\ EndPoll(d, [NoReport EXCEPT !.kind = "fault"])
    /\ UNCHANGED <<table, history>>

\* Broken: the timer is cleared before the handler is awaited.
TimeoutNeverFires(d) == FALSE /\ UNCHANGED vars

\* The timer aborts the signal; nothing else happens to the dispatch.
TimeoutFires(d) ==
    /\ HandlerTimeout /\ pc[d] = "handling" /\ ~signalled[d]
    /\ signalled' = [signalled EXCEPT ![d] = TRUE]
    /\ UNCHANGED <<table, pc, row, conn, batch, report, history, faults>>

HandlerResolves(d) ==
    /\ Goto(d, "handling", "mark")
    /\ row[d] \notin Unregistered
    /\ deliveries' = [deliveries EXCEPT ![row[d]] = @ + 1]
    /\ signalled' = [signalled EXCEPT ![d] = FALSE]
    /\ UNCHANGED <<table, row, conn, batch, report, failures, faults>>

\* The transaction of the dispatch is over without COMMIT; the failure of the
\* row is to be recorded on the same client.
DispatchFailed(d) ==
    /\ pc' = [pc EXCEPT ![d] = "record"]
    /\ failures' = [failures EXCEPT ![row[d]] = @ + 1]
    /\ signalled' = [signalled EXCEPT ![d] = FALSE]
    /\ UNCHANGED <<committed, attempts, row, batch, report, deliveries>>

\* rowToEvent throws for an unregistered type, or the handler rejects: ROLLBACK.
HandlerRejects(d) ==
    /\ pc[d] = "handling"
    /\ DispatchFailed(d)
    /\ UNCHANGED <<dispatched, conn, faults>>

\* UPDATE ... SET dispatched_at and COMMIT; the loop goes on or has its batch.
MarkDispatched(d) ==
    /\ pc[d] = "mark" /\ conn[d]
    /\ dispatched' = dispatched \cup {row[d]}
    /\ batch' = [batch EXCEPT ![d] = @ + 1]
    /\ pc' = [pc EXCEPT ![d] = IF batch[d] + 1 < BatchSize THEN "polling" ELSE "counting"]
    /\ row' = [row EXCEPT ![d] = NoRow]
    /\ UNCHANGED <<committed, attempts, conn, signalled, report, history, faults>>

\* The UPDATE or the COMMIT fails: an error of the server, or a dead client.
MarkFails(d) ==
    /\ pc[d] = "mark"
    /\ IF conn[d] THEN Fault ELSE UNCHANGED faults
    /\ DispatchFailed(d)
    /\ UNCHANGED <<dispatched, conn>>

\* The server commits, and the connection dies before its answer arrives.
CommitAnswerLost(d) ==
    /\ pc[d] = "mark" /\ conn[d] /\ Fault
    /\ dispatched' = dispatched \cup {row[d]}
    /\ conn' = [conn EXCEPT ![d] = FALSE]
    /\ DispatchFailed(d)

\* Broken: the failure is recorded on a fresh client when the old one is dead.
RecordOnFreshClient(d) ==
    /\ Goto(d, "record", "recordCommit")
    /\ ~Locked(row[d])
    /\ conn' = [conn EXCEPT ![d] = TRUE]
    /\ UNCHANGED <<table, row, signalled, batch, report, history, faults>>

\* recordDispatchFailure: BEGIN, then the UPDATE waits for the row's lock.
RecordUpdate(d) ==
    /\ Goto(d, "record", "recordCommit")
    /\ conn[d] /\ ~Locked(row[d])
    /\ UNCHANGED <<table, row, conn, signalled, batch, report, history, faults>>

RecordCommit(d) ==
    /\ pc[d] = "recordCommit" /\ conn[d]
    /\ attempts' = [attempts EXCEPT ![row[d]] = @ + 1]
    /\ ThrowDispatchFailed(d, attempts[row[d]] + 1)
    /\ UNCHANGED <<committed, dispatched, history, faults>>

\* The recording itself fails: the attempt is not counted.
RecordFails(d) ==
    /\ pc[d] \in {"record", "recordCommit"}
    /\ IF conn[d] THEN Fault ELSE UNCHANGED faults
    /\ ThrowDispatchFailed(d, Unknown)
    /\ UNCHANGED <<table, history>>

\* Broken: a recording whose answer was lost is tried again.
RecordRetried(d) ==
    /\ pc[d] = "recordCommit" /\ conn[d] /\ Fault
    /\ attempts' = [attempts EXCEPT ![row[d]] = @ + 1]
    /\ pc' = [pc EXCEPT ![d] = "record"]
    /\ UNCHANGED <<committed, dispatched, row, conn, signalled, batch, report, history>>

\* The attempt is counted, and the connection dies before the answer arrives.
RecordAnswerLost(d) ==
    /\ pc[d] = "recordCommit" /\ conn[d] /\ Fault
    /\ attempts' = [attempts EXCEPT ![row[d]] = @ + 1]
    /\ ThrowDispatchFailed(d, Unknown)
    /\ UNCHANGED <<committed, dispatched, history>>

\* countQuarantinedRows, then poll returns.
Count(d) ==
    /\ pc[d] = "counting"
    /\ EndPoll(d, [NoReport EXCEPT !.kind = "ok", !.quarantined = Cardinality(Quarantined)])
    /\ UNCHANGED <<table, history, faults>>

\* The server drops the session and rolls back; the handler does not notice.
ConnectionLost(d) ==
    /\ row[d] # NoRow /\ conn[d] /\ Fault
    /\ conn' = [conn EXCEPT ![d] = FALSE]
    /\ UNCHANGED <<table, pc, row, signalled, batch, report, history>>

\* The process dies, between any two steps, and is restarted.
Crash(d) ==
    /\ pc[d] # "idle" /\ Fault
    /\ EndPoll(d, NoReport)
    /\ UNCHANGED <<table, history>>

Settle(d) == HandlerResolves(d) \/ HandlerRejects(d)

\* What a dispatcher does by itself once it was started.
Work(d) ==
    \/ \E r \in Rows : SelectRow(d, r)
    \/ SelectNothing(d) \/ Count(d)
    \/ TimeoutFires(d)
    \/ MarkDispatched(d) \/ (MarkFails(d) /\ ~conn[d])
    \/ RecordUpdate(d) \/ RecordCommit(d) \/ (RecordFails(d) /\ ~conn[d])

Step(d) ==
    \/ StartPoll(d) \/ SelectNothing(d) \/ PollFails(d) \/ TimeoutFires(d)
    \/ \E r \in Rows : SelectRow(d, r)
    \/ HandlerResolves(d) \/ HandlerRejects(d)
    \/ MarkDispatched(d) \/ MarkFails(d) \/ CommitAnswerLost(d)
    \/ RecordUpdate(d) \/ RecordCommit(d) \/ RecordFails(d) \/ RecordAnswerLost(d)
    \/ Count(d) \/ ConnectionLost(d) \/ Crash(d)

Next == (\E r \in Rows : Publish(r)) \/ (\E d \in Dispatchers : Step(d))

Spec == Init /\ [][Next]_vars

(***************************************************************************)
(* Fairness: the host keeps calling poll, PostgreSQL answers, timers fire, *)
(* and a handler settles once its signal was aborted.  Nothing is assumed  *)
(* of a handler whose signal has not fired, of publishers or of faults.    *)
(***************************************************************************)
Fairness == \A d \in Dispatchers :
    /\ WF_vars(StartPoll(d))
    /\ WF_vars(Work(d))
    /\ WF_vars(Settle(d) /\ signalled[d])

FairSpec == Spec /\ Fairness

-----------------------------------------------------------------------------
\* Two transactions never hold the lock of the same row, whether they dispatch
\* it or record a failure of it (SELECT ... FOR UPDATE SKIP LOCKED, :212-223,
\* and the UPDATE of recordDispatchFailure that has to wait, :276-282).
LockExclusive ==
    \A r \in Rows, d, e \in Dispatchers : HoldsLock(d, r) /\ HoldsLock(e, r) => d = e

\* A dispatch on a live connection never works on a row that is dispatched
\* already: the lock outlives every look at dispatched_at (:170-249).
LiveDispatchIsPending ==
    \A d \in Dispatchers : row[d] # NoRow /\ conn[d] /\ pc[d] \in {"handling", "mark"}
        => row[d] \in committed \ dispatched

DispatchedWasDelivered == \A r \in dispatched : deliveries[r] > 0

Delivery == INSTANCE AtLeastOnce WITH
    Events       <- Rows,
    published    <- committed,
    delivered    <- {r \in Rows : deliveries[r] > 0},
    acknowledged <- dispatched

\* The outbox keeps the promise of AtLeastOnce (pg-polling-dispatcher.ts
\* :34-40, :55-56): no delivery before the writer's commit, no dispatched_at
\* without a delivery and none set twice, whatever crashes or races.
DeliversAtLeastOnce == Delivery!Spec

\* The stale window of :46-53 cannot run away: however the retries race with
\* their recording, attempts stays below maxAttempts plus one per dispatcher.
AttemptsBounded ==
    \A r \in Rows : attempts[r] <= MaxAttempts - 1 + Cardinality(Dispatchers)

\* A row is quarantined only after maxAttempts dispatches of it really failed:
\* no failure is counted twice, by its own dispatcher or by another one.
NoSpuriousQuarantine == \A r \in Rows : attempts[r] <= failures[r]

\* A handler call resolves a second time for one event only when a fault
\* separated the first from its acknowledgement; every extra delivery needs
\* a fault of its own.
RedeliveryNeedsFault == \A r \in Rows : deliveries[r] <= 1 + faults

\* "ordering is per-aggregate" (docs/adr/0006 :90): no event is delivered
\* before an earlier event of its aggregate, unless that one is quarantined.
PerAggregateOrder ==
    \A q, r \in Rows : EarlierOfAggregate(q, r) /\ deliveries[r] > 0
        => deliveries[q] > 0 \/ attempts[q] >= MaxAttempts

\* "a just-quarantined poison pill (attempts at or above it)"
\* (outbox-dispatch-failed.ts :8-10): the row such an error names is pending.
QuarantineReportIsTrue ==
    \A d \in Dispatchers : report[d].kind = "failed" /\ report[d].attempts >= MaxAttempts
        => report[d].seq \notin dispatched

\* A quarantined row stays quarantined (selectNextRow's predicate, :212-223),
\* so that the number poll returns never turns out too high, however long after
\* the loop, and in whatever other transaction, it was counted (:126-158).
QuarantineIsFinal == [][Quarantined \subseteq Quarantined']_vars

\* Every published event is dispatched or quarantined in the end: failing
\* rows, hanging handlers and dead clients do not starve the rows behind them
\* (:57-69).
EveryRowSettles ==
    \A r \in Rows : r \in committed ~> (r \in dispatched \/ attempts[r] >= MaxAttempts)
=============================================================================
