----------------------------- MODULE OutboxRelay -----------------------------
(***************************************************************************)
(* The worker process: outbox/outbox-relay.processor.ts moves committed    *)
(* outbox rows to a queue in Redis, every five seconds, inside one SQL     *)
(* transaction that only covers its half of the work; ticks overlap when   *)
(* one lasts, or when there are two workers.  notifications.processor.ts   *)
(* takes jobs from the queue.                                              *)
(***************************************************************************)
EXTENDS Naturals, FiniteSets

CONSTANTS
    MaxEvents,   \* bound: outbox rows in all
    Ticks,       \* runs of relay() that may be under way at once
    Limit,       \* .limit(50)
    MaxFailures  \* bound: errors and crashes

ASSUME LimitIsPositive == Limit \in Nat \ {0}
ASSUME BoundsAreNumbers == MaxEvents \in Nat /\ MaxFailures \in Nat

VARIABLES
    committed,  \* rows of outbox, numbered by created_at
    published,  \* those with published_at
    tick,       \* the runs of relay()
    queue,      \* jobs waiting in Redis, per row
    added,      \* jobs ever added, per row
    failures

vars == <<committed, published, tick, queue, added, failures>>

Events == 1 .. MaxEvents

\* The callbacks of one Promise.all: rows not added yet, rows added and not yet
\* marked, rows marked; aborted: a statement failed, PostgreSQL ignores the rest.
Tick == [pc: {"idle", "running"}, batch: SUBSET Events, toAdd: SUBSET Events,
         toMark: SUBSET Events, marked: SUBSET Events, aborted: BOOLEAN]

IdleTick == [pc |-> "idle", batch |-> {}, toAdd |-> {}, toMark |-> {},
             marked |-> {}, aborted |-> FALSE]

Running(rows) == [pc |-> "running", batch |-> rows, toAdd |-> rows, toMark |-> {},
                  marked |-> {}, aborted |-> FALSE]

TypeOK ==
    /\ committed \subseteq Events
    /\ published \subseteq committed
    /\ tick \in [Ticks -> Tick]
    /\ queue \in [Events -> Nat]
    /\ added \in [Events -> Nat]
    /\ failures \in 0 .. MaxFailures

Init ==
    /\ committed = {}
    /\ published = {}
    /\ tick = [t \in Ticks |-> IdleTick]
    /\ queue = [e \in Events |-> 0]
    /\ added = [e \in Events |-> 0]
    /\ failures = 0

------------------------------------------------------------------------------
\* A transition() commits its outbox row.  created_at is the time its transaction
\* began, so rows may appear in another order than that of created_at.
CommitRow(e) ==
    /\ e \notin committed
    /\ committed' = committed \cup {e}
    /\ UNCHANGED <<published, tick, queue, added, failures>>

\* A mutant: a SELECT that locks nothing and skips nothing.
Bug_NotLocked(e) == TRUE

\* 'pessimistic_partial_write', FOR UPDATE SKIP LOCKED: rows no tick holds.
Unlocked(e) == \A t \in Ticks : e \notin tick[t].batch

\* A mutant: a cursor, rows created after those published already.
Bug_AfterCursor == {e \in committed : Unlocked(e) /\ \A p \in published : p < e}

Unpublished == {e \in committed \ published : Unlocked(e)}

\* ORDER BY created_at LIMIT: the oldest of a set of rows.
Oldest(S) == {e \in S : Cardinality({f \in S : f < e}) < Limit}

Select(t) ==
    /\ tick[t].pc = "idle"
    /\ Unpublished # {}
    /\ tick' = [tick EXCEPT ![t] = Running(Oldest(Unpublished))]
    /\ UNCHANGED <<committed, published, queue, added, failures>>

AddJob(e) ==
    /\ queue' = [queue EXCEPT ![e] = @ + 1]
    /\ added' = [added EXCEPT ![e] = @ + 1]

\* notificationQueue.add
Add(t, e) ==
    /\ e \in tick[t].toAdd
    /\ AddJob(e)
    /\ tick' = [tick EXCEPT ![t].toAdd = @ \ {e}, ![t].toMark = @ \cup {e}]
    /\ UNCHANGED <<committed, published, failures>>

Fail ==
    /\ failures < MaxFailures
    /\ failures' = failures + 1

\* Redis fails, before or after it took the job; the error is logged.
AddFails(t, e) ==
    /\ Fail
    /\ e \in tick[t].toAdd
    /\ AddJob(e) \/ UNCHANGED <<queue, added>>
    /\ tick' = [tick EXCEPT ![t].toAdd = @ \ {e}]
    /\ UNCHANGED <<committed, published>>

\* em.update; after a statement that failed it throws, and that is logged.
Mark(t, e) ==
    /\ e \in tick[t].toMark
    /\ tick' = [tick EXCEPT ![t].toMark = @ \ {e},
                    ![t].marked = IF tick[t].aborted THEN @ ELSE @ \cup {e}]
    /\ UNCHANGED <<committed, published, queue, added, failures>>

MarkFails(t, e) ==
    /\ Fail
    /\ e \in tick[t].toMark
    /\ tick' = [tick EXCEPT ![t].toMark = @ \ {e}, ![t].aborted = TRUE]
    /\ UNCHANGED <<committed, published, queue, added>>

\* A mutant: the whole batch is marked when the callbacks are over.
Bug_MarkBatch(t) == tick[t].batch

\* What COMMIT makes durable: nothing, if a statement failed.
Marked(t) == IF tick[t].aborted THEN {} ELSE tick[t].marked

Commit(t) ==
    /\ tick[t].pc = "running"
    /\ tick[t].toAdd = {} /\ tick[t].toMark = {}
    /\ published' = published \cup Marked(t)
    /\ tick' = [tick EXCEPT ![t] = IdleTick]
    /\ UNCHANGED <<committed, queue, added, failures>>

\* The worker dies or the transaction cannot commit: rollback.
Crash(t) ==
    /\ Fail
    /\ tick[t].pc = "running"
    /\ tick' = [tick EXCEPT ![t] = IdleTick]
    /\ UNCHANGED <<committed, published, queue, added>>

\* A mutant: a job is removed when it is taken and again when it is complete.
Bug_RemovedTwice(e) == queue[e] - 2

\* removeOnComplete; allSettled never throws, so a job tried once is complete.
JobsAfter(e) == queue[e] - 1

\* process(): relay() puts no URL in a job, so it posts nothing.
Process(e) ==
    /\ queue[e] > 0
    /\ queue' = [queue EXCEPT ![e] = JobsAfter(e)]
    /\ UNCHANGED <<committed, published, tick, added, failures>>

Step(t) == Select(t) \/ Commit(t) \/ \E e \in Events : Add(t, e) \/ Mark(t, e)

Next ==
    \/ \E e \in Events : CommitRow(e)
    \/ \E t \in Ticks :
          \/ Step(t)
          \/ \E e \in Events : AddFails(t, e) \/ MarkFails(t, e)
          \/ Crash(t)
    \/ \E e \in Events : Process(e)

Spec == Init /\ [][Next]_vars

\* The cron fires again and again, a run that does not fail goes on, and so does
\* the worker of the queue.
Fairness ==
    /\ \A t \in Ticks : WF_vars(Step(t))
    /\ \A e \in Events : WF_vars(Process(e))

FairSpec == Spec /\ Fairness

------------------------------------------------------------------------------
(***************************************************************************)
(* Properties.                                                             *)
(***************************************************************************)

\* Nothing is lost: a row marked as published, and so never selected again, has
\* had its job added, whatever failed or crashed in between.
PublishedWasAdded == \A e \in published : added[e] > 0

\* A job is added again only because something failed: overlapping ticks and
\* concurrent workers never publish the same row twice by themselves.
AddedAgainOnlyAfterFailure == \A e \in Events : added[e] <= 1 + failures

\* At-least-once delivery: the outbox row of each committed transition is published
\* in the end, however many rows are older, and its job is processed.
EveryEventIsProcessed ==
    \A e \in Events : e \in committed ~> e \in published /\ queue[e] = 0

==============================================================================
