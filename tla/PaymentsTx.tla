------------------------------ MODULE PaymentsTx ------------------------------
(***************************************************************************)
(* PaymentsService.transition() one SQL statement at a time, under         *)
(* PostgreSQL's read-committed isolation: the SELECT ... FOR UPDATE that   *)
(* takes the row lock, the validation in the application, the three        *)
(* writes nobody else sees before COMMIT, and a rollback anywhere.  The    *)
(* other operations of the service are single statements: atomic, but they *)
(* wait for the row lock too.                                              *)
(***************************************************************************)
EXTENDS PaymentStates, Sequences

CONSTANTS
    PaymentIds, Stores, Refs, AnyStore, ProviderIds, NoProviderId, MaxCharges,
    Callers,  \* concurrent calls of transition(), of any process
    Targets,  \* the statuses they ask for
    NoTx      \* the row is not locked

ASSUME TargetsAreStatuses == Targets \subseteq Statuses
ASSUME NoTxIsNoCaller == NoTx \notin Callers
ASSUME LedgerConstants ==
    AnyStore \notin Stores /\ NoProviderId \notin ProviderIds /\ MaxCharges \in Nat

VARIABLES
    payments, events, outbox, charges,  \* the committed tables
    lock,  \* row locks: the transaction holding a payment's row, or NoTx
    tx     \* the transaction of every caller

tables == <<payments, events, outbox, charges>>
vars == <<payments, events, outbox, charges, lock, tx>>

Ledger == INSTANCE Payments

Phases == {"idle", "select", "validate", "payment", "event", "outbox", "commit"}

Tables == {"payments", "payment_events", "outbox"}

\* seen is the status read by the SELECT, wrote the tables with an uncommitted row.
TxState == [pc: Phases, p: PaymentIds, scope: Stores \cup {AnyStore},
            to: Statuses, seen: Statuses, wrote: SUBSET Tables]

TypeOK ==
    /\ Ledger!TypeOK
    /\ lock \in [PaymentIds -> Callers \cup {NoTx}]
    /\ tx \in [Callers -> TxState]

Init ==
    /\ Ledger!Init
    /\ lock = [p \in PaymentIds |-> NoTx]
    /\ tx \in [Callers -> [pc: {"idle"}, p: PaymentIds, scope: {AnyStore},
                           to: {"created"}, seen: {"created"}, wrote: {{}}]]
    /\ \A t, u \in Callers : tx[t] = tx[u]

------------------------------------------------------------------------------
RowFree(p, t) == lock[p] \in {NoTx, t}

\* A mutant: a plain SELECT.
Bug_NoForUpdate(p, t) == lock[p]

\* setLock('pessimistic_write'): the SELECT takes the row lock.
LockAfterSelect(p, t) == t

\* A mutant: the connection goes back to the pool with its transaction open.
Bug_LocksLeak(t) == lock

LocksAfter(t) == [p \in PaymentIds |-> IF lock[p] = t THEN NoTx ELSE lock[p]]

\* The end of a transaction, committed or not: its locks go.
Finish(t) ==
    /\ tx' = [tx EXCEPT ![t].pc = "idle", ![t].wrote = {}]
    /\ lock' = LocksAfter(t)

Call(t, p, scope, to) ==
    /\ tx[t].pc = "idle"
    /\ tx' = [tx EXCEPT ![t].pc = "select", ![t].p = p, ![t].scope = scope,
                        ![t].to = to]
    /\ UNCHANGED <<payments, events, outbox, charges, lock>>

\* The SELECT waits for the row and then reads its last committed version.
SelectForUpdate(t) ==
    LET p == tx[t].p IN
    /\ tx[t].pc = "select"
    /\ Ledger!InScope(p, tx[t].scope)
    /\ RowFree(p, t)
    /\ lock' = [lock EXCEPT ![p] = LockAfterSelect(p, t)]
    /\ tx' = [tx EXCEPT ![t].pc = "validate", ![t].seen = payments[p].status]
    /\ UNCHANGED tables

\* No row: NotFoundException, rollback.
NotFound(t) ==
    /\ tx[t].pc = "select"
    /\ ~Ledger!InScope(tx[t].p, tx[t].scope)
    /\ Finish(t)
    /\ UNCHANGED tables

\* PaymentStateMachine.validate on the status the SELECT returned.
Validate(t) ==
    /\ tx[t].pc = "validate"
    /\ CanTransition(tx[t].seen, tx[t].to)
    /\ tx' = [tx EXCEPT ![t].pc = "payment"]
    /\ UNCHANGED <<payments, events, outbox, charges, lock>>

Reject(t) ==
    /\ tx[t].pc = "validate"
    /\ ~CanTransition(tx[t].seen, tx[t].to)
    /\ Finish(t)
    /\ UNCHANGED tables

\* manager.save(Payment): an UPDATE takes the row lock if the transaction has
\* not got it yet.
SavePayment(t) ==
    LET p == tx[t].p IN
    /\ tx[t].pc = "payment"
    /\ RowFree(p, t)
    /\ lock' = [lock EXCEPT ![p] = t]
    /\ tx' = [tx EXCEPT ![t].pc = "event", ![t].wrote = @ \cup {"payments"}]
    /\ UNCHANGED tables

SaveEvent(t) ==
    /\ tx[t].pc = "event"
    /\ tx' = [tx EXCEPT ![t].pc = "outbox", ![t].wrote = @ \cup {"payment_events"}]
    /\ UNCHANGED <<payments, events, outbox, charges, lock>>

\* A mutant: the outbox row is written after the transaction.
Bug_CommitBeforeOutbox(t) == tx[t].pc \in {"outbox", "commit"}

\* The callback returned: every write of the transaction is done.
ReadyToCommit(t) == tx[t].pc = "commit"

SaveOutbox(t) ==
    /\ tx[t].pc = "outbox"
    /\ tx' = [tx EXCEPT ![t].pc = "commit", ![t].wrote = @ \cup {"outbox"}]
    /\ UNCHANGED <<payments, events, outbox, charges, lock>>

\* What a committed transaction leaves in the tables: the rows it wrote.
Commit(t) ==
    LET p == tx[t].p
        store == payments[p].store IN
    /\ ReadyToCommit(t)
    /\ payments' = IF "payments" \in tx[t].wrote
                   THEN [payments EXCEPT ![p].status = tx[t].to] ELSE payments
    /\ events' = IF "payment_events" \in tx[t].wrote
                 THEN [events EXCEPT ![p] = Append(@,
                          [store |-> store, from |-> tx[t].seen, to |-> tx[t].to])]
                 ELSE events
    /\ outbox' = IF "outbox" \in tx[t].wrote
                 THEN [outbox EXCEPT ![p] =
                          Append(@, [store |-> store, type |-> tx[t].to])]
                 ELSE outbox
    /\ Finish(t)
    /\ UNCHANGED charges

\* A statement fails, the connection or the process dies: rollback.
Abort(t) ==
    /\ tx[t].pc # "idle"
    /\ Finish(t)
    /\ UNCHANGED tables

\* The single-statement operations.  An INSERT into provider_charges locks the
\* row its foreign key names, so it waits for a transition as an UPDATE does.
OtherOperation(p) ==
    /\ \/ \E s \in Stores, r \in Refs : Ledger!Create(p, s, r)
       \/ /\ lock[p] = NoTx
          /\ Len(charges[p]) < MaxCharges
          /\ \E row \in Ledger!ChargeRow : Ledger!SaveProviderCharge(p, row)
       \/ /\ lock[p] = NoTx
          /\ \E s \in Stores, i \in {"pix", "boleto"} : Ledger!UpdateInstrument(p, s, i)
    /\ UNCHANGED <<lock, tx>>

Statement(t) ==
    \/ SelectForUpdate(t) \/ NotFound(t) \/ Validate(t) \/ Reject(t)
    \/ SavePayment(t) \/ SaveEvent(t) \/ SaveOutbox(t) \/ Commit(t)

Next ==
    \/ \E t \in Callers :
          \/ \E p \in PaymentIds, scope \in Stores \cup {AnyStore}, to \in Targets :
                 Call(t, p, scope, to)
          \/ Statement(t)
          \/ Abort(t)
    \/ \E p \in PaymentIds : OtherOperation(p)

Spec == Init /\ [][Next]_vars

\* A started statement is executed; the SELECT, which may find the row taken
\* again and again, is served because row waiters queue in PostgreSQL.
Fairness ==
    \A t \in Callers : WF_vars(Statement(t)) /\ SF_vars(SelectForUpdate(t) \/ SavePayment(t))

FairSpec == Spec /\ Fairness

------------------------------------------------------------------------------
(***************************************************************************)
(* Properties.                                                             *)
(***************************************************************************)

\* The transaction implements the atomic operations of Payments: concurrent
\* callers, rollbacks and half-done transactions included, every change of the
\* committed tables is one whole Create, Transition, charge insert or update.  So what
\* is invariant of Payments (PaymentsProofs) is invariant here.
LedgerSpec == Ledger!Spec

\* The transactional outbox: each payment's outbox rows are its events, in the
\* same order and for the same store, so no committed transition is lost to
\* subscribers and none is announced that was rolled back.
OutboxMatchesEvents ==
    \A p \in PaymentIds :
        outbox[p] = [i \in 1 .. Len(events[p]) |->
                        [store |-> events[p][i].store, type |-> events[p][i].to]]

\* The inductive reason: between its SELECT and its end a transaction owns the
\* row, so what it validated is still the committed status when it commits.
Holding == {"validate", "payment", "event", "outbox", "commit"}

SeenIsCurrent ==
    \A t \in Callers : tx[t].pc \in Holding =>
        /\ Ledger!Exists(tx[t].p)
        /\ lock[tx[t].p] = t
        /\ tx[t].seen = payments[tx[t].p].status

\* Nobody waits on everybody: a transition() that was called ends, one row
\* lock per transaction leaving no cycle of waiters.
EveryCallEnds == \A t \in Callers : tx[t].pc # "idle" ~> tx[t].pc = "idle"

==============================================================================
