--------------------------- MODULE PaymentsTxProofs ---------------------------
(***************************************************************************)
(* Theorems about transition() statement by statement, for any number of   *)
(* payments, stores and concurrent callers: what a transaction validated   *)
(* still holds when it commits, so the transactions implement the atomic   *)
(* ledger of Payments and inherit its theorems.                            *)
(***************************************************************************)
EXTENDS PaymentsTx, TLAPS

\* The theorems about the atomic ledger, for the tables of this module.
Atomic == INSTANCE PaymentsProofs

\* What a transaction has written, by how far it is.
WroteAt(pc) ==
    CASE pc = "event"  -> {"payments"}
      [] pc = "outbox" -> {"payments", "payment_events"}
      [] pc = "commit" -> Tables
      [] OTHER         -> {}

WritesInOrder == \A t \in Callers : tx[t].wrote = WroteAt(tx[t].pc)

\* Past its validation a transaction asks for a move the table allows.
Validated == {"payment", "event", "outbox", "commit"}

MoveIsAllowed ==
    \A t \in Callers : tx[t].pc \in Validated => CanTransition(tx[t].seen, tx[t].to)

\* The row was found in the scope asked for, and stays in it.
RowInScope ==
    \A t \in Callers : tx[t].pc \in Holding => Ledger!InScope(tx[t].p, tx[t].scope)

TxInv == TypeOK /\ SeenIsCurrent /\ WritesInOrder /\ MoveIsAllowed /\ RowInScope

\* Two instances of PaymentStates.
LEMMA SameStatuses == Ledger!Statuses = Statuses
  BY DEF Ledger!Statuses, Statuses

------------------------------------------------------------------------------
LEMMA InitTxInv == Init => TxInv
  <1> SUFFICES ASSUME Init PROVE TxInv
    OBVIOUS
  <1>1. Ledger!TypeOK
    BY DEF Init, Ledger!Init, Ledger!TypeOK
  <1>2. lock \in [PaymentIds -> Callers \cup {NoTx}]
    BY DEF Init
  <1>3. ASSUME NEW t \in Callers
        PROVE  tx[t] \in TxState /\ tx[t].pc = "idle" /\ tx[t].wrote = {}
    BY DEF Init, TxState, Phases, Statuses
  <1>4. tx = [t \in Callers |-> tx[t]]
    BY DEF Init
  <1>5. tx \in [Callers -> TxState]
    BY <1>3, <1>4
  <1> QED
    BY <1>1, <1>2, <1>3, <1>5
    DEF TxInv, TypeOK, SeenIsCurrent, Holding, WritesInOrder, WroteAt, MoveIsAllowed,
        Validated, RowInScope

\* A caller that holds a row is the only one.
LEMMA RowHeldOnce ==
    ASSUME SeenIsCurrent, NEW t \in Callers, NEW u \in Callers, t # u,
           tx[t].pc \in Holding, tx[u].pc \in Holding
    PROVE  tx[t].p # tx[u].p
  BY DEF SeenIsCurrent

\* The step of one caller that leaves the tables alone: its transaction moves on, keeps
\* or takes the lock of its row, or ends.
LEMMA QuietStep ==
    ASSUME TxInv, NEW t \in Callers, UNCHANGED tables,
           NEW x \in TxState, tx' = [tx EXCEPT ![t] = x],
           lock' \in [PaymentIds -> Callers \cup {NoTx}],
           \A p \in PaymentIds : lock[p] \notin {NoTx, t} => lock'[p] = lock[p],
           x.wrote = WroteAt(x.pc),
           x.pc \in Validated => CanTransition(x.seen, x.to),
           x.pc \in Holding =>
               /\ Ledger!InScope(x.p, x.scope) /\ lock'[x.p] = t
               /\ x.seen = payments[x.p].status
    PROVE  TxInv'
  <1>1. /\ tx' \in [Callers -> TxState] /\ tx'[t] = x
        /\ \A u \in Callers : u # t => tx'[u] = tx[u]
    BY DEF TxInv, TypeOK
  <1>2. TypeOK'
    BY <1>1 DEF TxInv, TypeOK, Ledger!TypeOK, tables
  <1>3. SeenIsCurrent'
    <2> SUFFICES ASSUME NEW u \in Callers, tx'[u].pc \in Holding
                 PROVE  /\ tx'[u].p \in DOMAIN payments'
                        /\ lock'[tx'[u].p] = u
                        /\ tx'[u].seen = payments'[tx'[u].p].status
      BY DEF SeenIsCurrent, Ledger!Exists
    <2>1. CASE u = t
      BY <2>1, <1>1 DEF Ledger!Exists, Ledger!InScope, tables
    <2>2. CASE u # t
      <3>1. tx[u].p \in PaymentIds /\ tx[u].pc \in Holding
        BY <2>2, <1>1 DEF TxInv, TypeOK, TxState
      <3>2. /\ Ledger!Exists(tx[u].p) /\ lock[tx[u].p] = u
            /\ tx[u].seen = payments[tx[u].p].status
        BY <3>1 DEF TxInv, SeenIsCurrent
      <3>3. lock'[tx[u].p] = u
        BY <2>2, <3>1, <3>2, NoTxIsNoCaller
      <3> QED BY <2>2, <3>2, <3>3, <1>1 DEF Ledger!Exists, tables
    <2> QED BY <2>1, <2>2
  <1>4. WritesInOrder' /\ MoveIsAllowed'
    BY <1>1 DEF TxInv, WritesInOrder, MoveIsAllowed
  <1>5. RowInScope'
    BY <1>1 DEF TxInv, RowInScope, Ledger!InScope, Ledger!Exists, tables
  <1> QED BY <1>2, <1>3, <1>4, <1>5 DEF TxInv

\* Each statement but COMMIT leaves the tables alone, and the end of a transaction
\* that does not commit.
LEMMA FinishStep ==
    ASSUME TxInv, NEW t \in Callers, Finish(t), UNCHANGED tables
    PROVE  TxInv'
  <1> DEFINE x == [tx[t] EXCEPT !.pc = "idle", !.wrote = {}]
  <1>1. tx[t] \in TxState
    BY DEF TxInv, TypeOK
  <1>2. x \in TxState /\ x.pc = "idle" /\ x.wrote = {}
    BY <1>1 DEF TxState, Phases
  <1>3. tx' = [tx EXCEPT ![t] = x]
    BY DEF Finish, TxInv, TypeOK
  <1>4. /\ lock' \in [PaymentIds -> Callers \cup {NoTx}]
        /\ \A p \in PaymentIds : lock[p] \notin {NoTx, t} => lock'[p] = lock[p]
    BY DEF Finish, LocksAfter, TxInv, TypeOK
  <1> QED
    BY <1>2, <1>3, <1>4, QuietStep DEF WroteAt, Validated, Holding

LEMMA CallStep ==
    ASSUME TxInv, NEW t \in Callers, NEW p \in PaymentIds,
           NEW scope \in Stores \cup {AnyStore}, NEW to \in Targets, Call(t, p, scope, to)
    PROVE  TxInv'
  <1> DEFINE x == [tx[t] EXCEPT !.pc = "select", !.p = p, !.scope = scope, !.to = to]
  <1>1. tx[t] \in TxState /\ tx[t].pc = "idle" /\ tx[t].wrote = {}
    BY DEF TxInv, TypeOK, Call, WritesInOrder, WroteAt
  <1>2. x \in TxState /\ x.pc = "select" /\ x.wrote = {}
    BY <1>1, TargetsAreStatuses DEF TxState, Phases
  <1>3. tx' = [tx EXCEPT ![t] = x]
    BY DEF Call, TxInv, TypeOK
  <1>4. UNCHANGED tables /\ lock' = lock
    BY DEF Call, tables
  <1> QED
    BY <1>2, <1>3, <1>4, QuietStep DEF WroteAt, Validated, Holding, TxInv, TypeOK

LEMMA SelectStep ==
    ASSUME TxInv, NEW t \in Callers, SelectForUpdate(t)
    PROVE  TxInv'
  <1> DEFINE p == tx[t].p
             x == [tx[t] EXCEPT !.pc = "validate", !.seen = payments[p].status]
  <1>1. /\ tx[t] \in TxState /\ tx[t].wrote = {} /\ p \in PaymentIds
        /\ lock[p] \in {NoTx, t} /\ Ledger!InScope(p, tx[t].scope)
    BY DEF TxInv, TypeOK, SelectForUpdate, WritesInOrder, WroteAt, RowFree, TxState
  <1>2. payments[p].status \in Statuses
    BY <1>1, SameStatuses
    DEF TxInv, TypeOK, Ledger!TypeOK, Ledger!InScope, Ledger!Exists, Ledger!PaymentRow
  <1>3. /\ x \in TxState /\ x.pc = "validate" /\ x.wrote = {} /\ x.p = p
        /\ x.scope = tx[t].scope /\ x.seen = payments[p].status
    BY <1>1, <1>2 DEF TxState, Phases
  <1>4. tx' = [tx EXCEPT ![t] = x]
    BY DEF SelectForUpdate, TxInv, TypeOK
  <1>5. /\ lock' \in [PaymentIds -> Callers \cup {NoTx}] /\ lock'[p] = t
        /\ \A q \in PaymentIds : lock[q] \notin {NoTx, t} => lock'[q] = lock[q]
    BY <1>1 DEF SelectForUpdate, LockAfterSelect, TxInv, TypeOK
  <1>6. UNCHANGED tables
    BY DEF SelectForUpdate
  <1> HIDE DEF x, p
  <1> QED
    BY <1>1, <1>3, <1>4, <1>5, <1>6, QuietStep DEF WroteAt, Validated

\* The later statements of a transaction: it has its row and keeps it.
LEMMA WriteStep ==
    ASSUME TxInv, NEW t \in Callers, tx[t].pc \in Holding, UNCHANGED tables,
           NEW pc \in Holding, NEW W, W = WroteAt(pc),
           tx' = [tx EXCEPT ![t].pc = pc, ![t].wrote = W],
           lock' = [lock EXCEPT ![tx[t].p] = t],
           pc \in Validated => CanTransition(tx[t].seen, tx[t].to)
    PROVE  TxInv'
  <1> DEFINE p == tx[t].p
             x == [tx[t] EXCEPT !.pc = pc, !.wrote = W]
  <1>1. /\ tx[t] \in TxState /\ p \in PaymentIds
        /\ Ledger!InScope(p, tx[t].scope) /\ tx[t].seen = payments[p].status
    BY DEF TxInv, TypeOK, SeenIsCurrent, RowInScope, TxState
  <1>2. W \in SUBSET Tables /\ pc \in Phases
    BY DEF WroteAt, Tables, Holding, Phases
  <1>3. /\ x \in TxState /\ x.pc = pc /\ x.wrote = W /\ x.p = p
        /\ x.scope = tx[t].scope /\ x.seen = tx[t].seen /\ x.to = tx[t].to
    BY <1>1, <1>2 DEF TxState
  <1>4. tx' = [tx EXCEPT ![t] = x]
    BY DEF TxInv, TypeOK
  <1>5. /\ lock' \in [PaymentIds -> Callers \cup {NoTx}] /\ lock'[p] = t
        /\ \A q \in PaymentIds : lock[q] \notin {NoTx, t} => lock'[q] = lock[q]
    <2>1. lock[p] = t
      BY DEF TxInv, SeenIsCurrent
    <2> QED BY <1>1, <2>1 DEF TxInv, TypeOK
  <1>6. /\ x.wrote = WroteAt(x.pc)
        /\ x.pc \in Validated => CanTransition(x.seen, x.to)
        /\ Ledger!InScope(x.p, x.scope) /\ lock'[x.p] = t
        /\ x.seen = payments[x.p].status
    BY <1>1, <1>3, <1>5
  <1> HIDE DEF x, p
  <1> QED
    BY <1>3, <1>4, <1>5, <1>6, QuietStep

LEMMA ValidateStep ==
    ASSUME TxInv, NEW t \in Callers, Validate(t)
    PROVE  TxInv'
  <1>1. tx[t] \in TxState /\ tx[t].pc \in Holding /\ tx[t].wrote = {} /\ lock[tx[t].p] = t
    BY DEF TxInv, TypeOK, SeenIsCurrent, Validate, Holding, WritesInOrder, WroteAt
  <1>2. /\ tx' = [tx EXCEPT ![t].pc = "payment", ![t].wrote = {}]
        /\ lock' = [lock EXCEPT ![tx[t].p] = t] /\ UNCHANGED tables
    BY <1>1 DEF Validate, TxInv, TypeOK, TxState, tables
  <1>3. CanTransition(tx[t].seen, tx[t].to)
    BY DEF Validate
  <1> QED
    BY <1>1, <1>2, <1>3, WriteStep DEF WroteAt, Holding

LEMMA SaveStep ==
    ASSUME TxInv, NEW t \in Callers, SavePayment(t) \/ SaveEvent(t) \/ SaveOutbox(t)
    PROVE  TxInv'
  <1>1. /\ tx[t] \in TxState /\ tx[t].pc \in Holding /\ lock[tx[t].p] = t
        /\ tx[t].pc \in {"payment", "event", "outbox"} /\ tx[t].wrote = WroteAt(tx[t].pc)
        /\ CanTransition(tx[t].seen, tx[t].to)
    BY DEF TxInv, TypeOK, SeenIsCurrent, SavePayment, SaveEvent, SaveOutbox, Holding,
           WritesInOrder, MoveIsAllowed, Validated
  <1>2. lock' = [lock EXCEPT ![tx[t].p] = t] /\ UNCHANGED tables
    BY <1>1 DEF SavePayment, SaveEvent, SaveOutbox, TxInv, TypeOK, TxState, tables
  <1>3. CASE SavePayment(t)
    <2>1. tx' = [tx EXCEPT ![t].pc = "event", ![t].wrote = {"payments"}]
      BY <1>1, <1>3 DEF SavePayment, WroteAt, TxInv, TypeOK
    <2> QED BY <1>1, <1>2, <2>1, WriteStep DEF WroteAt, Holding
  <1>4. CASE SaveEvent(t)
    <2>1. tx' = [tx EXCEPT ![t].pc = "outbox", ![t].wrote = {"payments", "payment_events"}]
      BY <1>1, <1>4 DEF SaveEvent, WroteAt, TxInv, TypeOK
    <2> QED BY <1>1, <1>2, <2>1, WriteStep DEF WroteAt, Holding
  <1>5. CASE SaveOutbox(t)
    <2>1. tx' = [tx EXCEPT ![t].pc = "commit", ![t].wrote = Tables]
      BY <1>1, <1>5 DEF SaveOutbox, WroteAt, Tables, TxInv, TypeOK
    <2> QED BY <1>1, <1>2, <2>1, WriteStep DEF WroteAt, Holding
  <1> QED BY <1>3, <1>4, <1>5

\* COMMIT publishes the whole of the transaction: exactly the atomic transition().
LEMMA CommitIsTransition ==
    ASSUME TxInv, NEW t \in Callers, Commit(t)
    PROVE  /\ tx[t].p \in PaymentIds /\ tx[t].scope \in Stores \cup {AnyStore}
           /\ tx[t].to \in Statuses
           /\ Ledger!Transition(tx[t].p, tx[t].scope, tx[t].to)
  <1> DEFINE p == tx[t].p
             to == tx[t].to
  <1>1. /\ tx[t] \in TxState /\ tx[t].pc \in Holding /\ tx[t].pc \in Validated
        /\ tx[t].wrote = Tables
    BY DEF TxInv, TypeOK, Commit, ReadyToCommit, Holding, Validated, WritesInOrder, WroteAt
  <1>2. /\ p \in PaymentIds /\ tx[t].scope \in Stores \cup {AnyStore} /\ to \in Statuses
    BY <1>1 DEF TxState
  <1>3. /\ Ledger!InScope(p, tx[t].scope) /\ tx[t].seen = payments[p].status
        /\ CanTransition(tx[t].seen, to)
    BY <1>1 DEF TxInv, RowInScope, SeenIsCurrent, MoveIsAllowed
  <1>4. Ledger!CanMove(p, tx[t].scope, to)
    BY <1>3 DEF Ledger!CanMove, Ledger!CanTransition, CanTransition,
                Ledger!AllowedTransitions, AllowedTransitions, Ledger!Statuses, Statuses
  <1>5. /\ payments' = [payments EXCEPT ![p].status = to]
        /\ events' = [events EXCEPT ![p] = Append(@,
                         [store |-> payments[p].store, from |-> tx[t].seen, to |-> to])]
        /\ outbox' = [outbox EXCEPT ![p] =
                         Append(@, [store |-> payments[p].store, type |-> to])]
        /\ UNCHANGED charges
    BY <1>1 DEF Commit, Tables
  <1> QED
    BY <1>2, <1>3, <1>4, <1>5 DEF Ledger!Transition, Ledger!EventOf

LEMMA SameTypes == (Ledger!TypeOK <=> Atomic!TypeOK) /\ (Ledger!TypeOK' <=> Atomic!TypeOK')
  BY DEF Ledger!TypeOK, Atomic!TypeOK, Ledger!PaymentRow, Atomic!PaymentRow,
         Ledger!EventRow, Atomic!EventRow, Ledger!OutboxRow, Atomic!OutboxRow,
         Ledger!ChargeRow, Atomic!ChargeRow, Ledger!ChargeStatuses,
         Atomic!ChargeStatuses, Ledger!Instruments, Atomic!Instruments,
         Ledger!Statuses, Atomic!Statuses

LEMMA SameSteps == [Ledger!Next]_Ledger!vars <=> [Atomic!Next]_Atomic!vars
  BY DEF Ledger!Next, Atomic!Next, Ledger!Create, Atomic!Create,
         Ledger!CanCreate, Atomic!CanCreate, Ledger!FindByExternalRef,
         Atomic!FindByExternalRef, Ledger!Exists, Atomic!Exists,
         Ledger!InitialStatus, Atomic!InitialStatus, Ledger!Transition,
         Atomic!Transition, Ledger!CanMove, Atomic!CanMove, Ledger!InScope,
         Atomic!InScope, Ledger!CanTransition, Atomic!CanTransition,
         Ledger!AllowedTransitions, Atomic!AllowedTransitions, Ledger!EventOf,
         Atomic!EventOf, Ledger!SaveProviderCharge, Atomic!SaveProviderCharge,
         Ledger!UpdateInstrument, Atomic!UpdateInstrument, Ledger!vars,
         Atomic!vars, Ledger!PaymentRow, Atomic!PaymentRow, Ledger!ChargeRow,
         Atomic!ChargeRow, Ledger!ChargeStatuses, Atomic!ChargeStatuses,
         Ledger!Statuses, Atomic!Statuses

------------------------------------------------------------------------------
(***************************************************************************)
(* Every step of the transactions is a step of the atomic ledger, or none. *)
(***************************************************************************)
LEMMA OtherIsAtomic ==
    ASSUME NEW p \in PaymentIds, OtherOperation(p)
    PROVE  Ledger!Next
  BY DEF OtherOperation, Ledger!Next

LEMMA QuietStatements ==
    ASSUME NEW t \in Callers,
           \/ SelectForUpdate(t) \/ NotFound(t) \/ Validate(t) \/ Reject(t)
           \/ SavePayment(t) \/ SaveEvent(t) \/ SaveOutbox(t) \/ Abort(t)
           \/ \E p \in PaymentIds, scope \in Stores \cup {AnyStore}, to \in Targets :
                  Call(t, p, scope, to)
    PROVE  UNCHANGED tables
  BY DEF SelectForUpdate, NotFound, Validate, Reject, SavePayment, SaveEvent, SaveOutbox,
         Abort, Call, tables

LEMMA StepIsAtomic == TxInv /\ [Next]_vars => [Ledger!Next]_Ledger!vars
  <1> SUFFICES ASSUME TxInv, [Next]_vars PROVE [Ledger!Next]_Ledger!vars
    OBVIOUS
  <1>1. ASSUME NEW t \in Callers, Commit(t) PROVE Ledger!Next
    <2>1. \E p \in PaymentIds, scope \in Stores \cup {AnyStore}, to \in Ledger!Statuses :
              Ledger!Transition(p, scope, to)
      BY <1>1, CommitIsTransition, SameStatuses
    <2> QED BY <2>1 DEF Ledger!Next
  <1>2. CASE UNCHANGED vars
    BY <1>2 DEF vars, Ledger!vars
  <1> QED
    BY <1>1, <1>2, QuietStatements, OtherIsAtomic
    DEF Next, Statement, tables, Ledger!vars

\* An atomic step keeps the rows there are, their stores, and all but one status.
LEMMA RowsAreKept ==
    ASSUME Ledger!TypeOK, [Ledger!Next]_Ledger!vars
    PROVE  /\ Ledger!TypeOK'
           /\ \A q \in DOMAIN payments : /\ q \in DOMAIN payments'
                                         /\ payments'[q].store = payments[q].store
  <1>1. Ledger!TypeOK'
    BY SameTypes, SameSteps, Atomic!NextTypeOK, LedgerConstants
  <1>2. ASSUME NEW p \in PaymentIds, NEW s \in Stores, NEW r \in Refs, Ledger!Create(p, s, r),
               NEW q \in DOMAIN payments
        PROVE  q \in DOMAIN payments' /\ payments'[q].store = payments[q].store
    BY <1>2 DEF Ledger!Create, Ledger!Exists
  <1>3. ASSUME NEW p \in PaymentIds, NEW scope, NEW to \in Ledger!Statuses,
               Ledger!Transition(p, scope, to), NEW q \in DOMAIN payments
        PROVE  q \in DOMAIN payments' /\ payments'[q].store = payments[q].store
    BY <1>3 DEF Ledger!Transition, Ledger!TypeOK, Ledger!PaymentRow
  <1>4. ASSUME NEW p \in PaymentIds, NEW s, NEW i, Ledger!UpdateInstrument(p, s, i),
               NEW q \in DOMAIN payments
        PROVE  q \in DOMAIN payments' /\ payments'[q].store = payments[q].store
    BY <1>4 DEF Ledger!UpdateInstrument, Ledger!TypeOK, Ledger!PaymentRow
  <1>5. ASSUME NEW p \in PaymentIds, NEW row, Ledger!SaveProviderCharge(p, row)
        PROVE  payments' = payments
    BY <1>5 DEF Ledger!SaveProviderCharge
  <1>6. ASSUME NEW q \in DOMAIN payments
        PROVE  q \in DOMAIN payments' /\ payments'[q].store = payments[q].store
    BY <1>2, <1>3, <1>4, <1>5 DEF Ledger!Next, Ledger!vars
  <1> QED BY <1>1, <1>6

\* What others commit leaves a transaction that holds its row as it was.
LEMMA HoldersUndisturbed ==
    ASSUME TxInv, [Ledger!Next]_Ledger!vars,
           \A t \in Callers : tx'[t] \in TxState,
           lock' \in [PaymentIds -> Callers \cup {NoTx}],
           DOMAIN tx' = Callers, tx' = [t \in Callers |-> tx'[t]],
           WritesInOrder',
           \A t \in Callers : tx'[t].pc \in Holding =>
               /\ tx'[t] = tx[t] /\ lock'[tx[t].p] = lock[tx[t].p]
               /\ payments'[tx[t].p].status = payments[tx[t].p].status
    PROVE  TxInv'
  <1>1. /\ Ledger!TypeOK'
        /\ \A q \in DOMAIN payments : /\ q \in DOMAIN payments'
                                      /\ payments'[q].store = payments[q].store
    BY RowsAreKept DEF TxInv, TypeOK
  <1>2. TypeOK'
    BY <1>1 DEF TypeOK
  <1>3. SeenIsCurrent'
    BY <1>1 DEF TxInv, SeenIsCurrent, Ledger!Exists
  <1>4. MoveIsAllowed'
    BY DEF TxInv, MoveIsAllowed, Validated, Holding
  <1>5. RowInScope'
    BY <1>1 DEF TxInv, RowInScope, Ledger!InScope, Ledger!Exists
  <1> QED BY <1>2, <1>3, <1>4, <1>5 DEF TxInv

LEMMA CommitStep == ASSUME TxInv, NEW t \in Callers, Commit(t) PROVE TxInv'
  <1>1. /\ tx[t] \in TxState /\ tx[t].pc \in Holding /\ tx[t].p \in DOMAIN payments
        /\ tx[t].p \in PaymentIds
    BY DEF TxInv, TypeOK, Commit, ReadyToCommit, Holding, SeenIsCurrent, Ledger!Exists,
           TxState
  <1>2. Ledger!Transition(tx[t].p, tx[t].scope, tx[t].to) /\ [Ledger!Next]_Ledger!vars
    <2>1. Ledger!Transition(tx[t].p, tx[t].scope, tx[t].to)
      BY CommitIsTransition
    <2>2. Next
      BY DEF Next, Statement
    <2> QED BY <2>1, <2>2, StepIsAtomic
  <1>3. \A u \in Callers : /\ tx'[u] \in TxState
                           /\ tx'[u] = IF u = t THEN [tx[t] EXCEPT !.pc = "idle", !.wrote = {}]
                                                ELSE tx[u]
    BY <1>1 DEF Commit, Finish, TxInv, TypeOK, TxState, Phases
  <1>4. tx'[t].pc = "idle" /\ tx'[t].wrote = {}
    BY <1>1, <1>3 DEF TxState
  <1>5. WritesInOrder'
    BY <1>3, <1>4 DEF TxInv, WritesInOrder, WroteAt
  <1>6. /\ lock' \in [PaymentIds -> Callers \cup {NoTx}]
        /\ \A p \in PaymentIds : lock[p] # t => lock'[p] = lock[p]
    BY DEF Commit, Finish, LocksAfter, TxInv, TypeOK
  <1>7. ASSUME NEW u \in Callers, tx'[u].pc \in Holding
        PROVE  /\ tx'[u] = tx[u] /\ lock'[tx[u].p] = lock[tx[u].p]
               /\ payments'[tx[u].p].status = payments[tx[u].p].status
    <2>1. u # t /\ tx'[u] = tx[u]
      BY <1>3, <1>4, <1>7 DEF Holding
    <2>2. tx[u].p \in PaymentIds /\ lock[tx[u].p] = u
      BY <1>3, <1>7, <2>1 DEF TxInv, SeenIsCurrent, TxState
    <2>3. tx[u].p # tx[t].p
      BY <1>1, <1>7, <2>1, RowHeldOnce DEF TxInv
    <2> QED
      BY <1>1, <1>2, <1>6, <2>1, <2>2, <2>3
      DEF Ledger!Transition, TxInv, TypeOK, Ledger!TypeOK
  <1>8. DOMAIN tx' = Callers /\ tx' = [u \in Callers |-> tx'[u]]
    BY DEF Commit, Finish, TxInv, TypeOK
  <1> QED
    BY <1>2, <1>3, <1>5, <1>6, <1>7, <1>8, HoldersUndisturbed

LEMMA OtherStep == ASSUME TxInv, NEW p \in PaymentIds, OtherOperation(p) PROVE TxInv'
  <1>1. [Ledger!Next]_Ledger!vars /\ UNCHANGED <<lock, tx>>
    BY OtherIsAtomic DEF OtherOperation
  <1>2. \A q \in DOMAIN payments : payments'[q].status = payments[q].status
    BY DEF OtherOperation, Ledger!Create, Ledger!Exists, Ledger!SaveProviderCharge,
           Ledger!UpdateInstrument, TxInv, TypeOK, Ledger!TypeOK, Ledger!PaymentRow
  <1>3. /\ \A t \in Callers : tx[t] \in TxState
        /\ DOMAIN tx = Callers /\ tx = [t \in Callers |-> tx[t]] /\ WritesInOrder
        /\ lock \in [PaymentIds -> Callers \cup {NoTx}]
        /\ \A t \in Callers : tx[t].pc \in Holding => tx[t].p \in DOMAIN payments
    BY DEF TxInv, TypeOK, SeenIsCurrent, Ledger!Exists
  <1>4. WritesInOrder'
    BY <1>1, <1>3 DEF WritesInOrder
  <1> QED
    BY <1>1, <1>2, <1>3, <1>4, HoldersUndisturbed

LEMMA NextTxInv == TxInv /\ [Next]_vars => TxInv'
  <1> SUFFICES ASSUME TxInv, [Next]_vars PROVE TxInv'
    OBVIOUS
  <1>1. ASSUME NEW t \in Callers, NEW p \in PaymentIds,
               NEW scope \in Stores \cup {AnyStore}, NEW to \in Targets, Call(t, p, scope, to)
        PROVE  TxInv'
    BY <1>1, CallStep
  <1>2. ASSUME NEW t \in Callers, NotFound(t) \/ Reject(t) \/ Abort(t) PROVE TxInv'
    <2>1. Finish(t) /\ UNCHANGED tables
      BY <1>2 DEF NotFound, Reject, Abort
    <2> QED BY <2>1, FinishStep
  <1>3. ASSUME NEW t \in Callers, Statement(t) PROVE TxInv'
    BY <1>2, <1>3, SelectStep, ValidateStep, SaveStep, CommitStep DEF Statement
  <1>4. ASSUME NEW p \in PaymentIds, OtherOperation(p) PROVE TxInv'
    BY <1>4, OtherStep
  <1>5. CASE UNCHANGED vars
    BY <1>5 DEF vars, TxInv, TypeOK, Ledger!TypeOK, SeenIsCurrent, Ledger!Exists,
                WritesInOrder, MoveIsAllowed, RowInScope, Ledger!InScope
  <1> QED
    BY <1>1, <1>2, <1>3, <1>4, <1>5 DEF Next

\* The tables, the row locks and the transactions keep their types.
THEOREM TxTypeCorrect == Spec => []TypeOK
  <1>1. TxInv => TypeOK
    BY DEF TxInv
  <1> QED BY <1>1, InitTxInv, NextTxInv, PTL DEF Spec

\* Between its SELECT ... FOR UPDATE and its end a transaction owns its row, so the
\* status it validated is the one it replaces: no check of transition() is stale.
THEOREM NoStaleCheck == Spec => []SeenIsCurrent
  <1>1. TxInv => SeenIsCurrent
    BY DEF TxInv
  <1> QED BY <1>1, InitTxInv, NextTxInv, PTL DEF Spec

\* transition() is atomic: concurrent transactions, their rollbacks and the other
\* operations implement the ledger of Payments.
THEOREM TransactionsAreAtomic == Spec => LedgerSpec
  <1>1. Init => Ledger!Init
    BY DEF Init
  <1> QED
    BY <1>1, InitTxInv, NextTxInv, StepIsAtomic, PTL DEF Spec, LedgerSpec, Ledger!Spec

------------------------------------------------------------------------------
(***************************************************************************)
(* The transactional outbox, an invariant of the atomic ledger.            *)
(***************************************************************************)
Announced(h) == [i \in 1 .. Len(h) |-> [store |-> h[i].store, type |-> h[i].to]]

\* One more event is announced by one more row.
LEMMA AnnouncedAppend ==
    ASSUME NEW h \in Seq(Ledger!EventRow), NEW e \in Ledger!EventRow
    PROVE  Announced(Append(h, e)) = Append(Announced(h), [store |-> e.store, type |-> e.to])
  <1> DEFINE g == Append(h, e)
             a == Announced(h)
             r == [store |-> e.store, type |-> e.to]
  <1>1. /\ Len(h) \in Nat /\ Len(g) = Len(h) + 1 /\ g[Len(g)] = e
        /\ \A i \in 1 .. Len(h) : g[i] = h[i]
    OBVIOUS
  <1>2. \A i \in 1 .. Len(h) : [store |-> h[i].store, type |-> h[i].to] \in Ledger!OutboxRow
    <2>1. \A i \in 1 .. Len(h) : h[i] \in Ledger!EventRow
      OBVIOUS
    <2> QED BY <2>1 DEF Ledger!EventRow, Ledger!OutboxRow
  <1>3. a \in Seq(Ledger!OutboxRow) /\ Len(a) = Len(h)
    BY <1>1, <1>2 DEF Announced
  <1>4. r \in Ledger!OutboxRow
    BY DEF Ledger!EventRow, Ledger!OutboxRow
  <1>5. /\ Append(a, r) \in Seq(Ledger!OutboxRow) /\ Len(Append(a, r)) = Len(g)
        /\ Append(a, r)[Len(g)] = r
        /\ \A i \in 1 .. Len(h) : Append(a, r)[i] = a[i]
    BY <1>1, <1>3, <1>4
  <1>6. Append(a, r) = [i \in 1 .. Len(g) |-> Append(a, r)[i]]
    BY <1>1, <1>5
  <1> HIDE DEF g, r
  <1>7. ASSUME NEW i \in 1 .. Len(g)
        PROVE  Append(a, r)[i] = [store |-> g[i].store, type |-> g[i].to]
    <2>1. CASE i = Len(g)
      BY <2>1, <1>1, <1>5 DEF r
    <2>2. CASE i # Len(g)
      <3>1. i \in 1 .. Len(h)
        BY <2>2, <1>1
      <3> QED BY <3>1, <1>1, <1>5 DEF Announced
    <2> QED BY <2>1, <2>2
  <1>8. Append(a, r) = Announced(g)
    BY <1>6, <1>7 DEF Announced
  <1> QED BY <1>8 DEF g, r

LEMMA NextOutbox ==
    ASSUME Ledger!TypeOK, OutboxMatchesEvents, [Ledger!Next]_Ledger!vars
    PROVE  OutboxMatchesEvents'
  <1>1. ASSUME NEW p \in PaymentIds, NEW scope, NEW to \in Ledger!Statuses,
               Ledger!Transition(p, scope, to)
        PROVE  OutboxMatchesEvents'
    <2> DEFINE e == Ledger!EventOf(p, to)
    <2>1. events[p] \in Seq(Ledger!EventRow) /\ e \in Ledger!EventRow
      BY <1>1
      DEF Ledger!TypeOK, Ledger!Transition, Ledger!CanMove, Ledger!InScope, Ledger!Exists,
          Ledger!EventOf, Ledger!EventRow, Ledger!PaymentRow
    <2>2. /\ e.store = payments[p].store /\ e.to = to
      BY DEF Ledger!EventOf
    <2> HIDE DEF e
    <2>3. /\ events'[p] = Append(events[p], e)
          /\ outbox'[p] = Append(outbox[p], [store |-> e.store, type |-> e.to])
          /\ \A q \in PaymentIds : q # p => events'[q] = events[q] /\ outbox'[q] = outbox[q]
      BY <1>1, <2>2 DEF Ledger!Transition, Ledger!TypeOK, e
    <2>4. outbox[p] = Announced(events[p])
      BY DEF OutboxMatchesEvents, Announced
    <2>5. outbox'[p] = Announced(events'[p])
      BY <2>1, <2>3, <2>4, AnnouncedAppend
    <2> QED
      BY <2>3, <2>5 DEF OutboxMatchesEvents, Announced
  <1>2. ASSUME UNCHANGED <<events, outbox>> PROVE OutboxMatchesEvents'
    BY <1>2 DEF OutboxMatchesEvents
  <1> QED
    BY <1>1, <1>2
    DEF Ledger!Next, Ledger!Create, Ledger!SaveProviderCharge, Ledger!UpdateInstrument,
        Ledger!vars

\* Each payment's outbox rows are its events, in their order: no committed transition
\* is lost to subscribers and none that was rolled back is announced.
THEOREM OutboxIsTransactional == Spec => []OutboxMatchesEvents
  <1>1. Init => OutboxMatchesEvents
    BY DEF Init, Ledger!Init, OutboxMatchesEvents
  <1>2. TxInv => Ledger!TypeOK
    BY DEF TxInv, TypeOK
  <1> QED
    BY <1>1, <1>2, InitTxInv, NextTxInv, StepIsAtomic, NextOutbox, PTL DEF Spec

\* The theorems of the atomic ledger hold of the concurrent transactions: histories
\* are legal paths, no status is entered twice and collected money stays collected.
THEOREM TransactionsKeepLedgerPromises ==
    Spec => /\ []Atomic!HistoryIsPath /\ []Atomic!StatusEnteredOnce
            /\ Atomic!CollectedIsKept
  <1>1. Ledger!Init => Atomic!Init
    BY DEF Ledger!Init, Atomic!Init
  <1>2. Ledger!Spec => Atomic!Spec
    BY <1>1, SameSteps, PTL DEF Ledger!Spec, Atomic!Spec
  <1> QED
    BY <1>2, TransactionsAreAtomic, LedgerConstants, Atomic!HistoryCorrect,
       Atomic!EachStatusOnce, Atomic!CollectedStays, PTL
    DEF LedgerSpec

==============================================================================
