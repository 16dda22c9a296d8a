---------------------------- MODULE PaymentsProofs ----------------------------
(***************************************************************************)
(* Theorems about the ledger, for any number of payments, stores, orders.  *)
(***************************************************************************)
EXTENDS Payments, TLAPS

\* The table of allowed-transitions.ts is acyclic: the rank grows on each edge.
LEMMA RankGrows ==
    ASSUME NEW from \in Statuses, NEW to \in Statuses, CanTransition(from, to)
    PROVE  Rank[from] \in Nat /\ Rank[to] \in Nat /\ Rank[from] < Rank[to]
  BY DEF CanTransition, AllowedTransitions, Rank, Statuses

LEMMA RankIsNat == \A s \in Statuses : Rank[s] \in Nat
  BY DEF Rank, Statuses

\* What collected money can become.
LEMMA CollectedClosed ==
    ASSUME NEW from \in Collected, NEW to \in Statuses, CanTransition(from, to)
    PROVE  to \in Collected
  BY DEF CanTransition, AllowedTransitions, Collected, Statuses

------------------------------------------------------------------------------
(***************************************************************************)
(* Type correctness.                                                       *)
(***************************************************************************)
LEMMA InitTypeOK == Init => TypeOK
  BY DEF Init, TypeOK

LEMMA CreateTypeOK ==
    ASSUME TypeOK, NEW p \in PaymentIds, NEW s \in Stores, NEW r \in Refs,
           Create(p, s, r)
    PROVE  TypeOK'
  BY DEF TypeOK, Create, InitialStatus, PaymentRow, Instruments, Statuses

LEMMA TransitionTypeOK ==
    ASSUME TypeOK, NEW p \in PaymentIds, NEW scope, NEW to \in Statuses,
           Transition(p, scope, to)
    PROVE  TypeOK'
  <1>1. p \in DOMAIN payments /\ payments[p] \in PaymentRow
    BY DEF Transition, CanMove, InScope, Exists, TypeOK
  <1>2. /\ DOMAIN payments' = DOMAIN payments
        /\ payments' \in [DOMAIN payments' -> PaymentRow]
    BY <1>1 DEF Transition, TypeOK, PaymentRow
  <1>3. [store |-> payments[p].store, from |-> payments[p].status, to |-> to] \in EventRow
    BY <1>1 DEF EventRow, PaymentRow
  <1>4. events' \in [PaymentIds -> Seq(EventRow)]
    BY <1>3 DEF Transition, EventOf, TypeOK
  <1>5. [store |-> payments[p].store, type |-> to] \in OutboxRow
    BY <1>1 DEF OutboxRow, PaymentRow
  <1>6. outbox' \in [PaymentIds -> Seq(OutboxRow)]
    BY <1>5 DEF Transition, TypeOK
  <1>7. QED
    BY <1>2, <1>4, <1>6 DEF Transition, TypeOK

LEMMA NextTypeOK == TypeOK /\ [Next]_vars => TypeOK'
  <1> SUFFICES ASSUME TypeOK, [Next]_vars PROVE TypeOK'
    OBVIOUS
  <1>1. ASSUME NEW p \in PaymentIds, NEW s \in Stores, NEW r \in Refs, Create(p, s, r)
        PROVE  TypeOK'
    BY <1>1, CreateTypeOK
  <1>2. ASSUME NEW p \in PaymentIds, NEW scope \in Stores \cup {AnyStore},
               NEW to \in Statuses, Transition(p, scope, to)
        PROVE  TypeOK'
    BY <1>2, TransitionTypeOK
  <1>3. ASSUME NEW p \in PaymentIds, NEW row \in ChargeRow, SaveProviderCharge(p, row)
        PROVE  TypeOK'
    BY <1>3 DEF TypeOK, SaveProviderCharge
  <1>4. ASSUME NEW p \in PaymentIds, NEW s \in Stores, NEW i \in {"pix", "boleto"},
               UpdateInstrument(p, s, i)
        PROVE  TypeOK'
    BY <1>4 DEF TypeOK, UpdateInstrument, InScope, Exists, PaymentRow, Instruments
  <1>5. CASE UNCHANGED vars
    BY <1>5 DEF TypeOK, vars
  <1>6. QED
    BY <1>1, <1>2, <1>3, <1>4, <1>5 DEF Next

\* Every reachable state of the tables is well typed.
THEOREM TypeCorrect == Spec => []TypeOK
  BY InitTypeOK, NextTypeOK, PTL DEF Spec

------------------------------------------------------------------------------
(***************************************************************************)
(* The history of a payment.  HistoryIsPath alone is not inductive: a new  *)
(* payment must find no event under its id.  The ranks along the path      *)
(* carry StatusEnteredOnce.                                                *)
(***************************************************************************)
NoOrphanEvents == \A p \in PaymentIds \ DOMAIN payments : events[p] = <<>>

RanksGrow ==
    \A p \in DOMAIN payments :
        /\ \A i \in 1 .. Len(events[p]) :
               Rank[events[p][i].to] <= Rank[payments[p].status]
        /\ \A i, j \in 1 .. Len(events[p]) :
               i < j => Rank[events[p][i].to] < Rank[events[p][j].to]

HistoryInv == TypeOK /\ NoOrphanEvents /\ HistoryIsPath /\ RanksGrow

\* One more allowed move keeps a history a path.
LEMMA PathExtends ==
    ASSUME NEW h \in Seq(EventRow), NEW e \in EventRow,
           PathOf(h, e.from), CanTransition(e.from, e.to)
    PROVE  PathOf(Append(h, e), e.to)
  <1> DEFINE g == Append(h, e)
  <1>1. /\ Len(g) = Len(h) + 1 /\ Len(h) \in Nat /\ g # <<>>
        /\ \A i \in 1 .. Len(h) : g[i] = h[i]
        /\ g[Len(g)] = e
    OBVIOUS
  <1> HIDE DEF g
  <1>2. g[1].from = "created"
    <2>1. CASE h = <<>>
      BY <2>1, <1>1 DEF PathOf
    <2>2. CASE h # <<>>
      <3>1. 1 \in 1 .. Len(h)
        BY <2>2
      <3>2. QED
        BY <2>2, <3>1, <1>1 DEF PathOf
    <2>3. QED
      BY <2>1, <2>2
  <1>3. \A i \in 1 .. Len(g) : CanTransition(g[i].from, g[i].to)
    BY <1>1 DEF PathOf
  <1>4. \A i \in 1 .. Len(g) - 1 : g[i].to = g[i + 1].from
    <2> SUFFICES ASSUME NEW i \in 1 .. Len(g) - 1
                 PROVE  g[i].to = g[i + 1].from
      OBVIOUS
    <2>1. CASE i = Len(h)
      <3>1. h # <<>> /\ g[i] = h[Len(h)] /\ g[i + 1] = e
        BY <2>1, <1>1
      <3>2. QED
        BY <3>1 DEF PathOf
    <2>2. CASE i # Len(h)
      <3>1. i \in 1 .. Len(h) - 1 /\ i \in 1 .. Len(h) /\ i + 1 \in 1 .. Len(h)
        BY <2>2, <1>1
      <3>2. QED
        BY <3>1, <1>1 DEF PathOf
    <2>3. QED
      BY <2>1, <2>2
  <1>5. QED
    BY <1>1, <1>2, <1>3, <1>4 DEF PathOf, g

LEMMA InitHistory == Init => HistoryInv
  <1> SUFFICES ASSUME Init PROVE HistoryInv
    OBVIOUS
  <1>1. DOMAIN payments = {}
    BY DEF Init
  <1>2. QED
    BY <1>1, InitTypeOK DEF Init, HistoryInv, NoOrphanEvents, HistoryIsPath, RanksGrow

LEMMA CreateHistory ==
    ASSUME HistoryInv, NEW p \in PaymentIds, NEW s \in Stores, NEW r \in Refs,
           Create(p, s, r)
    PROVE  HistoryInv'
  <1>1. TypeOK'
    BY CreateTypeOK DEF HistoryInv
  <1>2. /\ DOMAIN payments' = DOMAIN payments \cup {p}
        /\ payments'[p].status = "created" /\ events[p] = <<>>
        /\ p \notin DOMAIN payments
        /\ \A q \in DOMAIN payments : payments'[q] = payments[q]
        /\ events' = events
    BY DEF Create, InitialStatus, HistoryInv, NoOrphanEvents, Exists
  <1>3. NoOrphanEvents'
    BY <1>2 DEF HistoryInv, NoOrphanEvents
  <1>4. HistoryIsPath'
    <2> SUFFICES ASSUME NEW q \in DOMAIN payments'
                 PROVE  PathOf(events'[q], payments'[q].status)
      BY DEF HistoryIsPath
    <2>1. CASE q = p
      BY <2>1, <1>2 DEF PathOf
    <2>2. CASE q # p
      BY <2>2, <1>2 DEF HistoryInv, HistoryIsPath
    <2>3. QED
      BY <2>1, <2>2
  <1>5. RanksGrow'
    BY <1>2 DEF HistoryInv, RanksGrow
  <1>6. QED
    BY <1>1, <1>3, <1>4, <1>5 DEF HistoryInv

LEMMA TransitionHistory ==
    ASSUME HistoryInv, NEW p \in PaymentIds, NEW scope, NEW to \in Statuses,
           Transition(p, scope, to)
    PROVE  HistoryInv'
  <1> DEFINE from == payments[p].status
             e == [store |-> payments[p].store, from |-> from, to |-> to]
             h == events[p]
  <1>1. TypeOK'
    BY TransitionTypeOK DEF HistoryInv
  <1>2. /\ p \in DOMAIN payments /\ payments[p] \in PaymentRow
        /\ from \in Statuses /\ e \in EventRow /\ CanTransition(from, to)
        /\ h \in Seq(EventRow)
    BY DEF HistoryInv, TypeOK, Transition, CanMove, InScope, Exists, PaymentRow, EventRow
  <1>3. /\ DOMAIN payments' = DOMAIN payments
        /\ payments'[p].status = to /\ events'[p] = Append(h, e)
        /\ \A q \in PaymentIds : q # p => events'[q] = events[q]
        /\ \A q \in DOMAIN payments : q # p => payments'[q] = payments[q]
    BY <1>2 DEF HistoryInv, TypeOK, Transition, EventOf, PaymentRow
  <1> HIDE DEF e, h, from
  <1>4. NoOrphanEvents'
    BY <1>2, <1>3 DEF HistoryInv, NoOrphanEvents
  <1>5. HistoryIsPath'
    <2>1. PathOf(Append(h, e), to)
      <3>1. e.from = from /\ e.to = to
        BY DEF e
      <3>2. PathOf(h, e.from)
        BY <3>1, <1>2 DEF HistoryInv, HistoryIsPath, h, from
      <3>3. QED
        BY <3>1, <3>2, <1>2, PathExtends
    <2>2. QED
      BY <2>1, <1>2, <1>3 DEF HistoryInv, HistoryIsPath, TypeOK
  <1>6. RanksGrow'
    <2>1. /\ Rank[from] < Rank[to] /\ Rank[from] \in Nat /\ Rank[to] \in Nat
          /\ e.to = to
      BY <1>2, RankGrows DEF e
    <2>2. \A i \in 1 .. Len(h) : h[i] \in EventRow /\ Rank[h[i].to] \in Nat
                                 /\ Rank[h[i].to] <= Rank[from]
      <3>1. \A i \in 1 .. Len(h) : h[i] \in EventRow
        BY <1>2
      <3>2. \A i \in 1 .. Len(h) : Rank[h[i].to] \in Nat
        BY <3>1, RankIsNat DEF EventRow
      <3>3. \A i \in 1 .. Len(h) : Rank[h[i].to] <= Rank[from]
        BY <1>2 DEF HistoryInv, RanksGrow, h, from
      <3>4. QED
        BY <3>1, <3>2, <3>3
    <2>3. \A i, j \in 1 .. Len(h) : i < j => Rank[h[i].to] < Rank[h[j].to]
      BY <1>2 DEF HistoryInv, RanksGrow, h
    <2>4. \A i \in 1 .. Len(Append(h, e)) : Rank[Append(h, e)[i].to] <= Rank[to]
      BY <1>2, <2>1, <2>2
    <2>5. \A i, j \in 1 .. Len(Append(h, e)) :
              i < j => Rank[Append(h, e)[i].to] < Rank[Append(h, e)[j].to]
      BY <1>2, <2>1, <2>2, <2>3
    <2>6. QED
      BY <2>4, <2>5, <1>2, <1>3 DEF HistoryInv, RanksGrow, TypeOK
  <1>7. QED
    BY <1>1, <1>4, <1>5, <1>6 DEF HistoryInv

LEMMA InstrumentKeepsRows ==
    ASSUME TypeOK, NEW p \in PaymentIds, NEW s, NEW i, UpdateInstrument(p, s, i)
    PROVE  /\ DOMAIN payments' = DOMAIN payments
           /\ \A q \in DOMAIN payments :
                  /\ payments'[q].status = payments[q].status
                  /\ payments'[q].store = payments[q].store
                  /\ payments'[q].ref = payments[q].ref
  BY DEF TypeOK, UpdateInstrument, InScope, Exists, PaymentRow

LEMMA NextHistory == HistoryInv /\ [Next]_vars => HistoryInv'
  <1> SUFFICES ASSUME HistoryInv, [Next]_vars PROVE HistoryInv'
    OBVIOUS
  <1>t. TypeOK'
    BY NextTypeOK DEF HistoryInv
  <1>1. ASSUME NEW p \in PaymentIds, NEW s \in Stores, NEW r \in Refs, Create(p, s, r)
        PROVE  HistoryInv'
    BY <1>1, CreateHistory
  <1>2. ASSUME NEW p \in PaymentIds, NEW scope \in Stores \cup {AnyStore},
               NEW to \in Statuses, Transition(p, scope, to)
        PROVE  HistoryInv'
    BY <1>2, TransitionHistory
  <1>3. ASSUME NEW p \in PaymentIds, NEW row \in ChargeRow, SaveProviderCharge(p, row)
        PROVE  HistoryInv'
    BY <1>3, <1>t DEF HistoryInv, NoOrphanEvents, HistoryIsPath, RanksGrow,
                      SaveProviderCharge
  <1>4. ASSUME NEW p \in PaymentIds, NEW s \in Stores, NEW i \in {"pix", "boleto"},
               UpdateInstrument(p, s, i)
        PROVE  HistoryInv'
    <2>1. /\ DOMAIN payments' = DOMAIN payments
          /\ \A q \in DOMAIN payments : payments'[q].status = payments[q].status
          /\ events' = events
      BY <1>4, InstrumentKeepsRows DEF HistoryInv, UpdateInstrument
    <2>2. QED
      BY <2>1, <1>t DEF HistoryInv, NoOrphanEvents, HistoryIsPath, RanksGrow
  <1>5. CASE UNCHANGED vars
    BY <1>5, <1>t DEF HistoryInv, NoOrphanEvents, HistoryIsPath, RanksGrow, vars
  <1>6. QED
    BY <1>1, <1>2, <1>3, <1>4, <1>5 DEF Next

\* payment_events is an exact, legal history of every payment's status, whatever
\* calls are made and in whatever order.
THEOREM HistoryCorrect == Spec => []HistoryIsPath
  <1>1. HistoryInv => HistoryIsPath
    BY DEF HistoryInv
  <1>2. QED
    BY <1>1, InitHistory, NextHistory, PTL DEF Spec

\* No payment is captured, refunded, refused... twice.
THEOREM EachStatusOnce == Spec => []StatusEnteredOnce
  <1>1. HistoryInv => StatusEnteredOnce
    <2> SUFFICES ASSUME HistoryInv, NEW p \in DOMAIN payments,
                        NEW i \in 1 .. Len(events[p]), NEW j \in 1 .. Len(events[p]),
                        i < j
                 PROVE  events[p][i].to # events[p][j].to
      BY DEF StatusEnteredOnce
    <2>1. Rank[events[p][i].to] < Rank[events[p][j].to]
      BY DEF HistoryInv, RanksGrow
    <2>2. events[p] \in Seq(EventRow)
      BY DEF HistoryInv, TypeOK
    <2>3. events[p][i] \in EventRow /\ events[p][j] \in EventRow
      BY <2>2
    <2>4. Rank[events[p][i].to] \in Nat /\ Rank[events[p][j].to] \in Nat
      BY <2>3, RankIsNat DEF EventRow
    <2>5. QED
      BY <2>1, <2>4
  <1>2. QED
    BY <1>1, InitHistory, NextHistory, PTL DEF Spec

------------------------------------------------------------------------------
(***************************************************************************)
(* Money.                                                                  *)
(***************************************************************************)
\* A step keeps every row, and its status or a move of the table.
LEMMA RowsStayOrMove ==
    ASSUME TypeOK, [Next]_vars, NEW q \in DOMAIN payments
    PROVE  /\ q \in DOMAIN payments'
           /\ \/ payments'[q].status = payments[q].status
              \/ /\ payments'[q].status \in Statuses
                 /\ CanTransition(payments[q].status, payments'[q].status)
  <1> DEFINE Kept  == q \in DOMAIN payments' /\ payments'[q].status = payments[q].status
             Moved == /\ q \in DOMAIN payments' /\ payments'[q].status \in Statuses
                      /\ CanTransition(payments[q].status, payments'[q].status)
  <1>1. UNCHANGED payments => Kept
    OBVIOUS
  <1>2. ASSUME NEW p \in PaymentIds, NEW s \in Stores, NEW r \in Refs, Create(p, s, r)
        PROVE  Kept
    BY <1>2 DEF Create, Exists
  <1>3. ASSUME NEW p \in PaymentIds, NEW s \in Stores, NEW i \in {"pix", "boleto"},
               UpdateInstrument(p, s, i)
        PROVE  Kept
    BY <1>3, InstrumentKeepsRows
  <1>4. ASSUME NEW p \in PaymentIds, NEW scope \in Stores \cup {AnyStore},
               NEW to \in Statuses, Transition(p, scope, to)
        PROVE  Kept \/ Moved
    <2>1. p = q => Moved
      BY <1>4 DEF Transition, CanMove, TypeOK, PaymentRow
    <2>2. p # q => Kept
      BY <1>4 DEF Transition, TypeOK, PaymentRow
    <2>3. QED
      BY <2>1, <2>2
  <1>5. ASSUME NEW p \in PaymentIds, NEW row \in ChargeRow, SaveProviderCharge(p, row)
        PROVE  UNCHANGED payments
    BY <1>5 DEF SaveProviderCharge
  <1>6. Kept \/ Moved
    BY <1>1, <1>2, <1>3, <1>4, <1>5 DEF Next, vars
  <1>7. QED
    BY <1>6

\* A step never takes a payment whose money was collected out of Collected.
THEOREM CollectedStays == Spec => CollectedIsKept
  <1>1. TypeOK /\ [Next]_vars => CollectedStep
    <2> SUFFICES ASSUME TypeOK, [Next]_vars, NEW q \in DOMAIN payments,
                        payments[q].status \in Collected
                 PROVE  q \in DOMAIN payments' /\ payments'[q].status \in Collected
      BY DEF CollectedStep
    <2>1. QED
      BY RowsStayOrMove, CollectedClosed
  <1>2. QED
    BY <1>1, TypeCorrect, PTL DEF Spec, CollectedIsKept

==============================================================================
