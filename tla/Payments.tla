------------------------------- MODULE Payments -------------------------------
(***************************************************************************)
(* The payment ledger promised by payments/payments.service.ts: the tables *)
(* payments, payment_events, outbox_events and provider_charges, and the   *)
(* operations of PaymentsService on them, each as one atomic step.  That   *)
(* transition() really is atomic is not assumed: PaymentsTx.tla models its *)
(* SQL transaction statement by statement and implements this module.      *)
(***************************************************************************)
EXTENDS PaymentStates, Sequences

CONSTANTS
    PaymentIds,   \* what generateId('pay') can return
    Stores,       \* store ids
    Refs,         \* external_ref of an order: the idempotency key of its request
    AnyStore,     \* the scope '*' of a provider webhook
    ProviderIds,  \* transaction ids given by Zoop
    NoProviderId, \* provider_id NULL: the charge attempt threw
    MaxCharges    \* bound: provider_charges rows kept per payment

ASSUME AnyStoreIsNoStore == AnyStore \notin Stores
ASSUME NoProviderIdIsNull == NoProviderId \notin ProviderIds
ASSUME MaxChargesIsBound == MaxCharges \in Nat

VARIABLES
    payments,  \* table payments: partial function from ids to rows
    events,    \* table payment_events, per payment, in order of insertion
    outbox,    \* table outbox_events, per aggregate_id, in order of insertion
    charges    \* table provider_charges, per payment, ordered by created_at

vars == <<payments, events, outbox, charges>>

Instruments == {"none", "pix", "boleto"}  \* pix_qr_code / boleto_url set or NULL

PaymentRow == [store: Stores, ref: Refs, status: Statuses, instrument: Instruments]

EventRow == [store: Stores, from: Statuses, to: Statuses]

\* published_at belongs to the outbox relay; transition() always writes NULL.
OutboxRow == [store: Stores, type: Statuses]

ChargeStatuses == {"authorized", "captured", "waiting_payment", "failed",
                   "reversed", "unknown"}

ChargeRow == [providerId: ProviderIds \cup {NoProviderId}, status: ChargeStatuses]

TypeOK ==
    /\ DOMAIN payments \subseteq PaymentIds
    /\ payments \in [DOMAIN payments -> PaymentRow]
    /\ events \in [PaymentIds -> Seq(EventRow)]
    /\ outbox \in [PaymentIds -> Seq(OutboxRow)]
    /\ charges \in [PaymentIds -> Seq(ChargeRow)]

Init ==
    /\ payments = [p \in {} |-> {}]
    /\ events = [p \in PaymentIds |-> <<>>]
    /\ outbox = [p \in PaymentIds |-> <<>>]
    /\ charges = [p \in PaymentIds |-> <<>>]

------------------------------------------------------------------------------
(***************************************************************************)
(* Reads.                                                                  *)
(***************************************************************************)
Exists(p) == p \in DOMAIN payments

\* findByExternalRef: the payments stored for an order of a store.
FindByExternalRef(s, r) ==
    {p \in DOMAIN payments : payments[p].store = s /\ payments[p].ref = r}

\* findById, and the WHERE clause of transition(): scope '*' skips the store.
InScope(p, scope) == Exists(p) /\ (scope = AnyStore \/ payments[p].store = scope)

------------------------------------------------------------------------------
(***************************************************************************)
(* Operations.                                                             *)
(***************************************************************************)

\* A mutant: the unique constraint is missing.
Bug_NoUniqueRef(s, r) == TRUE

\* The insert of create() succeeds: UNIQUE (store_id, external_ref).
CanCreate(s, r) == FindByExternalRef(s, r) = {}

\* A mutant: a status the machine does not know.
Bug_PendingStatus == "pending"

InitialStatus == "created"

\* create(): a fresh id, status 'created'.
Create(p, s, r) ==
    /\ ~Exists(p)
    /\ CanCreate(s, r)
    /\ payments' = [q \in DOMAIN payments \cup {p} |->
                       IF q = p
                       THEN [store |-> s, ref |-> r, status |-> InitialStatus,
                             instrument |-> "none"]
                       ELSE payments[q]]
    /\ UNCHANGED <<events, outbox, charges>>

\* transition() does not throw: the row is found and the move is allowed.
CanMove(p, scope, to) ==
    InScope(p, scope) /\ CanTransition(payments[p].status, to)

\* A mutant: the old status is read after it was overwritten.
Bug_FromAfterSave(p, to) ==
    [store |-> payments[p].store, from |-> to, to |-> to]

EventOf(p, to) ==
    [store |-> payments[p].store, from |-> payments[p].status, to |-> to]

\* transition(): status, event and outbox row together, all stamped with the
\* payment's own store whatever the scope was.
Transition(p, scope, to) ==
    /\ CanMove(p, scope, to)
    /\ payments' = [payments EXCEPT ![p].status = to]
    /\ events' = [events EXCEPT ![p] =
                     Append(@, EventOf(p, to))]
    /\ outbox' = [outbox EXCEPT ![p] =
                     Append(@, [store |-> payments[p].store, type |-> to])]
    /\ UNCHANGED charges

\* saveProviderCharge(): a plain insert, no constraint but the foreign key.
SaveProviderCharge(p, row) ==
    /\ Exists(p)
    /\ charges' = [charges EXCEPT ![p] = Append(@, row)]
    /\ UNCHANGED <<payments, events, outbox>>

\* updatePaymentPixData() and updatePaymentBoletoData()
UpdateInstrument(p, s, i) ==
    /\ InScope(p, s)
    /\ payments' = [payments EXCEPT ![p].instrument = i]
    /\ UNCHANGED <<events, outbox, charges>>

Next ==
    \E p \in PaymentIds :
        \/ \E s \in Stores, r \in Refs : Create(p, s, r)
        \/ \E scope \in Stores \cup {AnyStore}, to \in Statuses :
               Transition(p, scope, to)
        \/ /\ Len(charges[p]) < MaxCharges
           /\ \E row \in ChargeRow : SaveProviderCharge(p, row)
        \/ \E s \in Stores, i \in {"pix", "boleto"} : UpdateInstrument(p, s, i)

Spec == Init /\ [][Next]_vars

------------------------------------------------------------------------------
(***************************************************************************)
(* What the ledger promises.                                               *)
(***************************************************************************)

\* payment_events is the exact history of a payment: the first event leaves
\* 'created', each later one starts where the one before ended, every one is a
\* transition the table allows, and the last one ends in the stored status.
PathOf(h, s) ==
    /\ h = <<>> => s = "created"
    /\ h # <<>> => h[1].from = "created" /\ h[Len(h)].to = s
    /\ \A i \in 1 .. Len(h) : CanTransition(h[i].from, h[i].to)
    /\ \A i \in 1 .. Len(h) - 1 : h[i].to = h[i + 1].from

HistoryIsPath == \A p \in DOMAIN payments : PathOf(events[p], payments[p].status)

\* No status is ever entered twice by a payment, whatever callers, retries and
\* webhooks ask of transition(): a payment is captured, refunded... at most once.
StatusEnteredOnce ==
    \A p \in DOMAIN payments : \A i, j \in 1 .. Len(events[p]) :
        i < j => events[p][i].to # events[p][j].to

\* The constraint of CanCreate as an invariant, which the proofs of the gateways use:
\* two rows of payments never share a store and an order.
OnePaymentPerOrder ==
    \A p, q \in DOMAIN payments :
        payments[p].store = payments[q].store /\ payments[p].ref = payments[q].ref
            => p = q

\* Once the ledger says the buyer's money was collected it never says the
\* contrary: no step takes the payment back to a status without money.
CollectedStep ==
    \A p \in DOMAIN payments :
        payments[p].status \in Collected =>
            /\ p \in DOMAIN payments'
            /\ payments'[p].status \in Collected

CollectedIsKept == [][CollectedStep]_vars

==============================================================================
