------------------------------- MODULE Webhooks -------------------------------
(***************************************************************************)
(* WebhooksController: POST /webhooks/zoop and /webhooks/koin.  Both run   *)
(* transition() with the scope '*', swallow whatever it throws and answer  *)
(* {ok: true}, so a sender never learns that its message was dropped.      *)
(***************************************************************************)
EXTENDS PaymentStates, Sequences

CONSTANTS
    PaymentIds, Stores, Refs, FraudStores,
    AnyStore, NoProviderId, ProviderIds, MaxTxns, MaxCharges,
    Faults

VARIABLES
    payments, events, outbox, charges,
    zoop, hooks,
    koin, callbacks, notices,
    acked,  \* messages answered {ok: true} once: they may still come again
    todo    \* notifications a handleKoin call has left to send, per payment

ledger == <<payments, events, outbox, charges>>
koinVars == <<koin, callbacks, notices>>
vars == <<ledger, zoop, hooks, koinVars, acked, todo>>

Ledger == INSTANCE Payments
Provider == INSTANCE Zoop
Risk == INSTANCE Koin

TypeOK ==
    /\ acked \subseteq hooks \cup callbacks
    /\ todo \in [PaymentIds -> Seq(Risk!Kinds)]

Init ==
    /\ acked = {}
    /\ todo = [p \in PaymentIds |-> <<>>]

\* Mutants of the map: an authorization taken for a payment; an expired code
\* taken for a cancellation; the payment of a code not mapped to 'captured'.
Bug_AuthorizedIsCaptured(type) ==
    CASE type \in {"transaction.authorized", "transaction.paid"} -> "captured"
      [] type = "transaction.succeeded"    -> "captured"
      [] type = "transaction.failed"       -> "refused"
      [] type = "transaction.reversed"     -> "cancelled"
      [] type = "transaction.charged_back" -> "chargeback"
      [] type = "transaction.refunded"     -> "refunded"
      [] type = "transaction.expired"      -> "expired"
      [] type = "receivable.paid"          -> "settled"

Bug_ExpiredIsCancelled(type) ==
    CASE type = "transaction.authorized"   -> "authorized"
      [] type = "transaction.paid"         -> "captured"
      [] type = "transaction.succeeded"    -> "captured"
      [] type = "transaction.failed"       -> "refused"
      [] type = "transaction.reversed"     -> "cancelled"
      [] type = "transaction.charged_back" -> "chargeback"
      [] type = "transaction.refunded"     -> "refunded"
      [] type = "transaction.expired"      -> "cancelled"
      [] type = "receivable.paid"          -> "settled"

Bug_PaidIsAuthorized(type) ==
    CASE type = "transaction.authorized"   -> "authorized"
      [] type = "transaction.paid"         -> "authorized"
      [] type = "transaction.succeeded"    -> "captured"
      [] type = "transaction.failed"       -> "refused"
      [] type = "transaction.reversed"     -> "cancelled"
      [] type = "transaction.charged_back" -> "chargeback"
      [] type = "transaction.refunded"     -> "refunded"
      [] type = "transaction.expired"      -> "expired"
      [] type = "receivable.paid"          -> "settled"

\* ZOOP_STATUS_MAP
ZoopStatus(type) ==
    CASE type = "transaction.authorized"   -> "authorized"
      [] type = "transaction.paid"         -> "captured"
      [] type = "transaction.succeeded"    -> "captured"
      [] type = "transaction.failed"       -> "refused"
      [] type = "transaction.reversed"     -> "cancelled"
      [] type = "transaction.charged_back" -> "chargeback"
      [] type = "transaction.refunded"     -> "refunded"
      [] type = "transaction.expired"      -> "expired"
      [] type = "receivable.paid"          -> "settled"

KoinStatus(status) == IF status = "approved" THEN "approved_risk" ELSE "refused"

\* handleZoop.  The lookup of findByProviderEvent compares the whole stored body
\* with {id}, finds nothing and skips nothing: a redelivery runs transition too.
DeliverZoop(m) ==
    /\ m \in hooks
    /\ acked' = acked \cup {m}
    /\ IF Ledger!CanMove(m.ref, AnyStore, ZoopStatus(m.type))
       THEN Ledger!Transition(m.ref, AnyStore, ZoopStatus(m.type))
       ELSE UNCHANGED ledger
    /\ UNCHANGED <<zoop, hooks, koinVars, todo>>

\* handleKoin; a denial that moved the payment leaves two notices to send.
DeliverKoin(c) ==
    LET to == KoinStatus(c.status) IN
    /\ c \in callbacks
    /\ acked' = acked \cup {c}
    /\ IF Ledger!CanMove(c.ref, AnyStore, to)
       THEN /\ Ledger!Transition(c.ref, AnyStore, to)
            /\ todo' = IF c.status = "denied"
                       THEN [todo EXCEPT ![c.ref] = <<"not_collected", "cancelled">>]
                       ELSE todo
       ELSE UNCHANGED <<ledger, todo>>
    /\ UNCHANGED <<zoop, hooks, koinVars>>

NotifyDenial(p) ==
    /\ todo[p] # <<>>
    /\ Risk!Notify(p, payments[p].store, Head(todo[p]))
    /\ todo' = [todo EXCEPT ![p] = Tail(@)]
    /\ UNCHANGED <<ledger, zoop, hooks, acked>>

\* transition() or the rest of the handler fails: the error is swallowed and the
\* message answered.
Swallow(m) ==
    /\ Faults
    /\ m \in hooks \cup callbacks
    /\ acked' = acked \cup {m}
    /\ UNCHANGED <<ledger, zoop, hooks, koinVars, todo>>

Next ==
    \/ \E m \in hooks : DeliverZoop(m)
    \/ \E c \in callbacks : DeliverKoin(c)
    \/ \E p \in PaymentIds : NotifyDenial(p)
    \/ \E m \in hooks \cup callbacks : Swallow(m)

==============================================================================
