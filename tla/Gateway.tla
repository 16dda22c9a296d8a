------------------------------- MODULE Gateway -------------------------------
(***************************************************************************)
(* The gateway at work: the payment handler, the shop's operations and the *)
(* webhooks of Zoop and Koin, on one database, with Zoop, Koin and the     *)
(* buyers acting by themselves.  The components are instances; this module *)
(* only says what each leaves alone and what the system promises.          *)
(***************************************************************************)
EXTENDS PaymentStates, Sequences, FiniteSets

CONSTANTS
    Requests, Ops,
    Stores, Refs, Hashes, FraudStores, FakeStores,
    AnyStore, NoProviderId, NoResponse,
    MaxTxns,
    Workloads,  \* what shops may send in one behaviour
    Faults

VARIABLES
    payments, events, outbox, charges, keys, zoop, hooks, fake, koin,
    callbacks, notices, wake, ops, acked, todo

ledger == <<payments, events, outbox, charges>>
providerVars == <<zoop, hooks, fake>>
koinVars == <<koin, callbacks, notices>>
vars == <<payments, events, outbox, charges, keys, zoop, hooks, fake, koin,
          callbacks, notices, wake, ops, acked, todo>>

PaymentIds == Requests
ProviderIds == PaymentIds \X (1 .. MaxTxns)
MaxCharges == 1

Wake == INSTANCE WakePayment
Shop == INSTANCE WakeOperations
Hooks == INSTANCE Webhooks
Ledger == INSTANCE Payments
Provider == INSTANCE Providers
Risk == INSTANCE Koin
Keys == INSTANCE Idempotency WITH Responses <- Wake!Response

ASSUME FraudStoresAreStores == FraudStores \subseteq Stores /\ FakeStores \subseteq Stores
ASSUME WorkloadsAreSent ==
    \A w \in Workloads :
        /\ DOMAIN w.requests \subseteq Requests
        /\ w.requests \in [DOMAIN w.requests -> Wake!Body]
        /\ DOMAIN w.ops \subseteq Ops
        /\ w.ops \in [DOMAIN w.ops -> Shop!OpKinds]
ASSUME NoResponseIsNull == NoResponse \notin Wake!Response
ASSUME LedgerConstants ==
    AnyStore \notin Stores /\ NoProviderId \notin ProviderIds /\ MaxTxns \in Nat
ASSUME ThereAreBodies == Wake!Body # {} /\ PaymentIds # {}

TypeOK ==
    /\ Ledger!TypeOK /\ Provider!BothTypeOK /\ Risk!TypeOK /\ Keys!TypeOK
    /\ Wake!TypeOK /\ Shop!TypeOK /\ Hooks!TypeOK

Init ==
    /\ Ledger!Init /\ Provider!BothInit /\ Risk!Init /\ Keys!Init /\ Hooks!Init
    /\ \E w \in Workloads : Wake!Init(w.requests) /\ Shop!Init(w.ops)

\* The requests of the order a payment is for.
RequestsOf(p) == {r \in Requests : /\ ~Wake!At(r, "unsent")
                                   /\ Wake!StoreOf(r) = payments[p].store
                                   /\ Wake!RefOf(r) = payments[p].ref}

Answered(r) == wake[r].pc = "done"

\* The payments the shop knows: a transacao in an answer it got.
Told == {p \in DOMAIN payments : \E r \in RequestsOf(p) : Answered(r)}

\* The buyer has the pix or boleto code: it was in an answer to the shop.
Shown(id) == \E r \in RequestsOf(id[1]) :
                Answered(r) /\ wake[r].resp.instrument # "none"

ZoopMoves(id) ==
    /\ \/ Shown(id) /\ Provider!BuyerPays(id)
       \/ Provider!CodeExpires(id)
       \/ Provider!CardDecided(id)
       \/ Provider!AuthorizationLapses(id)
       \/ Provider!PaidOut(id)
       \/ Provider!ChargedBack(id)
    /\ UNCHANGED <<ledger, keys, fake, koinVars, wake, ops, acked, todo>>

KoinMoves(p) ==
    /\ \E d \in {"approved", "denied"} : Risk!Decide(p, d)
    /\ UNCHANGED <<ledger, keys, providerVars, wake, ops, acked, todo>>

WakeStep(r) == Wake!Step(r) /\ UNCHANGED <<ops, acked, todo>>

Next ==
    \/ Wake!Next /\ UNCHANGED <<ops, acked, todo>>
    \/ Shop!Next(Told) /\ UNCHANGED <<keys, wake, acked, todo>>
    \/ Hooks!Next /\ UNCHANGED <<keys, fake, wake, ops>>
    \/ \E id \in Provider!Txns : ZoopMoves(id)
    \/ \E p \in PaymentIds : KoinMoves(p)

Spec == Init /\ [][Next]_vars

==============================================================================
