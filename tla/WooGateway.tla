------------------------------ MODULE WooGateway ------------------------------
(***************************************************************************)
(* WooCommerce payments at work: the handler, the provisioning of stores,  *)
(* Zoop acting by itself and its webhooks, on one database.  What such     *)
(* payments promise beside what all payments do (Gateway).                 *)
(***************************************************************************)
EXTENDS PaymentStates, Sequences

CONSTANTS
    Requests, OldStore, Orders, Hashes, FraudStores,
    Names, Slugs, Slugify(_), NoSlug, Sellers, KnownSellers, FakeSeller, NoSeller,
    DisplayName(_), LongName(_), None,
    AnyStore, NoProviderId, MaxTxns, NoResponse,
    Workloads,  \* what plugins may send, and the store there is before
    Faults

VARIABLES
    payments, events, outbox, charges, keys, zoop, hooks, fake, koin, callbacks, notices,
    stores, creds, settings, call, woo, acked, todo

ledger == <<payments, events, outbox, charges>>
providerVars == <<zoop, hooks, fake>>
koinVars == <<koin, callbacks, notices>>
shopVars == <<stores, creds, settings, call>>
vars == <<ledger, keys, providerVars, koinVars, shopVars, woo, acked, todo>>

Woo == INSTANCE WooPayment
Hooks == INSTANCE Webhooks WITH
    PaymentIds <- Requests, ProviderIds <- Woo!ProviderIds, MaxCharges <- 1,
    Stores <- Woo!Stores, Refs <- Woo!Refs

\* Only the panel turns fraud analysis on; createStore leaves it off.
ASSUME OnlyThePanelEnablesFraud == FraudStores \subseteq {OldStore}
ASSUME OldStoreIsNoRequest == OldStore \notin Requests
ASSUME WorkloadsAreRequests ==
    \A w \in Workloads :
        /\ DOMAIN w.requests \subseteq Requests
        /\ w.requests \in [DOMAIN w.requests -> Woo!Body]
        /\ w.name # None => w.name \in Names /\ Slugify(w.name) \in Slugs
        /\ w.seller \in Sellers \cup {NoSeller}
ASSUME NoResponseIsNull == NoResponse \notin Woo!Responses
ASSUME LedgerConstants ==
    /\ AnyStore \notin Woo!Stores
    /\ NoProviderId \notin Woo!ProviderIds
    /\ MaxTxns \in Nat
ASSUME ShopConstants ==
    /\ None \notin Woo!Calls \cup Woo!Shops!Store \cup Sellers \cup {NoSeller}
    /\ \A n \in Names : Slugify(n) \in Slugs \cup {NoSlug}
    /\ KnownSellers \subseteq Sellers /\ FakeSeller \in Sellers \ KnownSellers
    /\ NoSeller \notin Sellers
    /\ \A z \in KnownSellers : {DisplayName(z), LongName(z)} \subseteq Names
ASSUME ThereAreBodies == Woo!Body # {}

TypeOK ==
    /\ Woo!Ledger!TypeOK /\ Woo!Keys!TypeOK /\ Woo!Provider!BothTypeOK
    /\ Woo!Risk!TypeOK /\ Woo!Shops!TypeOK /\ Woo!TypeOK /\ Hooks!TypeOK

\* The store a workload starts with: a finished createStore of the panel.
ShopsInit(w) ==
    LET Row == [name |-> w.name, slug |-> Slugify(w.name)]
        Old(row) == [s \in Woo!Calls |-> IF s = OldStore /\ w.name # None THEN row ELSE None] IN
    /\ stores = Old(Row)
    /\ settings = Old(w.seller)
    /\ creds = [s \in Woo!Calls |-> IF s = OldStore /\ w.name # None
                                    THEN <<[key |-> s, revoked |-> FALSE]>> ELSE <<>>]
    /\ call = [c \in Woo!Calls |->
           CASE c \in DOMAIN w.requests ->
                   [Woo!Shops!NewCall EXCEPT !.kind = "provision", !.pc = "lookup",
                                             !.seller = w.requests[c].seller]
             [] c = OldStore /\ w.name # None ->
                   [Woo!Shops!NewCall EXCEPT !.pc = "done", !.store = c]
             [] OTHER -> Woo!Shops!NewCall]

Init ==
    /\ Woo!Ledger!Init /\ Woo!Keys!Init /\ Woo!Provider!BothInit /\ Woo!Risk!Init
    /\ Hooks!Init
    /\ \E w \in Workloads : Woo!Init(w.requests) /\ ShopsInit(w)

Answered(r) == woo[r].pc = "done"

\* The requests for the order of a payment, at its store.
RequestsOf(p) ==
    {r \in Requests : /\ Woo!StoreOf(r) = payments[p].store
                      /\ Woo!RefOf(r) = payments[p].ref /\ ~Woo!At(r, "unsent")}

Txns == Woo!Provider!Txns
TxnOf(id) == Woo!Provider!TxnOf(id)

ZoopMoves(id) ==
    /\ \/ /\ \E r \in RequestsOf(id[1]) : Answered(r) /\ woo[r].resp.code
          /\ Woo!Provider!BuyerPays(id)
       \/ Woo!Provider!CodeExpires(id)
       \/ Woo!Provider!CardDecided(id)
       \/ Woo!Provider!PaidOut(id)
       \/ Woo!Provider!ChargedBack(id)
    /\ UNCHANGED <<ledger, keys, fake, koinVars, shopVars, woo, acked, todo>>

Next ==
    \/ Woo!Next /\ UNCHANGED <<acked, todo>>
    \/ /\ \E m \in hooks : Hooks!DeliverZoop(m) \/ Hooks!Swallow(m)
       /\ UNCHANGED <<keys, fake, shopVars, woo>>
    \/ \E id \in Txns : ZoopMoves(id)

Spec == Init /\ [][Next]_vars

------------------------------------------------------------------------------
(***************************************************************************)
(* Properties.                                                             *)
(***************************************************************************)
SameOrder(id1, id2) == Woo!RefOf(id1[1]) = Woo!RefOf(id2[1])

\* However often an order of a seller is sent, retried after a crash or double
\* clicked, it is charged once, provided the seller's store was there before.
OrderChargedOnce ==
    \A id1, id2 \in Txns :
        /\ SameOrder(id1, id2)
        /\ stores[OldStore] # None /\ settings[OldStore] = Woo!SellerOf(id1[1])
        => id1 = id2

\* "All mutations are idempotent. Double-clicks, network retries... never create
\* duplicate charges": nor when the first payment of a seller is clicked twice.
FirstOrderChargedOnce ==
    \A id1, id2 \in Txns :
        /\ SameOrder(id1, id2)
        /\ TxnOf(id1).status = "succeeded" /\ TxnOf(id2).status = "succeeded"
        => id1 = id2

\* A payment runs under a store linked to the seller who is to be paid, even if
\* names clash with another merchant's store or two sellers are provisioned at once.
PaidUnderOwnStore ==
    \A p \in DOMAIN payments : settings[payments[p].store] = Woo!SellerOf(p)

AtZoop(p, Sts) == \E id \in Txns : id[1] = p /\ TxnOf(id).status \in Sts

\* What the plugin was told stays true: an error is of a payment refused for good,
\* money said to be taken was taken (by Zoop: the double takes none), a code is the
\* one stored, and a status taken from the ledger is one the payment has been in.
Entered(p) == {"created"} \cup {events[p][i].to : i \in DOMAIN events[p]}

AnswerIsTrue ==
    \A p \in DOMAIN payments : \A r \in RequestsOf(p) : Answered(r) =>
        LET status == woo[r].resp.status IN
        /\ status = "error" => payments[p].status = "refused"
        /\ status = "captured" /\ ~Woo!Faked(p) => AtZoop(p, {"succeeded", "charged_back"})
        /\ woo[r].resp.code => payments[p].instrument # "none"
        /\ status \in {"created", "approved_risk", "authorized", "under_review", "refused"}
               => status \in Entered(p)

\* A card is captured by the charge itself, so a timeout may leave the buyer's money
\* with a payment the ledger refuses.  Such a payment can always be told from its
\* charge row, which has no transaction id; a refusal without one took no money.
RefusedMoneyIsMarked ==
    \A p \in DOMAIN payments :
        payments[p].status = "refused" /\ AtZoop(p, {"pending", "succeeded"})
            => \E i \in DOMAIN charges[p] : charges[p][i].providerId = NoProviderId

==============================================================================
