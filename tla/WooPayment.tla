------------------------------ MODULE WooPayment ------------------------------
(***************************************************************************)
(* WooCommerceService.handlePayment: a plugin's request to pay an order of *)
(* a Zoop seller.  It names no store: the handler finds the seller's or    *)
(* provisions one (Stores.tla), and only then looks for the idempotency    *)
(* record, which is per store.  Cards are captured at once.  As in         *)
(* WakePayment each await is a step and the request may die at any.        *)
(***************************************************************************)
EXTENDS PaymentStates, Sequences

CONSTANTS
    Requests,     \* calls of POST /woocommerce/payment, retries included
    OldStore,     \* a store the panel created before, named by that call
    Orders, Hashes, FraudStores,
    Names, Slugs, Slugify(_), NoSlug, Sellers, KnownSellers, FakeSeller, NoSeller,
    DisplayName(_), LongName(_), None,
    AnyStore, NoProviderId, MaxTxns, NoResponse,
    Faults

VARIABLES
    payments, events, outbox, charges,  \* Payments
    keys,                               \* Idempotency
    zoop, hooks, fake,                  \* Providers
    koin, callbacks, notices,           \* Koin
    stores, creds, settings, call,      \* Stores
    woo                                 \* the requests

ledger == <<payments, events, outbox, charges>>
providerVars == <<zoop, hooks, fake>>
koinVars == <<koin, callbacks, notices>>
shopVars == <<stores, creds, settings, call>>

\* A payment, and the store a request provisions, are named by the request.
PaymentIds == Requests
ProviderIds == PaymentIds \X (1 .. MaxTxns)
MaxCharges == 1
Calls == Requests \cup {OldStore}
Stores == Calls
Kinds == {"provision"}

\* `wc-${sellerId}-${orderId}`
Refs == Sellers \X Orders

Body == [seller : Sellers, order : Orders, hash : Hashes,
         method : {"credit_card", "pix", "boleto"}]

\* status: of the payment or of the charge, or {error}; code: emv or url.
ResponseStatuses == Statuses \cup {"failed", "unknown", "reversed", "error"}
Responses == [status : ResponseStatuses, code : BOOLEAN]

Ledger == INSTANCE Payments
Keys == INSTANCE Idempotency
Provider == INSTANCE Providers
Risk == INSTANCE Koin
Shops == INSTANCE Stores

NoResult == [id |-> NoProviderId, status |-> "failed", code |-> FALSE]

RequestState ==
    [pc : {"unsent", "find", "insert", "lookup", "create", "evaluate", "move", "charge",
           "record", "recordFailure", "instrument", "save", "done", "failed"},
     body : Body, to : Statuses, resp : Responses \cup {NoResponse},
     answer : [id : ProviderIds, status : Ledger!ChargeStatuses, code : BOOLEAN]
              \cup {NoResult}]

TypeOK == woo \in [Requests -> RequestState]

\* The requests of sent have arrived: their first await is the provisioning.
Init(sent) ==
    woo = [r \in Requests |->
              [pc |-> IF r \in DOMAIN sent THEN "find" ELSE "unsent",
               body |-> IF r \in DOMAIN sent THEN sent[r] ELSE CHOOSE b \in Body : TRUE,
               to |-> "created", resp |-> NoResponse, answer |-> NoResult]]

At(r, pc) == woo[r].pc = pc
Goto(r, pc) == woo' = [woo EXCEPT ![r].pc = pc]
Answer(r, resp) == woo' = [woo EXCEPT ![r].pc = "done", ![r].resp = resp]
GotoMove(r, to, resp) ==
    woo' = [woo EXCEPT ![r].pc = "move", ![r].to = to, ![r].resp = resp]

SellerOf(r) == woo[r].body.seller
MethodOf(r) == woo[r].body.method
StoreOf(r) == call[r].store
Faked(r) == SellerOf(r) = FakeSeller

RefOf(r) == <<SellerOf(r), woo[r].body.order>>

Say(status) == [status |-> status, code |-> FALSE]

------------------------------------------------------------------------------
\* getOrCreateBySellerId, await by await.
Provision(r) ==
    /\ At(r, "find")
    /\ Shops!Step(r)
    /\ UNCHANGED <<ledger, keys, providerVars, koinVars, woo>>

FindKey(r) ==
    LET s == StoreOf(r)  k == RefOf(r) IN
    /\ At(r, "find") /\ Shops!At(r, "done")
    /\ \/ ~Keys!Known(s, k) /\ Goto(r, "insert")
       \/ Keys!Known(s, k) /\ Keys!Conflicts(s, k, woo[r].body.hash) /\ Goto(r, "failed")
       \/ /\ Keys!Known(s, k) /\ ~Keys!Conflicts(s, k, woo[r].body.hash)
          /\ IF Keys!Answered(s, k) THEN Answer(r, keys[<<s, k>>].response)
                                    ELSE Goto(r, "lookup")
    /\ UNCHANGED <<ledger, keys, providerVars, koinVars, shopVars>>

InsertKey(r) ==
    /\ At(r, "insert")
    /\ IF Keys!CanInsert(StoreOf(r), RefOf(r))
       THEN Keys!Insert(StoreOf(r), RefOf(r), woo[r].body.hash) /\ Goto(r, "create")
       ELSE Goto(r, "failed") /\ UNCHANGED keys
    /\ UNCHANGED <<ledger, providerVars, koinVars, shopVars>>

\* What an attempt that left no response may have created.
PaymentsOfAttempt(r) == Ledger!FindByExternalRef(StoreOf(r), RefOf(r))

LookUpPayment(r) ==
    /\ At(r, "lookup")
    /\ IF PaymentsOfAttempt(r) = {} THEN Goto(r, "create")
       ELSE \E p \in PaymentsOfAttempt(r) : Answer(r, Say(payments[p].status))
    /\ UNCHANGED <<ledger, keys, providerVars, koinVars, shopVars>>

CreatePayment(r) ==
    /\ At(r, "create")
    /\ IF Ledger!CanCreate(StoreOf(r), RefOf(r))
       THEN Ledger!Create(r, StoreOf(r), RefOf(r)) /\ Goto(r, "evaluate")
       ELSE Goto(r, "failed") /\ UNCHANGED ledger
    /\ UNCHANGED <<keys, providerVars, koinVars, shopVars>>

\* No pre-evaluation, and no callback URL: a review ends here.
EvaluateRisk(r) ==
    /\ At(r, "evaluate")
    /\ \E v \in Risk!Verdicts :
          /\ Risk!Evaluate(r, StoreOf(r), v)
          /\ CASE v = "denied"   -> GotoMove(r, "refused", Say("error"))
               [] v = "received" -> GotoMove(r, "under_review", Say("under_review"))
               [] v = "approved" -> GotoMove(r, "approved_risk", NoResponse)
    /\ UNCHANGED <<ledger, keys, providerVars, shopVars>>

\* transition(), which throws what the table does not have.
Move(r) ==
    LET to == woo[r].to IN
    /\ At(r, "move")
    /\ IF Ledger!CanMove(r, StoreOf(r), to)
       THEN /\ Ledger!Transition(r, StoreOf(r), to)
            /\ Goto(r, IF to = "approved_risk" THEN "charge" ELSE "save")
       ELSE Goto(r, "failed") /\ UNCHANGED ledger
    /\ UNCHANGED <<keys, providerVars, koinVars, shopVars>>

------------------------------------------------------------------------------
\* createCharge: executed and answered, executed and timed out, or refused.
Charge(r) ==
    LET Executed(o) == Provider!Charge(Faked(r), r, MethodOf(r), TRUE, o)
        Outcomes == Provider!Outcomes(Faked(r), MethodOf(r), TRUE) IN
    /\ At(r, "charge")
    /\ \/ \E o \in Outcomes :
             /\ Executed(o)
             /\ woo' = [woo EXCEPT ![r].pc = "record",
                    ![r].answer = Provider!ResultOf(Faked(r), r, MethodOf(r), o)]
       \/ /\ Faults /\ ~Faked(r)
          /\ \E o \in Outcomes : Executed(o)
          /\ Goto(r, "recordFailure")
       \/ ~Faked(r) /\ Goto(r, "recordFailure") /\ UNCHANGED providerVars
    /\ UNCHANGED <<ledger, keys, koinVars, shopVars>>

\* Mutants: the plugin gets its error and the payment is left as it was; the payment
\* is refused and no row tells of the charge.
Bug_NoRefusal(r) ==
    /\ At(r, "recordFailure")
    /\ woo' = [woo EXCEPT ![r].pc = "save", ![r].resp = Say("error")]
    /\ UNCHANGED <<ledger, keys, providerVars, koinVars, shopVars>>

Bug_UnmarkedFailure(r) ==
    /\ At(r, "recordFailure")
    /\ GotoMove(r, "refused", Say("error"))
    /\ UNCHANGED <<ledger, keys, providerVars, koinVars, shopVars>>

\* recordChargeFailure
RecordFailure(r) ==
    /\ At(r, "recordFailure")
    /\ Ledger!SaveProviderCharge(r, [providerId |-> NoProviderId, status |-> "failed"])
    /\ GotoMove(r, "refused", Say("error"))
    /\ UNCHANGED <<keys, providerVars, koinVars, shopVars>>

\* saveProviderCharge, and the branch on the answer: a captured card is recorded as
\* authorized, and answered as captured.
RecordCharge(r) ==
    LET answer == woo[r].answer IN
    /\ At(r, "record")
    /\ Ledger!SaveProviderCharge(r, [providerId |-> answer.id, status |-> answer.status])
    /\ CASE answer.status = "failed" -> GotoMove(r, "refused", Say("error"))
         [] answer.status # "failed" /\ answer.code -> Goto(r, "instrument")
         [] OTHER -> GotoMove(r, "authorized", Say(answer.status))
    /\ UNCHANGED <<keys, providerVars, koinVars, shopVars>>

SaveInstrument(r) ==
    /\ At(r, "instrument")
    /\ Ledger!UpdateInstrument(r, StoreOf(r), MethodOf(r))
    /\ GotoMove(r, "waiting_payment", [status |-> woo[r].answer.status, code |-> TRUE])
    /\ UNCHANGED <<keys, providerVars, koinVars, shopVars>>

SaveResponse(r) ==
    /\ At(r, "save")
    /\ Keys!SaveResponse(StoreOf(r), RefOf(r), woo[r].resp)
    /\ Goto(r, "done")
    /\ UNCHANGED <<ledger, providerVars, koinVars, shopVars>>

\* The process stops, or an await throws, during the provisioning or after it.
Die(r) ==
    /\ Faults
    /\ \/ At(r, "find") /\ Shops!Die(r) /\ UNCHANGED woo
       \/ /\ woo[r].pc \notin {"unsent", "done", "failed"} /\ Shops!At(r, "done")
          /\ Goto(r, "failed") /\ UNCHANGED shopVars
    /\ UNCHANGED <<ledger, keys, providerVars, koinVars>>

Step(r) ==
    \/ Provision(r) \/ FindKey(r) \/ InsertKey(r) \/ LookUpPayment(r)
    \/ CreatePayment(r) \/ EvaluateRisk(r) \/ Move(r)
    \/ Charge(r) \/ RecordFailure(r) \/ RecordCharge(r) \/ SaveInstrument(r)
    \/ SaveResponse(r)

Next == \E r \in Requests : Step(r) \/ Die(r)

==============================================================================
