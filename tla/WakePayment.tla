----------------------------- MODULE WakePayment -----------------------------
(***************************************************************************)
(* WakeService.handlePayment: a request of the shop to pay an order.  Each *)
(* await of the handler is a step, so double-clicks, retries, webhooks and *)
(* cancellations interleave with it, and the request may die at any await  *)
(* (the process stops, the database or Koin fails): what it did stays.     *)
(***************************************************************************)
EXTENDS PaymentStates, Sequences

CONSTANTS
    Requests,     \* calls of POST /wake/authorize, retries included
    Stores, Refs, Hashes, FraudStores,
    FakeStores,   \* stores linked to FAKE_ZOOP_SELLER_ID
    AnyStore, NoProviderId, MaxTxns, NoResponse,
    Faults        \* TRUE if requests may die and calls be lost in this instance

VARIABLES
    payments, events, outbox, charges,  \* Payments
    keys,                               \* Idempotency
    zoop, hooks, fake,                  \* Providers
    koin, callbacks, notices,           \* Koin
    wake                                \* the requests

ledger == <<payments, events, outbox, charges>>
providerVars == <<zoop, hooks, fake>>
koinVars == <<koin, callbacks, notices>>
vars == <<ledger, keys, providerVars, koinVars, wake>>

\* generateId('pay') is fresh: a payment is named by the request that made it.
PaymentIds == Requests
ProviderIds == PaymentIds \X (1 .. MaxTxns)
MaxCharges == 1

\* statusId of the answer, and the pix or boleto data that goes with it.
Response == [statusId: {1, 2, 5, 7}, instrument: {"none", "pix", "boleto"}]

Responses == Response

Ledger == INSTANCE Payments
Keys == INSTANCE Idempotency
Provider == INSTANCE Providers
Risk == INSTANCE Koin

Pcs == {"unsent", "find", "insert", "lookup", "create", "preEvaluate", "evaluate", "move",
        "notify", "charge", "record", "recordFailure", "instrument", "save",
        "done", "failed"}

\* answer: the ChargeResult of createCharge, code: it carries a pix QR code or a
\* boleto URL.
ChargeResult == [id: ProviderIds, status: Ledger!ChargeStatuses, code: BOOLEAN]
NoResult == [id |-> NoProviderId, status |-> "failed", code |-> FALSE]

\* What a request asks: a store by its credentials, an order and its key, a body.
Body == [store: Stores, ref: Refs, hash: Hashes, method: Provider!Methods]

RequestState == [pc: Pcs, body: Body, to: Statuses, resp: Response \cup {NoResponse},
                 answer: ChargeResult \cup {NoResult}]

TypeOK == wake \in [Requests -> RequestState]

\* The requests of sent, a partial function to bodies, have arrived.
Init(sent) ==
    wake = [r \in Requests |->
               [pc |-> IF r \in DOMAIN sent THEN "find" ELSE "unsent",
                body |-> IF r \in DOMAIN sent THEN sent[r] ELSE CHOOSE b \in Body : TRUE,
                to |-> "created", resp |-> NoResponse, answer |-> NoResult]]

StoreOf(r) == wake[r].body.store
RefOf(r) == wake[r].body.ref
MethodOf(r) == wake[r].body.method

\* getPaymentProvider
Faked(r) == StoreOf(r) \in FakeStores

At(r, pc) == wake[r].pc = pc
Ended(r) == wake[r].pc \in {"done", "failed"}

Goto(r, pc) == wake' = [wake EXCEPT ![r].pc = pc]

Answer(r, resp) == wake' = [wake EXCEPT ![r].pc = "done", ![r].resp = resp]

\* The next thing to do is transition(to), then the answer.
GotoMove(r, to, resp) ==
    wake' = [wake EXCEPT ![r].pc = "move", ![r].to = to, ![r].resp = resp]

Say(statusId) == [statusId |-> statusId, instrument |-> "none"]

------------------------------------------------------------------------------
(***************************************************************************)
(* The idempotency record.                                                 *)
(***************************************************************************)
\* buildResponseFromExistingPayment
ResponseFor(row) ==
    CASE row.status \in {"refused", "cancelled", "expired"} -> Say(2)
      [] row.status \notin {"refused", "cancelled", "expired"}
         /\ row.instrument # "none" ->
            [statusId |-> 7, instrument |-> row.instrument]
      [] row.status \in {"under_review", "created", "approved_risk"}
         /\ row.instrument = "none" -> Say(7)
      [] OTHER -> Say(1)

\* getOrCreate: findOne, and what handlePayment does with a record it finds.
FindKey(r) ==
    LET s == StoreOf(r)  k == RefOf(r) IN
    /\ At(r, "find")
    /\ \/ ~Keys!Known(s, k) /\ Goto(r, "insert")
       \/ /\ Keys!Known(s, k) /\ Keys!Conflicts(s, k, wake[r].body.hash)
          /\ Goto(r, "failed")
       \/ /\ Keys!Known(s, k) /\ ~Keys!Conflicts(s, k, wake[r].body.hash)
          /\ IF Keys!Answered(s, k) THEN Answer(r, keys[<<s, k>>].response)
                                    ELSE Goto(r, "lookup")
    /\ UNCHANGED <<ledger, keys, providerVars, koinVars>>

\* getOrCreate: the INSERT; the loser of a race gets a unique violation.
InsertKey(r) ==
    LET s == StoreOf(r)  k == RefOf(r) IN
    /\ At(r, "insert")
    /\ IF Keys!CanInsert(s, k)
       THEN Keys!Insert(s, k, wake[r].body.hash) /\ Goto(r, "create")
       ELSE Goto(r, "failed") /\ UNCHANGED keys
    /\ UNCHANGED <<ledger, providerVars, koinVars>>

\* A previous attempt left no answer: the payments it may have made.
PaymentsOfAttempt(s, k) == Ledger!FindByExternalRef(s, k)

LookUpPayment(r) ==
    LET found == PaymentsOfAttempt(StoreOf(r), RefOf(r)) IN
    /\ At(r, "lookup")
    /\ IF found = {} THEN Goto(r, "create")
       ELSE \E p \in found : Answer(r, ResponseFor(payments[p]))
    /\ UNCHANGED <<ledger, keys, providerVars, koinVars>>

------------------------------------------------------------------------------
(***************************************************************************)
(* Creation and fraud analysis.                                            *)
(***************************************************************************)
PreEvaluates(r) == MethodOf(r) = "credit_card" /\ Risk!UsesKoin(StoreOf(r))

CreatePayment(r) ==
    /\ At(r, "create")
    /\ IF Ledger!CanCreate(StoreOf(r), RefOf(r))
       THEN /\ Ledger!Create(r, StoreOf(r), RefOf(r))
            /\ Goto(r, IF PreEvaluates(r) THEN "preEvaluate" ELSE "evaluate")
       ELSE Goto(r, "failed") /\ UNCHANGED ledger
    /\ UNCHANGED <<keys, providerVars, koinVars>>

\* preEvaluate and the audit record of its verdict, which changes nothing else.
PreEvaluate(r) ==
    /\ At(r, "preEvaluate")
    /\ \E v \in Risk!Verdicts :
          /\ Risk!PreEvaluate(r, v)
          /\ IF v = "denied" THEN GotoMove(r, "refused", Say(5))
                             ELSE Goto(r, "evaluate")
    /\ UNCHANGED <<ledger, keys, providerVars>>

\* A mutant: only a denial stops the charge.
Bug_ChargeUnderReview(v) == IF v = "denied" THEN "refused" ELSE "approved_risk"

\* Where each verdict of the evaluation takes the payment.
StatusAfter(v) ==
    CASE v = "denied"   -> "refused"
      [] v = "received" -> "under_review"
      [] v = "approved" -> "approved_risk"

EvaluateRisk(r) ==
    /\ At(r, "evaluate")
    /\ \E v \in Risk!Verdicts :
          /\ Risk!Evaluate(r, StoreOf(r), v)
          /\ GotoMove(r, StatusAfter(v),
                      CASE v = "denied"   -> Say(5)
                        [] v = "received" -> Say(7)
                        [] v = "approved" -> NoResponse)
    /\ UNCHANGED <<ledger, keys, providerVars>>

AfterMove(r) ==
    CASE wake[r].to = "approved_risk" -> "charge"
      [] wake[r].to = "refused" /\ wake[r].resp = Say(5) -> "notify"
      [] OTHER -> "save"

\* transition(): a 422 ends the request.
Move(r) ==
    LET to == wake[r].to IN
    /\ At(r, "move")
    /\ IF Ledger!CanMove(r, StoreOf(r), to)
       THEN Ledger!Transition(r, StoreOf(r), to) /\ Goto(r, AfterMove(r))
       ELSE Goto(r, "failed") /\ UNCHANGED ledger
    /\ UNCHANGED <<keys, providerVars, koinVars>>

NotifyRefusal(r) ==
    /\ At(r, "notify")
    /\ Risk!Notify(r, StoreOf(r), "cancelled")
    /\ Goto(r, "save")
    /\ UNCHANGED <<ledger, keys, providerVars>>

------------------------------------------------------------------------------
(***************************************************************************)
(* The charge.                                                             *)
(***************************************************************************)

\* The provider executes the charge and its answer arrives, or (in 20 s) does not;
\* or the call fails and Zoop never saw it.  The double always answers.
Charge(r) ==
    LET method == MethodOf(r)
        capture == method # "credit_card"
        Executed(o) == Provider!Charge(Faked(r), r, method, capture, o)
        Outcomes == Provider!Outcomes(Faked(r), method, capture) IN
    /\ At(r, "charge")
    /\ \/ \E o \in Outcomes :
             /\ Executed(o)
             /\ wake' = [wake EXCEPT ![r].pc = "record",
                    ![r].answer = Provider!ResultOf(Faked(r), r, method, o)]
       \/ /\ Faults /\ ~Faked(r)
          /\ \E o \in Outcomes : Executed(o)
          /\ Goto(r, "recordFailure")
       \/ ~Faked(r) /\ Goto(r, "recordFailure") /\ UNCHANGED providerVars
    /\ UNCHANGED <<ledger, keys, koinVars>>

\* saveProviderCharge, and the branch on the answer.
RecordCharge(r) ==
    LET answer == wake[r].answer IN
    /\ At(r, "record")
    /\ Ledger!SaveProviderCharge(r, [providerId |-> answer.id, status |-> answer.status])
    /\ CASE answer.status = "failed" -> GotoMove(r, "refused", Say(2))
         [] answer.status # "failed" /\ answer.code -> Goto(r, "instrument")
         [] OTHER -> GotoMove(r, "authorized", Say(1))
    /\ UNCHANGED <<keys, providerVars, koinVars>>

\* Mutants: the handler as it was before recordChargeFailure; a refusal without
\* its row; a call that failed is tried again.
Bug_NoRefusal(r) ==
    /\ At(r, "recordFailure")
    /\ wake' = [wake EXCEPT ![r].pc = "save", ![r].resp = Say(2)]
    /\ UNCHANGED <<ledger, keys, providerVars, koinVars>>

Bug_UnmarkedFailure(r) ==
    /\ At(r, "recordFailure")
    /\ GotoMove(r, "refused", Say(2))
    /\ UNCHANGED <<ledger, keys, providerVars, koinVars>>

Bug_RetryCharge(r) ==
    /\ At(r, "recordFailure")
    /\ Ledger!SaveProviderCharge(r, [providerId |-> NoProviderId, status |-> "failed"])
    /\ Goto(r, "charge")
    /\ UNCHANGED <<keys, providerVars, koinVars>>

\* recordChargeFailure: the row first, the transition in a transaction of its own.
RecordFailure(r) ==
    /\ At(r, "recordFailure")
    /\ Ledger!SaveProviderCharge(r, [providerId |-> NoProviderId, status |-> "failed"])
    /\ GotoMove(r, "refused", Say(2))
    /\ UNCHANGED <<keys, providerVars, koinVars>>

\* A mutant: the code goes to the shop and is not stored.
Bug_CodeNotStored(r) ==
    /\ At(r, "instrument")
    /\ GotoMove(r, "waiting_payment",
                [statusId |-> 7, instrument |-> MethodOf(r)])
    /\ UNCHANGED <<ledger, keys, providerVars, koinVars>>

\* updatePaymentPixData or updatePaymentBoletoData
SaveInstrument(r) ==
    /\ At(r, "instrument")
    /\ Ledger!UpdateInstrument(r, StoreOf(r), MethodOf(r))
    /\ GotoMove(r, "waiting_payment",
                [statusId |-> 7, instrument |-> MethodOf(r)])
    /\ UNCHANGED <<keys, providerVars, koinVars>>

SaveResponse(r) ==
    /\ At(r, "save")
    /\ Keys!SaveResponse(StoreOf(r), RefOf(r), wake[r].resp)
    /\ Goto(r, "done")
    /\ UNCHANGED <<ledger, providerVars, koinVars>>

\* The process stops, or an await nobody catches throws.
Die(r) ==
    /\ Faults
    /\ ~Ended(r) /\ ~At(r, "unsent")
    /\ Goto(r, "failed")
    /\ UNCHANGED <<ledger, keys, providerVars, koinVars>>

Step(r) ==
    \/ FindKey(r) \/ InsertKey(r) \/ LookUpPayment(r) \/ CreatePayment(r)
    \/ PreEvaluate(r) \/ EvaluateRisk(r) \/ Move(r) \/ NotifyRefusal(r)
    \/ Charge(r) \/ RecordCharge(r) \/ RecordFailure(r) \/ SaveInstrument(r)
    \/ SaveResponse(r)

Next == \E r \in Requests : Step(r) \/ Die(r)

==============================================================================
