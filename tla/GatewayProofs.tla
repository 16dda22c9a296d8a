----------------------------- MODULE GatewayProofs -----------------------------
(***************************************************************************)
(* Theorems about the gateway at work, for any number of requests, shop    *)
(* operations, stores and orders, any fault and any behaviour of Zoop,     *)
(* Koin and the buyers: it uses the ledger as Payments allows, charges an  *)
(* order once, never one Koin denied, and replays the first answer.        *)
(***************************************************************************)
EXTENDS GatewayRequirements, TLAPS

\* Where a request is before it has made its payment, and while it works on it.
NotCreated == {"unsent", "find", "insert", "lookup", "create"}

Working == {"preEvaluate", "evaluate", "move", "notify", "charge", "record",
            "recordFailure", "instrument", "save"}

NoCase == [pre |-> "none", eval |-> "none", decision |-> "none"]

\* A payment has the store and the order of the request that made it, and leaves no
\* trace anywhere before it exists.
RowOf(p) ==
    /\ wake[p].pc \in NotCreated => p \notin DOMAIN payments
    /\ wake[p].pc \in Working => p \in DOMAIN payments
    /\ p \in DOMAIN payments =>
           payments[p].store = Wake!StoreOf(p) /\ payments[p].ref = Wake!RefOf(p)
    /\ p \notin DOMAIN payments =>
           zoop[p] = <<>> /\ fake[p] = <<>> /\ charges[p] = <<>> /\ koin[p] = NoCase

\* Koin approved it, or was not asked.
Cleared(p) ==
    koin[p].pre # "denied" /\ koin[p].eval \in {"none", "approved"} /\ koin[p].decision = "none"

\* The charge is next, or has been asked of the provider.
Charging(p) ==
    \/ wake[p].pc \in {"charge", "record", "recordFailure", "instrument"}
    \/ wake[p].pc = "move" /\ wake[p].to = "approved_risk"
    \/ zoop[p] # <<>> \/ fake[p] # <<>> \/ charges[p] # <<>>

FraudOf(p) ==
    /\ koin[p].decision # "none" => koin[p].eval = "received"
    /\ wake[p].pc = "preEvaluate" => koin[p].pre = "none" /\ koin[p].eval = "none"
    /\ wake[p].pc = "evaluate" => koin[p].pre # "denied" /\ koin[p].eval = "none"
    /\ Charging(p) => Cleared(p)

\* The charge of a real store is at Zoop.
AtProvider(p) == Wake!StoreOf(p) \notin FakeStores => zoop[p] # <<>>

\* At most one charge, asked once, recorded once.
ChargeOf(p) ==
    /\ Len(zoop[p]) <= 1 /\ Len(fake[p]) <= 1 /\ Len(charges[p]) <= 1
    /\ wake[p].pc \in {"preEvaluate", "evaluate", "charge"} =>
           zoop[p] = <<>> /\ fake[p] = <<>> /\ charges[p] = <<>>
    /\ wake[p].pc = "move" /\ wake[p].to = "approved_risk" =>
           zoop[p] = <<>> /\ fake[p] = <<>> /\ charges[p] = <<>>
    /\ wake[p].pc \in {"record", "recordFailure"} => charges[p] = <<>>
    /\ wake[p].pc = "record" =>
           /\ wake[p].answer.id = <<p, 1>> /\ AtProvider(p)
           /\ wake[p].answer.code => Wake!MethodOf(p) # "credit_card"
    /\ wake[p].pc = "instrument" => Wake!MethodOf(p) # "credit_card"
    /\ zoop[p] # <<>> => Wake!StoreOf(p) \notin FakeStores
    /\ charges[p] # <<>> =>
           \/ charges[p][1].providerId = NoProviderId
           \/ charges[p][1].providerId = <<p, 1>> /\ AtProvider(p)

PaymentInv == \A p \in PaymentIds : RowOf(p) /\ FraudOf(p) /\ ChargeOf(p)

\* An operation acts on a payment there is, and calls the provider with its charge.
OpOf(o) ==
    /\ ops[o].pc \in {"zoop", "move", "notify"} => ops[o].p \in DOMAIN payments
    /\ ops[o].pc = "zoop" =>
           /\ ops[o].id = <<ops[o].p, 1>> /\ AtProvider(ops[o].p)
           /\ ops[o].action \in {"capture", "void", "refund"}

OpsInv == \A o \in Ops : OpOf(o)

\* A request past getOrCreate has its record; a record with a response belongs to a
\* payment whose request has answered.
OrderOf(r) == <<Wake!StoreOf(r), Wake!RefOf(r)>>

KeyKnown ==
    \A r \in Requests :
        wake[r].pc \in {"lookup", "create"} \cup Working => OrderOf(r) \in DOMAIN keys

KeyAnswered ==
    \A k \in DOMAIN keys : keys[k].response # NoResponse =>
        \E r \in DOMAIN payments : wake[r].pc = "done" /\ OrderOf(r) = k

GatewayInv ==
    /\ TypeOK
    /\ PaymentInv
    /\ OpsInv
    /\ KeyKnown
    /\ KeyAnswered
    /\ Ledger!OnePaymentPerOrder

------------------------------------------------------------------------------
(***************************************************************************)
(* The components share one ledger, one pair of providers, one Koin and    *)
(* one table of keys: what an instance inside a component does is what     *)
(* this module's own instance does.                                        *)
(***************************************************************************)
LEMMA WakeLedger ==
    /\ \A s, k : Wake!Ledger!CanCreate(s, k) <=> Ledger!CanCreate(s, k)
    /\ \A p, s, k : Wake!Ledger!Create(p, s, k) => Ledger!Create(p, s, k)
    /\ \A p, s, to : Wake!Ledger!Transition(p, s, to) => Ledger!Transition(p, s, to)
    /\ \A p, row : Wake!Ledger!SaveProviderCharge(p, row) =>
                       Ledger!SaveProviderCharge(p, row)
    /\ \A p, s, i : Wake!Ledger!UpdateInstrument(p, s, i) =>
                        Ledger!UpdateInstrument(p, s, i)
  <1>1. \A p : Wake!Ledger!Exists(p) <=> Ledger!Exists(p)
    BY DEF Wake!Ledger!Exists, Ledger!Exists
  <1>2. \A s, k : Wake!Ledger!CanCreate(s, k) <=> Ledger!CanCreate(s, k)
    BY DEF Wake!Ledger!CanCreate, Ledger!CanCreate, Wake!Ledger!FindByExternalRef,
           Ledger!FindByExternalRef
  <1>3. \A p, s : Wake!Ledger!InScope(p, s) <=> Ledger!InScope(p, s)
    BY <1>1 DEF Wake!Ledger!InScope, Ledger!InScope
  <1>4. \A p, s, k : Wake!Ledger!Create(p, s, k) => Ledger!Create(p, s, k)
    BY <1>1, <1>2 DEF Wake!Ledger!Create, Ledger!Create, Wake!Ledger!InitialStatus,
                      Ledger!InitialStatus
  <1>5. \A p, s, to : Wake!Ledger!Transition(p, s, to) => Ledger!Transition(p, s, to)
    <2>1. \A f, t : Wake!Ledger!CanTransition(f, t) <=> Ledger!CanTransition(f, t)
      BY DEF Wake!Ledger!CanTransition, Ledger!CanTransition,
             Wake!Ledger!AllowedTransitions, Ledger!AllowedTransitions,
             Wake!Ledger!Statuses, Ledger!Statuses
    <2>2. QED
      BY <1>3, <2>1 DEF Wake!Ledger!Transition, Ledger!Transition, Wake!Ledger!CanMove,
                        Ledger!CanMove, Wake!Ledger!EventOf, Ledger!EventOf
  <1>6. \A p, row : Wake!Ledger!SaveProviderCharge(p, row) =>
                        Ledger!SaveProviderCharge(p, row)
    BY <1>1 DEF Wake!Ledger!SaveProviderCharge, Ledger!SaveProviderCharge
  <1>7. \A p, s, i : Wake!Ledger!UpdateInstrument(p, s, i) =>
                         Ledger!UpdateInstrument(p, s, i)
    BY <1>3 DEF Wake!Ledger!UpdateInstrument, Ledger!UpdateInstrument
  <1>8. QED
    BY <1>2, <1>4, <1>5, <1>6, <1>7

LEMMA ShopLedger ==
    \A p, s, to : Shop!Ledger!Transition(p, s, to) => Ledger!Transition(p, s, to)
  <1>1. \A f, t : Shop!Ledger!CanTransition(f, t) <=> Ledger!CanTransition(f, t)
    BY DEF Shop!Ledger!CanTransition, Ledger!CanTransition,
           Shop!Ledger!AllowedTransitions, Ledger!AllowedTransitions,
           Shop!Ledger!Statuses, Ledger!Statuses
  <1>2. QED
    BY <1>1 DEF Shop!Ledger!Transition, Ledger!Transition, Shop!Ledger!CanMove,
                Ledger!CanMove, Shop!Ledger!EventOf, Ledger!EventOf,
                Shop!Ledger!InScope, Ledger!InScope, Shop!Ledger!Exists, Ledger!Exists

LEMMA HooksLedger ==
    \A p, s, to : Hooks!Ledger!Transition(p, s, to) => Ledger!Transition(p, s, to)
  <1>1. \A f, t : Hooks!Ledger!CanTransition(f, t) <=> Ledger!CanTransition(f, t)
    BY DEF Hooks!Ledger!CanTransition, Ledger!CanTransition,
           Hooks!Ledger!AllowedTransitions, Ledger!AllowedTransitions,
           Hooks!Ledger!Statuses, Ledger!Statuses
  <1>2. QED
    BY <1>1 DEF Hooks!Ledger!Transition, Ledger!Transition, Hooks!Ledger!CanMove,
                Ledger!CanMove, Hooks!Ledger!EventOf, Ledger!EventOf,
                Hooks!Ledger!InScope, Ledger!InScope, Hooks!Ledger!Exists, Ledger!Exists

LEMMA WakeProvider ==
    /\ \A f, m, c : Wake!Provider!Outcomes(f, m, c) = Provider!Outcomes(f, m, c)
    /\ \A f, p, m, c, o : Wake!Provider!Charge(f, p, m, c, o) =>
                              Provider!Charge(f, p, m, c, o)
    /\ \A f, p, m, o : Wake!Provider!ResultOf(f, p, m, o) = Provider!ResultOf(f, p, m, o)
  <1>1. \A m, c : Wake!Provider!FirstStatuses(m, c) = Provider!FirstStatuses(m, c)
    BY DEF Wake!Provider!FirstStatuses, Provider!FirstStatuses
  <1>2. \A m, c : Wake!Provider!Fake!Outcomes(m, c) = Provider!Fake!Outcomes(m, c)
    BY DEF Wake!Provider!Fake!Outcomes, Provider!Fake!Outcomes
  <1>3. \A f, m, c : Wake!Provider!Outcomes(f, m, c) = Provider!Outcomes(f, m, c)
    BY <1>1, <1>2 DEF Wake!Provider!Outcomes, Provider!Outcomes
  <1>4. \A p, m, c, s : Wake!Provider!CreateCharge(p, m, c, s) =>
                            Provider!CreateCharge(p, m, c, s)
    BY <1>1 DEF Wake!Provider!CreateCharge, Provider!CreateCharge,
                Wake!Provider!FirstHooks, Provider!FirstHooks
  <1>5. \A p, s : Wake!Provider!Fake!Register(p, s) => Provider!Fake!Register(p, s)
    BY DEF Wake!Provider!Fake!Register, Provider!Fake!Register
  <1>6. \A f, p, m, c, o : Wake!Provider!Charge(f, p, m, c, o) =>
                               Provider!Charge(f, p, m, c, o)
    BY <1>4, <1>5 DEF Wake!Provider!Charge, Provider!Charge, Wake!Provider!zoopVars,
                      Provider!zoopVars
  <1>7. \A m, s : Wake!Provider!ChargeStatus(m, s) = Provider!ChargeStatus(m, s)
    BY DEF Wake!Provider!ChargeStatus, Provider!ChargeStatus,
           Wake!Provider!MapZoopStatus, Provider!MapZoopStatus
  <1>8. \A f, p, m, o : Wake!Provider!ResultOf(f, p, m, o) = Provider!ResultOf(f, p, m, o)
    BY <1>7 DEF Wake!Provider!ResultOf, Provider!ResultOf
  <1>9. QED
    BY <1>3, <1>6, <1>8

LEMMA ShopProvider ==
    /\ \A f, a, id, w : Shop!Provider!Accepts(f, a, id, w) <=> Provider!Accepts(f, a, id, w)
    /\ \A f, id, w : \A a \in {"capture", "void", "refund"} :
           Shop!Provider!Execute(f, a, id, w) => Provider!Execute(f, a, id, w)
  <1>1. \A id : Shop!Provider!TxnOf(id) = Provider!TxnOf(id)
    BY DEF Shop!Provider!TxnOf, Provider!TxnOf
  <1>2. \A id, w : Shop!Provider!CanRefund(id, w) <=> Provider!CanRefund(id, w)
    BY <1>1 DEF Shop!Provider!CanRefund, Provider!CanRefund, Shop!Provider!FullAmount,
                Provider!FullAmount
  <1>3. \A f, a, id, w :
            Shop!Provider!Accepts(f, a, id, w) <=> Provider!Accepts(f, a, id, w)
    BY <1>1, <1>2 DEF Shop!Provider!Accepts, Provider!Accepts, Shop!Provider!CanCapture,
                      Provider!CanCapture, Shop!Provider!CanVoid, Provider!CanVoid,
                      Shop!Provider!Fake!Knows, Provider!Fake!Knows
  <1>4. \A id, From, s, t :
            Shop!Provider!MoveTxn(id, From, s, t) => Provider!MoveTxn(id, From, s, t)
    BY <1>1 DEF Shop!Provider!MoveTxn, Provider!MoveTxn
  <1>5. \A id : Shop!Provider!Capture(id) => Provider!Capture(id)
    BY <1>4 DEF Shop!Provider!Capture, Provider!Capture
  <1>6. \A id : Shop!Provider!Void(id) => Provider!Void(id)
    BY <1>4 DEF Shop!Provider!Void, Provider!Void
  <1>7. \A id, w : Shop!Provider!Refund(id, w) => Provider!Refund(id, w)
    BY <1>1, <1>2 DEF Shop!Provider!Refund, Provider!Refund, Shop!Provider!RefundAmount,
                      Provider!RefundAmount, Shop!Provider!FullAmount, Provider!FullAmount
  <1>8. /\ \A id : Shop!Provider!Fake!Capture(id) <=> Provider!Fake!Capture(id)
        /\ \A id : Shop!Provider!Fake!Void(id) <=> Provider!Fake!Void(id)
        /\ \A id : Shop!Provider!Fake!Refund(id) <=> Provider!Fake!Refund(id)
    BY DEF Shop!Provider!Fake!Capture, Provider!Fake!Capture, Shop!Provider!Fake!Void,
           Provider!Fake!Void, Shop!Provider!Fake!Refund, Provider!Fake!Refund,
           Shop!Provider!Fake!Knows, Provider!Fake!Knows
  <1>9. \A f, id, w : \A a \in {"capture", "void", "refund"} :
            Shop!Provider!Execute(f, a, id, w) => Provider!Execute(f, a, id, w)
    BY <1>5, <1>6, <1>7, <1>8 DEF Shop!Provider!Execute, Provider!Execute,
                                  Shop!Provider!zoopVars, Provider!zoopVars
  <1>10. QED
    BY <1>3, <1>9

------------------------------------------------------------------------------
(***************************************************************************)
(* What the step of a component does, in the words of this module.         *)
(***************************************************************************)
LEMMA FindKeyDoes ==
    ASSUME NEW r \in Requests, Wake!FindKey(r)
    PROVE  /\ wake[r].pc = "find"
           /\ UNCHANGED <<ledger, keys, providerVars, koinVars>>
           /\ \/ Wake!Goto(r, "insert")
              \/ Wake!Goto(r, "failed")
              \/ /\ OrderOf(r) \in DOMAIN keys /\ keys[OrderOf(r)].response # NoResponse
                 /\ Wake!Answer(r, keys[OrderOf(r)].response)
              \/ OrderOf(r) \in DOMAIN keys /\ Wake!Goto(r, "lookup")
  BY DEF Wake!FindKey, Wake!At, Wake!ledger, Wake!providerVars, Wake!koinVars, ledger,
         providerVars, koinVars, Wake!Keys!Known, Wake!Keys!Answered, OrderOf

LEMMA InsertKeyDoes ==
    ASSUME NEW r \in Requests, Wake!InsertKey(r)
    PROVE  /\ wake[r].pc = "insert" /\ UNCHANGED <<ledger, providerVars, koinVars>>
           /\ \/ /\ OrderOf(r) \notin DOMAIN keys
                 /\ keys' = [x \in DOMAIN keys \cup {OrderOf(r)} |->
                                IF x = OrderOf(r)
                                THEN [hash |-> wake[r].body.hash, response |-> NoResponse]
                                ELSE keys[x]]
                 /\ Wake!Goto(r, "create")
              \/ Wake!Goto(r, "failed") /\ UNCHANGED keys
  BY DEF Wake!InsertKey, Wake!At, Wake!ledger, Wake!providerVars, Wake!koinVars, ledger,
         providerVars, koinVars, Wake!Keys!CanInsert, Wake!Keys!Known, Wake!Keys!Insert,
         OrderOf

LEMMA LookUpDoes ==
    ASSUME NEW r \in Requests, Wake!LookUpPayment(r)
    PROVE  /\ wake[r].pc = "lookup"
           /\ UNCHANGED <<ledger, keys, providerVars, koinVars>>
           /\ \/ Wake!Goto(r, "create")
              \/ \E p \in DOMAIN payments :
                     /\ payments[p].store = Wake!StoreOf(r)
                     /\ payments[p].ref = Wake!RefOf(r)
                     /\ Wake!Answer(r, Wake!ResponseFor(payments[p]))
  BY DEF Wake!LookUpPayment, Wake!At, Wake!ledger, Wake!providerVars, Wake!koinVars,
         ledger, providerVars, koinVars, Wake!PaymentsOfAttempt,
         Wake!Ledger!FindByExternalRef

LEMMA CreatePaymentDoes ==
    ASSUME NEW r \in Requests, Wake!CreatePayment(r)
    PROVE  /\ wake[r].pc = "create" /\ UNCHANGED <<keys, providerVars, koinVars>>
           /\ \/ /\ Ledger!Create(r, Wake!StoreOf(r), Wake!RefOf(r))
                 /\ \E pc \in {"preEvaluate", "evaluate"} : Wake!Goto(r, pc)
              \/ Wake!Goto(r, "failed") /\ UNCHANGED ledger
  BY WakeLedger DEF Wake!CreatePayment, Wake!At, Wake!ledger, Wake!providerVars,
                    Wake!koinVars, ledger, providerVars, koinVars

LEMMA PreEvaluateDoes ==
    ASSUME NEW r \in Requests, Wake!PreEvaluate(r)
    PROVE  /\ wake[r].pc = "preEvaluate" /\ UNCHANGED <<ledger, keys, providerVars>>
           /\ \E v \in Risk!Verdicts :
                 /\ koin' = [koin EXCEPT ![r].pre = v] /\ UNCHANGED <<callbacks, notices>>
                 /\ \/ v = "denied" /\ Wake!GotoMove(r, "refused", Wake!Say(5))
                    \/ v # "denied" /\ Wake!Goto(r, "evaluate")
  BY DEF Wake!PreEvaluate, Wake!At, Wake!ledger, Wake!providerVars, ledger,
         providerVars, Wake!Risk!Verdicts, Risk!Verdicts, Wake!Risk!PreEvaluate

\* The answer that goes with each verdict.
SayAfter(v) == CASE v = "denied"   -> Wake!Say(5)
                 [] v = "received" -> Wake!Say(7)
                 [] v = "approved" -> NoResponse

LEMMA EvaluateDoes ==
    ASSUME NEW r \in Requests, Wake!EvaluateRisk(r)
    PROVE  /\ wake[r].pc = "evaluate" /\ UNCHANGED <<ledger, keys, providerVars>>
           /\ \E v \in Risk!Verdicts :
                 /\ \/ koin' = [koin EXCEPT ![r].eval = v]
                    \/ koin' = koin /\ v = "approved"
                 /\ UNCHANGED <<callbacks, notices>>
                 /\ Wake!GotoMove(r, Wake!StatusAfter(v), SayAfter(v))
  <1>1. wake[r].pc = "evaluate" /\ UNCHANGED <<ledger, keys, providerVars>>
    BY DEF Wake!EvaluateRisk, Wake!At, Wake!ledger, Wake!providerVars, ledger,
           providerVars
  <1>2. PICK v \in Risk!Verdicts :
            /\ Wake!Risk!Evaluate(r, Wake!StoreOf(r), v)
            /\ Wake!GotoMove(r, Wake!StatusAfter(v), SayAfter(v))
    BY DEF Wake!EvaluateRisk, Wake!Risk!Verdicts, Risk!Verdicts, SayAfter
  <1>3. QED
    BY <1>1, <1>2 DEF Wake!Risk!Evaluate, Wake!Risk!vars

LEMMA MoveDoes ==
    ASSUME NEW r \in Requests, Wake!Move(r)
    PROVE  /\ wake[r].pc = "move" /\ UNCHANGED <<keys, providerVars, koinVars>>
           /\ \/ /\ Ledger!Transition(r, Wake!StoreOf(r), wake[r].to)
                 /\ Wake!Goto(r, Wake!AfterMove(r))
              \/ Wake!Goto(r, "failed") /\ UNCHANGED ledger
  BY WakeLedger DEF Wake!Move, Wake!At, Wake!ledger, Wake!providerVars, Wake!koinVars,
                    ledger, providerVars, koinVars

LEMMA NotifyRefusalDoes ==
    ASSUME NEW r \in Requests, Wake!NotifyRefusal(r)
    PROVE  /\ wake[r].pc = "notify" /\ UNCHANGED <<ledger, keys, providerVars>>
           /\ Wake!Goto(r, "save") /\ UNCHANGED <<koin, callbacks>>
           /\ notices' \subseteq notices \cup {<<r, "cancelled">>}
  BY DEF Wake!NotifyRefusal, Wake!At, Wake!ledger, Wake!providerVars, ledger,
         providerVars, Wake!Risk!Notify

\* A real charge goes to Zoop or nowhere, and its answer may be lost; one of a store
\* with the double goes to the double.
LEMMA ChargeDoes ==
    ASSUME NEW r \in Requests, Wake!Charge(r)
    PROVE  LET f == Wake!StoreOf(r) \in FakeStores
               m == Wake!MethodOf(r)
               c == m # "credit_card" IN
           /\ wake[r].pc = "charge" /\ UNCHANGED <<ledger, keys, koinVars>>
           /\ \/ \E o \in Provider!Outcomes(f, m, c) :
                    /\ Provider!Charge(f, r, m, c, o)
                    /\ wake' = [wake EXCEPT ![r].pc = "record",
                                   ![r].answer = Provider!ResultOf(f, r, m, o)]
              \/ /\ ~f
                 /\ \E o \in Provider!Outcomes(f, m, c) : Provider!Charge(f, r, m, c, o)
                 /\ Wake!Goto(r, "recordFailure")
              \/ Wake!Goto(r, "recordFailure") /\ UNCHANGED providerVars
  BY WakeProvider DEF Wake!Charge, Wake!At, Wake!ledger, Wake!koinVars, ledger,
                      koinVars, Wake!providerVars, providerVars, Wake!Faked

LEMMA RecordChargeDoes ==
    ASSUME NEW r \in Requests, Wake!RecordCharge(r)
    PROVE  LET x == wake[r].answer IN
           /\ wake[r].pc = "record" /\ UNCHANGED <<keys, providerVars, koinVars>>
           /\ Ledger!SaveProviderCharge(r, [providerId |-> x.id, status |-> x.status])
           /\ \/ x.status = "failed" /\ Wake!GotoMove(r, "refused", Wake!Say(2))
              \/ x.status # "failed" /\ x.code /\ Wake!Goto(r, "instrument")
              \/ x.status # "failed" /\ Wake!GotoMove(r, "authorized", Wake!Say(1))
  BY WakeLedger DEF Wake!RecordCharge, Wake!At, Wake!providerVars, Wake!koinVars,
                    providerVars, koinVars

LEMMA RecordFailureDoes ==
    ASSUME NEW r \in Requests, Wake!RecordFailure(r)
    PROVE  /\ wake[r].pc = "recordFailure" /\ UNCHANGED <<keys, providerVars, koinVars>>
           /\ Ledger!SaveProviderCharge(r, [providerId |-> NoProviderId,
                                            status |-> "failed"])
           /\ Wake!GotoMove(r, "refused", Wake!Say(2))
  BY WakeLedger DEF Wake!RecordFailure, Wake!At, Wake!providerVars, Wake!koinVars,
                    providerVars, koinVars

LEMMA SaveInstrumentDoes ==
    ASSUME NEW r \in Requests, Wake!SaveInstrument(r)
    PROVE  /\ wake[r].pc = "instrument" /\ UNCHANGED <<keys, providerVars, koinVars>>
           /\ Ledger!UpdateInstrument(r, Wake!StoreOf(r), Wake!MethodOf(r))
           /\ Wake!GotoMove(r, "waiting_payment",
                            [statusId |-> 7, instrument |-> Wake!MethodOf(r)])
  BY WakeLedger DEF Wake!SaveInstrument, Wake!At, Wake!providerVars, Wake!koinVars,
                    providerVars, koinVars

LEMMA SaveResponseDoes ==
    ASSUME NEW r \in Requests, Wake!SaveResponse(r)
    PROVE  /\ wake[r].pc = "save" /\ UNCHANGED <<ledger, providerVars, koinVars>>
           /\ keys' = [keys EXCEPT ![OrderOf(r)].response = wake[r].resp]
           /\ Wake!Goto(r, "done")
  BY DEF Wake!SaveResponse, Wake!At, Wake!ledger, Wake!providerVars, Wake!koinVars,
         ledger, providerVars, koinVars, Wake!Keys!SaveResponse, OrderOf

LEMMA DieDoes ==
    ASSUME NEW r \in Requests, Wake!Die(r)
    PROVE  /\ wake[r].pc # "done" /\ Wake!Goto(r, "failed")
           /\ UNCHANGED <<ledger, keys, providerVars, koinVars>>
  BY DEF Wake!Die, Wake!Ended, Wake!ledger, Wake!providerVars, Wake!koinVars, ledger,
         providerVars, koinVars

LEMMA LoadDoes ==
    ASSUME NEW o \in Ops, NEW p, Shop!Load(o, p)
    PROVE  /\ ops[o].pc = "idle" /\ ops[o].kind # "chargeback"
           /\ UNCHANGED <<ledger, providerVars, koinVars>>
           /\ \/ /\ Shop!HasCharge(p)
                 /\ ops' = [ops EXCEPT ![o].pc = "zoop", ![o].p = p,
                                       ![o].id = Shop!LastCharge(p).providerId,
                                       ![o].action = Shop!ActionFor(o, p)]
              \/ ops' = [ops EXCEPT ![o].pc = "failed", ![o].p = p]
  BY DEF Shop!Load, Shop!ledger, Shop!providerVars, Shop!koinVars, ledger, providerVars,
         koinVars

LEMMA ChargebackDoes ==
    ASSUME NEW o \in Ops, NEW p, Shop!Chargeback(o, p)
    PROVE  /\ ops[o].pc = "idle" /\ UNCHANGED <<ledger, providerVars, koinVars>>
           /\ ops' = [ops EXCEPT ![o].pc = "move", ![o].p = p, ![o].to = "chargeback"]
  BY DEF Shop!Chargeback, Shop!ledger, Shop!providerVars, Shop!koinVars, ledger,
         providerVars, koinVars

LEMMA OperationMoveDoes ==
    ASSUME NEW o \in Ops, Shop!Move(o)
    PROVE  /\ ops[o].pc = "move" /\ UNCHANGED <<providerVars, koinVars>>
           /\ \/ /\ Ledger!Transition(ops[o].p, Shop!StoreOf(o), ops[o].to)
                 /\ ops' = [ops EXCEPT ![o].pc = "notify",
                                       ![o].todo = Shop!NoticesOf(ops[o].action)]
              \/ ops' = [ops EXCEPT ![o].pc = "failed"] /\ UNCHANGED ledger
  BY ShopLedger DEF Shop!Move, Shop!ledger, Shop!providerVars, Shop!koinVars, ledger,
                    providerVars, koinVars

LEMMA NotifyOutcomeDoes ==
    ASSUME NEW o \in Ops, Shop!NotifyOutcome(o)
    PROVE  /\ ops[o].pc = "notify" /\ UNCHANGED <<ledger, providerVars>>
           /\ \/ /\ ops[o].todo # <<>> /\ UNCHANGED <<koin, callbacks>>
                 /\ notices' \subseteq notices \cup {<<ops[o].p, Head(ops[o].todo)>>}
                 /\ ops' = [ops EXCEPT ![o].todo = Tail(@)]
              \/ ops' = [ops EXCEPT ![o].pc = "done"] /\ UNCHANGED koinVars
  BY DEF Shop!NotifyOutcome, Shop!Risk!Notify, Shop!ledger, Shop!providerVars,
         Shop!koinVars, ledger, providerVars, koinVars

LEMMA OperationDieDoes ==
    ASSUME NEW o \in Ops, Shop!Die(o)
    PROVE  /\ ops' = [ops EXCEPT ![o].pc = "failed"]
           /\ UNCHANGED <<ledger, providerVars, koinVars>>
  BY DEF Shop!Die, Shop!ledger, Shop!providerVars, Shop!koinVars, ledger, providerVars,
         koinVars

LEMMA DeliverZoopDoes ==
    ASSUME NEW m, Hooks!DeliverZoop(m)
    PROVE  /\ m \in hooks /\ acked' = acked \cup {m}
           /\ UNCHANGED <<zoop, hooks, koinVars, todo>>
           /\ \/ UNCHANGED ledger
              \/ Ledger!Transition(m.ref, AnyStore, Hooks!ZoopStatus(m.type))
  BY HooksLedger DEF Hooks!DeliverZoop, Hooks!koinVars, koinVars, Hooks!ledger, ledger

LEMMA DeliverKoinDoes ==
    ASSUME NEW c, Hooks!DeliverKoin(c)
    PROVE  /\ c \in callbacks /\ acked' = acked \cup {c}
           /\ UNCHANGED <<zoop, hooks, koinVars>>
           /\ \/ UNCHANGED <<ledger, todo>>
              \/ /\ Ledger!Transition(c.ref, AnyStore, Hooks!KoinStatus(c.status))
                 /\ \/ todo' = todo
                    \/ /\ c.status = "denied"
                       /\ todo' = [todo EXCEPT ![c.ref] = <<"not_collected", "cancelled">>]
  BY HooksLedger DEF Hooks!DeliverKoin, Hooks!koinVars, koinVars, Hooks!ledger, ledger

LEMMA NotifyDenialDoes ==
    ASSUME NEW p, Hooks!NotifyDenial(p)
    PROVE  /\ todo[p] # <<>> /\ UNCHANGED <<ledger, zoop, hooks, acked, koin, callbacks>>
           /\ notices' \subseteq notices \cup {<<p, Head(todo[p])>>}
           /\ todo' = [todo EXCEPT ![p] = Tail(todo[p])]
  BY DEF Hooks!NotifyDenial, Hooks!Risk!Notify, Hooks!ledger, ledger

LEMMA SwallowDoes ==
    ASSUME NEW m, Hooks!Swallow(m)
    PROVE  /\ m \in hooks \cup callbacks /\ acked' = acked \cup {m}
           /\ UNCHANGED <<ledger, zoop, hooks, koinVars, todo>>
  BY DEF Hooks!Swallow, Hooks!ledger, ledger, Hooks!koinVars, koinVars

------------------------------------------------------------------------------
(***************************************************************************)
(* What the operations of the ledger and of the providers leave alone.     *)
(***************************************************************************)

\* Every payment keeps its store and its order, and none is made.
SameRows ==
    /\ DOMAIN payments' = DOMAIN payments
    /\ \A p \in DOMAIN payments : /\ payments'[p].store = payments[p].store
                                  /\ payments'[p].ref = payments[p].ref

LEMMA LedgerTypes ==
    /\ Ledger!Statuses = Statuses
    /\ Ledger!TypeOK => \A p \in DOMAIN payments :
           /\ p \in PaymentIds /\ payments[p] \in Ledger!PaymentRow
           /\ payments[p].status \in Statuses
  BY DEF Ledger!TypeOK, Ledger!PaymentRow, Ledger!Statuses, Statuses

LEMMA TransitionEffect ==
    ASSUME Ledger!TypeOK, NEW p, NEW s, NEW to \in Statuses, Ledger!Transition(p, s, to)
    PROVE  /\ Ledger!TypeOK' /\ SameRows /\ UNCHANGED charges
           /\ p \in DOMAIN payments
  <1>1. p \in DOMAIN payments /\ p \in PaymentIds /\ payments[p] \in Ledger!PaymentRow
    BY LedgerTypes DEF Ledger!Transition, Ledger!CanMove, Ledger!InScope, Ledger!Exists
  <1>2. /\ DOMAIN payments' = DOMAIN payments
        /\ payments' \in [DOMAIN payments' -> Ledger!PaymentRow]
    BY <1>1, LedgerTypes DEF Ledger!Transition, Ledger!TypeOK, Ledger!PaymentRow
  <1>3. SameRows
    BY <1>1, <1>2 DEF Ledger!Transition, SameRows, Ledger!TypeOK, Ledger!PaymentRow
  <1>4. Ledger!EventOf(p, to) \in Ledger!EventRow
    BY <1>1, LedgerTypes DEF Ledger!EventRow, Ledger!EventOf, Ledger!PaymentRow
  <1>5. events' \in [PaymentIds -> Seq(Ledger!EventRow)]
    BY <1>1, <1>4 DEF Ledger!Transition, Ledger!TypeOK
  <1>6. [store |-> payments[p].store, type |-> to] \in Ledger!OutboxRow
    BY <1>1, LedgerTypes DEF Ledger!OutboxRow, Ledger!PaymentRow
  <1>7. outbox' \in [PaymentIds -> Seq(Ledger!OutboxRow)]
    BY <1>1, <1>6 DEF Ledger!Transition, Ledger!TypeOK
  <1>8. QED
    BY <1>1, <1>2, <1>3, <1>5, <1>7 DEF Ledger!Transition, Ledger!TypeOK

LEMMA InstrumentEffect ==
    ASSUME Ledger!TypeOK, NEW p, NEW s, NEW i \in {"pix", "boleto"},
           Ledger!UpdateInstrument(p, s, i)
    PROVE  Ledger!TypeOK' /\ SameRows /\ UNCHANGED charges
  <1>1. p \in DOMAIN payments /\ payments[p] \in Ledger!PaymentRow
    BY LedgerTypes DEF Ledger!UpdateInstrument, Ledger!InScope, Ledger!Exists
  <1>2. QED
    BY <1>1 DEF Ledger!UpdateInstrument, SameRows, Ledger!TypeOK, Ledger!PaymentRow,
                Ledger!Instruments

LEMMA SaveChargeEffect ==
    ASSUME Ledger!TypeOK, NEW p \in PaymentIds, NEW row \in Ledger!ChargeRow,
           Ledger!SaveProviderCharge(p, row)
    PROVE  /\ Ledger!TypeOK' /\ UNCHANGED payments
           /\ charges'[p] = Append(charges[p], row)
           /\ \A q \in PaymentIds \ {p} : charges'[q] = charges[q]
  BY DEF Ledger!SaveProviderCharge, Ledger!TypeOK

LEMMA CreateEffect ==
    ASSUME Ledger!TypeOK, NEW p \in PaymentIds, NEW s \in Stores, NEW k \in Refs,
           Ledger!Create(p, s, k)
    PROVE  /\ Ledger!TypeOK' /\ UNCHANGED charges
           /\ DOMAIN payments' = DOMAIN payments \cup {p} /\ p \notin DOMAIN payments
           /\ payments'[p].store = s /\ payments'[p].ref = k
           /\ \A q \in DOMAIN payments : payments'[q] = payments[q]
           /\ \A q \in DOMAIN payments : payments[q].store # s \/ payments[q].ref # k
  BY DEF Ledger!Create, Ledger!TypeOK, Ledger!Exists, Ledger!CanCreate,
         Ledger!FindByExternalRef, Ledger!InitialStatus, Ledger!PaymentRow,
         Ledger!Instruments, Ledger!Statuses

\* Every payment keeps as many transactions, at Zoop and at its double; what Zoop
\* told it does not untell.
SameCharges ==
    /\ \A p \in PaymentIds :
           /\ Len(zoop'[p]) = Len(zoop[p]) /\ (zoop'[p] = <<>> <=> zoop[p] = <<>>)
           /\ Len(fake'[p]) = Len(fake[p]) /\ (fake'[p] = <<>> <=> fake[p] = <<>>)
    /\ hooks \subseteq hooks'

LEMMA TxnTypes ==
    ASSUME Provider!BothTypeOK, NEW id \in Provider!Txns
    PROVE  id[1] \in PaymentIds /\ zoop[id[1]][id[2]] \in Provider!Txn
  BY DEF Provider!Txns, Provider!TxnIds, Provider!BothTypeOK, Provider!TypeOK

LEMMA TxnMoves ==
    ASSUME Provider!BothTypeOK, NEW id \in Provider!Txns, NEW t \in Provider!Txn,
           NEW m \in Provider!Hook,
           zoop' = [zoop EXCEPT ![id[1]][id[2]] = t], hooks' = hooks \cup {m},
           UNCHANGED fake
    PROVE  Provider!BothTypeOK' /\ SameCharges
  <1>1. PICK p \in PaymentIds, i \in 1 .. MaxTxns : id = <<p, i>>
    BY DEF Provider!Txns, Provider!TxnIds
  <1> DEFINE h == zoop[p]
             g == [h EXCEPT ![i] = t]
  <1>2. /\ h \in Seq(Provider!Txn) /\ i \in 1 .. Len(h)
    BY <1>1 DEF Provider!Txns, Provider!TxnIds, Provider!BothTypeOK, Provider!TypeOK
  <1>3. zoop' = [zoop EXCEPT ![p] = g]
    BY <1>1
  <1>4. g \in Seq(Provider!Txn) /\ Len(g) = Len(h) /\ g # <<>> /\ h # <<>>
    BY <1>2
  <1> HIDE DEF g
  <1>5. zoop'[p] = g /\ \A q \in PaymentIds \ {p} : zoop'[q] = zoop[q]
    BY <1>3 DEF Provider!BothTypeOK, Provider!TypeOK
  <1>6. SameCharges
    BY <1>4, <1>5 DEF SameCharges
  <1>7. Provider!TypeOK'
    BY <1>3, <1>4 DEF Provider!BothTypeOK, Provider!TypeOK
  <1>8. Provider!Fake!TypeOK'
    BY DEF Provider!BothTypeOK, Provider!Fake!TypeOK
  <1>9. QED
    BY <1>6, <1>7, <1>8 DEF Provider!BothTypeOK

LEMMA MoveTxnEffect ==
    ASSUME Provider!BothTypeOK, NEW id \in Provider!Txns, NEW From,
           NEW s \in Provider!TxnStatuses, NEW type \in Provider!HookTypes,
           Provider!MoveTxn(id, From, s, type), UNCHANGED fake
    PROVE  Provider!BothTypeOK' /\ SameCharges
  <1> DEFINE t == [zoop[id[1]][id[2]] EXCEPT !.status = s]
             m == [type |-> type, ref |-> id[1]]
  <1>1. id[1] \in PaymentIds /\ zoop[id[1]][id[2]] \in Provider!Txn
    BY TxnTypes
  <1>2. t \in Provider!Txn /\ m \in Provider!Hook
    BY <1>1 DEF Provider!Txn, Provider!Hook
  <1>3. zoop' = [zoop EXCEPT ![id[1]][id[2]] = t] /\ hooks' = hooks \cup {m}
    BY DEF Provider!MoveTxn
  <1> HIDE DEF t, m
  <1>4. QED
    BY <1>2, <1>3, TxnMoves

LEMMA RefundEffect ==
    ASSUME Provider!BothTypeOK, NEW id \in Provider!Txns, NEW full,
           Provider!Refund(id, full), UNCHANGED fake
    PROVE  Provider!BothTypeOK' /\ SameCharges
  <1> DEFINE x == zoop[id[1]][id[2]]
             n == x.refunded + Provider!RefundAmount(id, full)
             t == [x EXCEPT !.refunded = n]
             m == [type |-> "transaction.refunded", ref |-> id[1]]
  <1>1. id[1] \in PaymentIds /\ x \in Provider!Txn
    BY TxnTypes
  <1>2. x.refunded \in 0 .. 1
    BY <1>1 DEF Provider!Txn, Provider!Refund, Provider!CanRefund, Provider!TxnOf,
                Provider!FullAmount
  <1>3. n \in 0 .. 2
    BY <1>2 DEF Provider!RefundAmount, Provider!FullAmount, Provider!TxnOf
  <1>4. t \in Provider!Txn /\ m \in Provider!Hook
    BY <1>1, <1>3 DEF Provider!Txn, Provider!Hook, Provider!FullAmount, Provider!HookTypes
  <1>5. zoop' = [zoop EXCEPT ![id[1]][id[2]] = t] /\ hooks' = hooks \cup {m}
    BY DEF Provider!Refund
  <1> HIDE DEF t, m
  <1>6. QED
    BY <1>4, <1>5, TxnMoves

\* Whatever happens at Zoop by itself.
LEMMA ZoopEffect ==
    ASSUME Provider!BothTypeOK, NEW id \in Provider!Txns, ZoopMoves(id)
    PROVE  Provider!BothTypeOK' /\ SameCharges
  <1>1. ASSUME NEW From, NEW s \in Provider!TxnStatuses, NEW type \in Provider!HookTypes,
               Provider!MoveTxn(id, From, s, type)
        PROVE  Provider!BothTypeOK' /\ SameCharges
    BY <1>1, MoveTxnEffect DEF ZoopMoves
  <1>2. CASE Provider!PaidOut(id)
    <2> DEFINE t == [zoop[id[1]][id[2]] EXCEPT !.paidOut = TRUE]
               m == [type |-> "receivable.paid", ref |-> id[1]]
    <2>1. t \in Provider!Txn /\ m \in Provider!Hook
      BY TxnTypes DEF Provider!Txn, Provider!Hook, Provider!HookTypes
    <2>2. zoop' = [zoop EXCEPT ![id[1]][id[2]] = t] /\ hooks' = hooks \cup {m}
      BY <1>2 DEF Provider!PaidOut
    <2>3. UNCHANGED fake
      BY DEF ZoopMoves
    <2> HIDE DEF t, m
    <2>4. QED
      BY <2>1, <2>2, <2>3, TxnMoves
  <1>3. CASE Provider!BuyerPays(id)
    BY <1>1, <1>3 DEF Provider!BuyerPays, Provider!TxnStatuses, Provider!HookTypes
  <1>4. CASE Provider!CodeExpires(id)
    BY <1>1, <1>4 DEF Provider!CodeExpires, Provider!TxnStatuses, Provider!HookTypes
  <1>5. CASE Provider!CardDecided(id)
    BY <1>1, <1>5 DEF Provider!CardDecided, Provider!TxnStatuses, Provider!HookTypes
  <1>6. CASE Provider!AuthorizationLapses(id)
    BY <1>1, <1>6 DEF Provider!AuthorizationLapses, Provider!TxnStatuses,
                      Provider!HookTypes
  <1>7. CASE Provider!ChargedBack(id)
    BY <1>1, <1>7 DEF Provider!ChargedBack, Provider!TxnStatuses, Provider!HookTypes
  <1>8. QED
    BY <1>2, <1>3, <1>4, <1>5, <1>6, <1>7 DEF ZoopMoves

\* capture, void and refund of a charge the provider has, or says it has not.
LEMMA ExecuteEffect ==
    ASSUME Provider!BothTypeOK, NEW p \in PaymentIds, NEW f \in BOOLEAN, NEW full,
           NEW a \in {"capture", "void", "refund"}, ~f => zoop[p] # <<>>,
           Provider!Accepts(f, a, <<p, 1>>, full), Provider!Execute(f, a, <<p, 1>>, full)
    PROVE  Provider!BothTypeOK' /\ SameCharges
  <1> DEFINE id == <<p, 1>>
  <1>1. CASE f
    <2>1. UNCHANGED <<zoop, hooks>> /\ 1 <= Len(fake[p])
      BY <1>1 DEF Provider!Execute, Provider!zoopVars, Provider!Accepts,
                  Provider!Fake!Knows
    <2>2. \/ UNCHANGED fake
          \/ \E s \in {"captured", "reversed"} : fake' = [fake EXCEPT ![p][1] = s]
      BY <1>1 DEF Provider!Execute, Provider!Fake!Capture, Provider!Fake!Void,
                  Provider!Fake!Refund
    <2>3. ASSUME NEW s \in {"captured", "reversed"}, fake' = [fake EXCEPT ![p][1] = s]
          PROVE  Provider!Fake!TypeOK' /\ SameCharges
      <3> DEFINE g == [fake[p] EXCEPT ![1] = s]
      <3>1. fake[p] \in Seq(Provider!Fake!FakeStatuses) /\ s \in Provider!Fake!FakeStatuses
        BY DEF Provider!BothTypeOK, Provider!Fake!TypeOK, Provider!Fake!FakeStatuses
      <3>2. /\ g \in Seq(Provider!Fake!FakeStatuses) /\ Len(g) = Len(fake[p])
            /\ g # <<>> /\ fake[p] # <<>>
        BY <2>1, <3>1
      <3>3. fake' = [fake EXCEPT ![p] = g]
        BY <2>3
      <3> HIDE DEF g
      <3>4. fake'[p] = g /\ \A q \in PaymentIds \ {p} : fake'[q] = fake[q]
        BY <3>3 DEF Provider!BothTypeOK, Provider!Fake!TypeOK
      <3>5. SameCharges
        BY <2>1, <3>2, <3>4 DEF SameCharges
      <3>6. Provider!Fake!TypeOK'
        BY <3>2, <3>3 DEF Provider!BothTypeOK, Provider!Fake!TypeOK
      <3>7. QED
        BY <3>5, <3>6
    <2>4. Provider!TypeOK'
      BY <2>1 DEF Provider!BothTypeOK, Provider!TypeOK
    <2>5. UNCHANGED fake => Provider!Fake!TypeOK' /\ SameCharges
      BY <2>1 DEF Provider!BothTypeOK, Provider!Fake!TypeOK, SameCharges
    <2>6. QED
      BY <2>2, <2>3, <2>4, <2>5 DEF Provider!BothTypeOK
  <1>2. CASE ~f
    <2>1. id \in Provider!Txns
      <3>1. /\ Len(zoop[p]) \in 1 .. MaxTxns /\ id[1] = p /\ id[2] = 1
        BY <1>2, LedgerConstants DEF Provider!BothTypeOK, Provider!TypeOK
      <3>2. QED
        BY <3>1, LedgerConstants DEF Provider!Txns, Provider!TxnIds
    <2>2. /\ UNCHANGED fake
          /\ \/ Provider!Capture(id) \/ Provider!Void(id) \/ Provider!Refund(id, full)
      BY <1>2 DEF Provider!Execute
    <2> HIDE DEF id
    <2>3. CASE Provider!Capture(id)
      BY <2>1, <2>2, <2>3, MoveTxnEffect
         DEF Provider!Capture, Provider!TxnStatuses, Provider!HookTypes
    <2>4. CASE Provider!Void(id)
      BY <2>1, <2>2, <2>4, MoveTxnEffect
         DEF Provider!Void, Provider!TxnStatuses, Provider!HookTypes
    <2>5. CASE Provider!Refund(id, full)
      BY <2>1, <2>2, <2>5, RefundEffect
    <2>6. QED
      BY <2>2, <2>3, <2>4, <2>5
  <1>3. QED
    BY <1>1, <1>2

\* The provider behind f gets its first charge of p, the other none; its answer
\* names that charge.
FirstCharge(f, p) ==
    /\ <<p, 1>> \in ProviderIds
    /\ IF f THEN fake'[p] # <<>> /\ zoop'[p] = <<>>
            ELSE zoop'[p] # <<>> /\ fake'[p] = <<>>
    /\ Len(zoop'[p]) <= 1 /\ Len(fake'[p]) <= 1
    /\ \A q \in PaymentIds \ {p} : zoop'[q] = zoop[q] /\ fake'[q] = fake[q]

LEMMA ChargeEffect ==
    ASSUME Provider!BothTypeOK, NEW p \in PaymentIds, NEW m \in Provider!Methods,
           NEW f \in BOOLEAN, NEW c \in BOOLEAN, NEW o \in Provider!Outcomes(f, m, c),
           Provider!Charge(f, p, m, c, o), zoop[p] = <<>>, fake[p] = <<>>
    PROVE  /\ Provider!BothTypeOK' /\ FirstCharge(f, p) /\ hooks \subseteq hooks'
           /\ LET x == Provider!ResultOf(f, p, m, o) IN
              /\ x \in Wake!ChargeResult /\ x.id = <<p, 1>>
              /\ x.code => m # "credit_card"
  <1>1. MaxTxns \in Nat
    BY LedgerConstants
  <1> DEFINE x == Provider!ResultOf(f, p, m, o)
  <1>2. CASE f
    <2>1. /\ Len(fake[p]) < MaxTxns /\ fake' = [fake EXCEPT ![p] = Append(@, o.status)]
          /\ UNCHANGED <<zoop, hooks>>
      BY <1>2 DEF Provider!Charge, Provider!Fake!Register, Provider!zoopVars
    <2>2. /\ o.status \in {"failed", "captured", "authorized", "waiting_payment"}
          /\ o.code \in BOOLEAN /\ (o.code => m # "credit_card")
      <3>1. o \in Provider!Fake!Outcomes(m, c)
        BY <1>2 DEF Provider!Outcomes
      <3>2. CASE m = "credit_card"
        <4>1. PICK s \in {"failed", "captured", "authorized"} :
                  o = [status |-> s, code |-> FALSE]
          BY <3>1, <3>2 DEF Provider!Fake!Outcomes
        <4>2. o.status = s /\ o.code = FALSE
          BY <4>1
        <4>3. QED
          BY <4>2
      <3>3. CASE m # "credit_card"
        <4>1. o = [status |-> "waiting_payment", code |-> TRUE]
          BY <3>1, <3>3 DEF Provider!Fake!Outcomes
        <4>2. o.status = "waiting_payment" /\ o.code = TRUE
          BY <4>1
        <4>3. QED
          BY <3>3, <4>2
      <3>4. QED
        BY <3>2, <3>3
    <2>3. /\ fake'[p] = <<o.status>> /\ fake'[p] # <<>> /\ Len(fake'[p]) = 1
          /\ \A q \in PaymentIds \ {p} : fake'[q] = fake[q]
      BY <2>1 DEF Provider!BothTypeOK, Provider!Fake!TypeOK
    <2>4. Provider!Fake!TypeOK'
      BY <1>1, <2>1, <2>2, <2>3 DEF Provider!BothTypeOK, Provider!Fake!TypeOK,
                                    Provider!Fake!FakeStatuses
    <2>5. Provider!TypeOK'
      BY <2>1 DEF Provider!BothTypeOK, Provider!TypeOK
    <2>6. <<p, 1>> \in ProviderIds
      BY <1>1, <2>1 DEF ProviderIds
    <2>7. FirstCharge(f, p)
      BY <1>2, <2>1, <2>3, <2>6 DEF FirstCharge
    <2>8. x = [id |-> <<p, 1>>, status |-> o.status, code |-> o.code]
      BY <1>2 DEF Provider!ResultOf
    <2> HIDE DEF x
    <2>9. x \in Wake!ChargeResult /\ x.id = <<p, 1>>
      BY <2>2, <2>6, <2>8 DEF Wake!ChargeResult, Wake!Ledger!ChargeStatuses,
                              Wake!ProviderIds, ProviderIds, Wake!PaymentIds, PaymentIds
    <2>10. x.code = o.code
      BY <2>8
    <2>11. x.code => m # "credit_card"
      BY <2>2, <2>10, Zenon
    <2>12. QED
      BY <2>1, <2>4, <2>5, <2>7, <2>9, <2>11 DEF Provider!BothTypeOK, x
  <1>3. CASE ~f
    <2>1. /\ Provider!CreateCharge(p, m, c, o.status)
          /\ UNCHANGED fake
      BY <1>3 DEF Provider!Charge
    <2>2. /\ o.status \in {"pending", "failed", "succeeded", "pre_authorized"}
          /\ o.code \in BOOLEAN /\ (o.code => m # "credit_card")
      BY <1>3 DEF Provider!Outcomes, Provider!FirstStatuses
    <2> DEFINE t == [method |-> m, status |-> o.status, refunded |-> 0,
                     capture |-> c /\ m = "credit_card", paidOut |-> FALSE]
    <2>3. t \in Provider!Txn
      BY <2>2 DEF Provider!Txn, Provider!TxnStatuses, Provider!FullAmount
    <2>4. /\ Len(zoop[p]) < MaxTxns /\ zoop' = [zoop EXCEPT ![p] = Append(@, t)]
          /\ hooks' = hooks \cup Provider!FirstHooks(p, o.status)
      BY <2>1 DEF Provider!CreateCharge
    <2> HIDE DEF t
    <2>5. /\ zoop'[p] = <<t>> /\ zoop'[p] # <<>> /\ Len(zoop'[p]) = 1
          /\ \A q \in PaymentIds \ {p} : zoop'[q] = zoop[q]
      BY <2>4 DEF Provider!BothTypeOK, Provider!TypeOK
    <2>6. Provider!FirstHooks(p, o.status) \subseteq Provider!Hook
      BY DEF Provider!FirstHooks, Provider!Hook, Provider!HookTypes
    <2>7. Provider!TypeOK'
      BY <1>1, <2>3, <2>4, <2>5, <2>6 DEF Provider!BothTypeOK, Provider!TypeOK
    <2>8. Provider!Fake!TypeOK'
      BY <2>1 DEF Provider!BothTypeOK, Provider!Fake!TypeOK
    <2>9. <<p, 1>> \in ProviderIds
      BY <1>1, <2>4 DEF ProviderIds
    <2>10. FirstCharge(f, p)
      BY <1>3, <2>1, <2>5, <2>9 DEF FirstCharge
    <2>11. x = [id |-> <<p, 1>>, status |-> Provider!ChargeStatus(m, o.status),
                code |-> o.code]
      BY <1>3 DEF Provider!ResultOf
    <2>12. Provider!ChargeStatus(m, o.status) \in Wake!Ledger!ChargeStatuses
      BY <2>2 DEF Provider!ChargeStatus, Provider!MapZoopStatus, Wake!Ledger!ChargeStatuses
    <2> HIDE DEF x
    <2>13. x \in Wake!ChargeResult /\ x.id = <<p, 1>>
      BY <2>2, <2>9, <2>11, <2>12 DEF Wake!ChargeResult, Wake!ProviderIds, ProviderIds,
                                     Wake!PaymentIds, PaymentIds
    <2>14. x.code = o.code
      BY <2>11
    <2>15. x.code => m # "credit_card"
      BY <2>2, <2>14, Zenon
    <2>16. QED
      BY <2>4, <2>7, <2>8, <2>10, <2>13, <2>15 DEF Provider!BothTypeOK, x
  <1>4. QED
    BY <1>2, <1>3

------------------------------------------------------------------------------
(***************************************************************************)
(* Steps of a request: they change its own state, what belongs to its own  *)
(* payment, and the key of its order.                                      *)
(***************************************************************************)
LEMMA RequestTypes ==
    ASSUME Wake!TypeOK, NEW r \in Requests
    PROVE  /\ wake[r] \in Wake!RequestState /\ wake[r].body \in Wake!Body
           /\ Wake!StoreOf(r) \in Stores /\ Wake!RefOf(r) \in Refs
           /\ Wake!MethodOf(r) \in Provider!Methods
           /\ wake[r].resp \in Wake!Response \cup {NoResponse}
  BY DEF Wake!TypeOK, Wake!RequestState, Wake!Body, Wake!StoreOf, Wake!RefOf,
         Wake!MethodOf, Wake!Provider!Methods, Provider!Methods

\* Only r moves, and it asks what it asked.
OnlyRequest(r) ==
    /\ wake'[r].body = wake[r].body
    /\ \A q \in Requests \ {r} : wake'[q] = wake[q]

LEMMA GotoEffect ==
    ASSUME Wake!TypeOK, NEW r \in Requests, NEW pc \in Wake!Pcs, Wake!Goto(r, pc)
    PROVE  /\ Wake!TypeOK' /\ OnlyRequest(r)
           /\ wake'[r].pc = pc /\ wake'[r].to = wake[r].to
           /\ wake'[r].answer = wake[r].answer /\ wake'[r].resp = wake[r].resp
  BY DEF Wake!Goto, Wake!TypeOK, Wake!RequestState, OnlyRequest

LEMMA AnswerEffect ==
    ASSUME Wake!TypeOK, NEW r \in Requests, NEW resp \in Wake!Response \cup {NoResponse},
           Wake!Answer(r, resp)
    PROVE  /\ Wake!TypeOK' /\ OnlyRequest(r)
           /\ wake'[r].pc = "done" /\ wake'[r].resp = resp
  BY DEF Wake!Answer, Wake!TypeOK, Wake!RequestState, Wake!Pcs, OnlyRequest

LEMMA GotoMoveEffect ==
    ASSUME Wake!TypeOK, NEW r \in Requests, NEW to \in Statuses,
           NEW resp \in Wake!Response \cup {NoResponse}, Wake!GotoMove(r, to, resp)
    PROVE  /\ Wake!TypeOK' /\ OnlyRequest(r)
           /\ wake'[r].pc = "move" /\ wake'[r].to = to /\ wake'[r].resp = resp
  <1>1. to \in Wake!Statuses
    BY DEF Wake!Statuses, Statuses
  <1> DEFINE w == [wake[r] EXCEPT !.pc = "move", !.to = to, !.resp = resp]
  <1>2. /\ w \in Wake!RequestState /\ w.body = wake[r].body
        /\ w.pc = "move" /\ w.to = to /\ w.resp = resp
    BY <1>1, RequestTypes DEF Wake!RequestState, Wake!Pcs
  <1>3. wake' = [wake EXCEPT ![r] = w]
    BY DEF Wake!GotoMove, Wake!TypeOK
  <1> HIDE DEF w
  <1>4. QED
    BY <1>2, <1>3 DEF Wake!TypeOK, OnlyRequest

LEMMA RequestStepTypes ==
    ASSUME TypeOK, Wake!TypeOK', UNCHANGED <<ops, acked, todo>>,
           Ledger!TypeOK' \/ UNCHANGED ledger,
           (Provider!BothTypeOK' /\ hooks \subseteq hooks') \/ UNCHANGED providerVars,
           (Risk!TypeOK' /\ callbacks \subseteq callbacks') \/ UNCHANGED koinVars,
           Keys!TypeOK' \/ UNCHANGED keys
    PROVE  TypeOK'
  <1>1. Ledger!TypeOK'
    BY DEF TypeOK, Ledger!TypeOK, ledger
  <1>2. Provider!BothTypeOK' /\ hooks \subseteq hooks'
    BY DEF TypeOK, Provider!BothTypeOK, Provider!TypeOK, Provider!Fake!TypeOK,
           providerVars
  <1>3. Risk!TypeOK' /\ callbacks \subseteq callbacks'
    BY DEF TypeOK, Risk!TypeOK, koinVars
  <1>4. Keys!TypeOK'
    BY DEF TypeOK, Keys!TypeOK
  <1>5. Shop!TypeOK'
    BY DEF TypeOK, Shop!TypeOK
  <1>6. Hooks!TypeOK'
    BY <1>2, <1>3 DEF TypeOK, Hooks!TypeOK
  <1>7. QED
    BY <1>1, <1>2, <1>3, <1>4, <1>5, <1>6 DEF TypeOK

\* What belongs to the other payments stays.
OthersStay(p) ==
    /\ \A q \in PaymentIds \ {p} :
           /\ q \in DOMAIN payments' <=> q \in DOMAIN payments
           /\ wake'[q] = wake[q] /\ zoop'[q] = zoop[q] /\ fake'[q] = fake[q]
           /\ charges'[q] = charges[q] /\ koin'[q] = koin[q]
    /\ \A q \in DOMAIN payments \ {p} : /\ payments'[q].store = payments[q].store
                                        /\ payments'[q].ref = payments[q].ref
    /\ wake'[p].body = wake[p].body

LEMMA OnePayment ==
    ASSUME PaymentInv, NEW p \in PaymentIds, OthersStay(p),
           RowOf(p)', FraudOf(p)', ChargeOf(p)'
    PROVE  PaymentInv'
  <1> SUFFICES ASSUME NEW q \in PaymentIds, q # p
               PROVE  RowOf(q)' /\ FraudOf(q)' /\ ChargeOf(q)'
    BY DEF PaymentInv
  <1>1. RowOf(q) /\ FraudOf(q) /\ ChargeOf(q)
    BY DEF PaymentInv
  <1>2. RowOf(q)'
    BY <1>1 DEF OthersStay, RowOf, Wake!StoreOf, Wake!RefOf
  <1>3. FraudOf(q)'
    BY <1>1 DEF OthersStay, FraudOf, Charging, Cleared
  <1>4. ChargeOf(q)'
    BY <1>1 DEF OthersStay, ChargeOf, AtProvider, Wake!StoreOf, Wake!MethodOf
  <1>5. QED
    BY <1>2, <1>3, <1>4

LEMMA SameRowsKeepOrders ==
    ASSUME Ledger!OnePaymentPerOrder, SameRows
    PROVE  Ledger!OnePaymentPerOrder'
  BY DEF SameRows, Ledger!OnePaymentPerOrder

\* A step of a request that has not answered: its key is known when it has to be, and
\* a response is saved for its own order, by the end of a request with a payment.
RequestKeys(r) ==
    /\ DOMAIN keys \subseteq DOMAIN keys'
    /\ wake'[r].pc \in {"lookup", "create"} \cup Working => OrderOf(r) \in DOMAIN keys'
    /\ \A k \in DOMAIN keys' : keys'[k].response # NoResponse =>
           \/ k \in DOMAIN keys /\ keys[k].response # NoResponse
           \/ r \in DOMAIN payments /\ wake'[r].pc = "done" /\ OrderOf(r) = k

LEMMA RequestStep ==
    ASSUME GatewayInv, NEW r \in Requests, TypeOK', OthersStay(r),
           DOMAIN payments \subseteq DOMAIN payments', Ledger!OnePaymentPerOrder',
           UNCHANGED ops, wake[r].pc # "done", zoop[r] # <<>> => zoop'[r] # <<>>,
           RequestKeys(r), RowOf(r)', FraudOf(r)', ChargeOf(r)'
    PROVE  GatewayInv'
  <1>1. PaymentInv'
    BY OnePayment DEF GatewayInv, PaymentIds
  <1>2. \A q \in Requests :
            /\ Wake!StoreOf(q)' = Wake!StoreOf(q) /\ OrderOf(q)' = OrderOf(q)
            /\ zoop[q] # <<>> => zoop'[q] # <<>>
            /\ q # r => wake'[q] = wake[q]
    BY DEF OthersStay, OrderOf, Wake!StoreOf, Wake!RefOf, PaymentIds
  <1>3. OpsInv'
    <2>1. \A o \in Ops : ops[o].p \in Requests
      BY DEF GatewayInv, TypeOK, Shop!TypeOK, Shop!OpState, PaymentIds
    <2>2. QED
      BY <1>2, <2>1 DEF GatewayInv, OpsInv, OpOf, AtProvider
  <1>4. KeyKnown'
    BY <1>2 DEF GatewayInv, KeyKnown, RequestKeys
  <1>5. KeyAnswered'
    <2>1. \A q \in DOMAIN payments : q \in Requests
      BY DEF GatewayInv, TypeOK, Ledger!TypeOK, PaymentIds
    <2> SUFFICES ASSUME NEW k \in DOMAIN keys', keys'[k].response # NoResponse
                 PROVE  \E q \in DOMAIN payments' : wake'[q].pc = "done" /\ OrderOf(q)' = k
      BY DEF KeyAnswered
    <2>2. CASE r \in DOMAIN payments /\ wake'[r].pc = "done" /\ OrderOf(r) = k
      BY <1>2, <2>2
    <2>3. CASE k \in DOMAIN keys /\ keys[k].response # NoResponse
      BY <1>2, <2>1, <2>3 DEF GatewayInv, KeyAnswered
    <2>4. QED
      BY <2>2, <2>3 DEF RequestKeys
  <1>6. QED
    BY <1>1, <1>3, <1>4, <1>5 DEF GatewayInv

\* A step of a request that changes nothing but the request: before it has made a
\* payment, when it ends, or on its way.
LEMMA QuietRequest ==
    ASSUME GatewayInv, NEW r \in Requests, Wake!TypeOK', OnlyRequest(r),
           UNCHANGED <<ledger, keys, providerVars, koinVars, ops, acked, todo>>,
           wake[r].pc # "done",
           wake'[r].pc \in {"lookup", "create"} \cup Working => OrderOf(r) \in DOMAIN keys,
           \/ wake[r].pc \in NotCreated /\ wake'[r].pc \in NotCreated
           \/ wake'[r].pc \in {"done", "failed"}
           \/ RowOf(r)' /\ FraudOf(r)' /\ ChargeOf(r)'
    PROVE  GatewayInv'
  <1>1. TypeOK'
    BY RequestStepTypes DEF GatewayInv
  <1>2. OthersStay(r) /\ SameRows
    BY DEF OnlyRequest, OthersStay, SameRows, ledger, providerVars, koinVars, PaymentIds
  <1>3. RowOf(r) /\ FraudOf(r) /\ ChargeOf(r)
    BY DEF GatewayInv, PaymentInv, PaymentIds
  <1>4. ASSUME wake'[r].pc \in NotCreated, wake[r].pc \in NotCreated
        PROVE  RowOf(r)' /\ FraudOf(r)' /\ ChargeOf(r)'
    <2>1. RowOf(r)'
      BY <1>3, <1>4 DEF RowOf, NotCreated, Working, OnlyRequest, ledger, providerVars,
                        koinVars, NoCase
    <2>2. /\ zoop'[r] = <<>> /\ fake'[r] = <<>> /\ charges'[r] = <<>>
          /\ koin'[r] = NoCase
      BY <1>3, <1>4 DEF RowOf, ledger, providerVars, koinVars
    <2>3. FraudOf(r)'
      BY <1>4, <2>2 DEF FraudOf, Charging, NotCreated, NoCase
    <2>4. ChargeOf(r)'
      BY <1>4, <2>2 DEF ChargeOf, NotCreated
    <2>5. QED
      BY <2>1, <2>3, <2>4
  <1>5. ASSUME wake'[r].pc \in {"done", "failed"}
        PROVE  RowOf(r)' /\ FraudOf(r)' /\ ChargeOf(r)'
    <2>1. RowOf(r)'
      BY <1>3, <1>5 DEF RowOf, NotCreated, Working, OnlyRequest, ledger, providerVars,
                        koinVars, Wake!StoreOf, Wake!RefOf
    <2>2. FraudOf(r)'
      BY <1>3, <1>5 DEF FraudOf, Charging, Cleared, ledger, providerVars, koinVars
    <2>3. ChargeOf(r)'
      BY <1>3, <1>5 DEF ChargeOf, AtProvider, OnlyRequest, ledger, providerVars,
                        Wake!StoreOf, Wake!MethodOf
    <2>4. QED
      BY <2>1, <2>2, <2>3
  <1>6. RowOf(r)' /\ FraudOf(r)' /\ ChargeOf(r)'
    BY <1>4, <1>5
  <1>7. RequestKeys(r)
    BY DEF RequestKeys
  <1>8. Ledger!OnePaymentPerOrder' /\ DOMAIN payments' = DOMAIN payments
    BY <1>2, SameRowsKeepOrders DEF GatewayInv, SameRows
  <1>9. QED
    BY <1>1, <1>2, <1>6, <1>7, <1>8, RequestStep DEF providerVars

LEMMA FindKeyInv ==
    ASSUME GatewayInv, NEW r \in Requests, Wake!FindKey(r), UNCHANGED <<ops, acked, todo>>
    PROVE  GatewayInv'
  <1>1. /\ wake[r].pc = "find"
        /\ UNCHANGED <<ledger, keys, providerVars, koinVars>>
        /\ \/ Wake!Goto(r, "insert")
           \/ Wake!Goto(r, "failed")
           \/ OrderOf(r) \in DOMAIN keys /\ Wake!Answer(r, keys[OrderOf(r)].response)
           \/ OrderOf(r) \in DOMAIN keys /\ Wake!Goto(r, "lookup")
    BY FindKeyDoes
  <1>2. Wake!TypeOK
    BY DEF GatewayInv, TypeOK
  <1>3. CASE Wake!Goto(r, "insert") \/ Wake!Goto(r, "failed")
    <2>1. PICK pc \in {"insert", "failed"} : Wake!Goto(r, pc)
      BY <1>3
    <2>2. Wake!TypeOK' /\ OnlyRequest(r) /\ wake'[r].pc = pc
      BY <1>2, <2>1, GotoEffect DEF Wake!Pcs
    <2>3. QED
      BY <1>1, <2>2, QuietRequest DEF NotCreated, Working
  <1>4. CASE OrderOf(r) \in DOMAIN keys /\ Wake!Answer(r, keys[OrderOf(r)].response)
    <2>1. keys[OrderOf(r)].response \in Wake!Response \cup {NoResponse}
      BY <1>4 DEF GatewayInv, TypeOK, Keys!TypeOK, Keys!KeyRow
    <2>2. Wake!TypeOK' /\ OnlyRequest(r) /\ wake'[r].pc = "done"
      BY <1>2, <1>4, <2>1, AnswerEffect
    <2>3. QED
      BY <1>1, <2>2, QuietRequest DEF Working
  <1>5. CASE OrderOf(r) \in DOMAIN keys /\ Wake!Goto(r, "lookup")
    <2>1. Wake!TypeOK' /\ OnlyRequest(r) /\ wake'[r].pc = "lookup"
      BY <1>2, <1>5, GotoEffect DEF Wake!Pcs
    <2>2. QED
      BY <1>1, <1>5, <2>1, QuietRequest DEF NotCreated
  <1>6. QED
    BY <1>1, <1>3, <1>4, <1>5

LEMMA InsertKeyInv ==
    ASSUME GatewayInv, NEW r \in Requests, Wake!InsertKey(r),
           UNCHANGED <<ops, acked, todo>>
    PROVE  GatewayInv'
  <1>1. /\ wake[r].pc = "insert" /\ UNCHANGED <<ledger, providerVars, koinVars>>
        /\ \/ /\ OrderOf(r) \notin DOMAIN keys
              /\ keys' = [x \in DOMAIN keys \cup {OrderOf(r)} |->
                             IF x = OrderOf(r)
                             THEN [hash |-> wake[r].body.hash, response |-> NoResponse]
                             ELSE keys[x]]
              /\ Wake!Goto(r, "create")
           \/ Wake!Goto(r, "failed") /\ UNCHANGED keys
    BY InsertKeyDoes
  <1>2. Wake!TypeOK
    BY DEF GatewayInv, TypeOK
  <1>3. CASE Wake!Goto(r, "failed") /\ UNCHANGED keys
    BY <1>1, <1>2, <1>3, GotoEffect, QuietRequest DEF Wake!Pcs, Working
  <1>4. CASE /\ OrderOf(r) \notin DOMAIN keys
             /\ keys' = [x \in DOMAIN keys \cup {OrderOf(r)} |->
                            IF x = OrderOf(r)
                            THEN [hash |-> wake[r].body.hash, response |-> NoResponse]
                            ELSE keys[x]]
             /\ Wake!Goto(r, "create")
    <2>1. Wake!TypeOK' /\ OnlyRequest(r) /\ wake'[r].pc = "create"
      BY <1>2, <1>4, GotoEffect DEF Wake!Pcs
    <2>2. OrderOf(r) \in Stores \X Refs /\ wake[r].body.hash \in Hashes
      BY <1>2, RequestTypes DEF OrderOf, Wake!Body
    <2>3. Keys!TypeOK'
      BY <1>4, <2>2 DEF GatewayInv, TypeOK, Keys!TypeOK, Keys!KeyRow
    <2>4. TypeOK'
      BY <1>1, <2>1, <2>3, RequestStepTypes DEF GatewayInv
    <2>5. OthersStay(r) /\ SameRows
      BY <1>1, <2>1 DEF OnlyRequest, OthersStay, SameRows, ledger, providerVars, koinVars,
                        PaymentIds
    <2>6. RequestKeys(r)
      BY <1>4 DEF RequestKeys
    <2>7. RowOf(r)
      BY DEF GatewayInv, PaymentInv, PaymentIds
    <2>8. /\ zoop'[r] = <<>> /\ fake'[r] = <<>> /\ charges'[r] = <<>>
          /\ koin'[r] = NoCase /\ r \notin DOMAIN payments'
      BY <1>1, <2>7 DEF RowOf, NotCreated, ledger, providerVars, koinVars
    <2>9. RowOf(r)' /\ FraudOf(r)' /\ ChargeOf(r)'
      BY <2>1, <2>8 DEF RowOf, FraudOf, Charging, ChargeOf, NotCreated, Working, NoCase
    <2>10. Ledger!OnePaymentPerOrder' /\ DOMAIN payments' = DOMAIN payments
      BY <2>5, SameRowsKeepOrders DEF GatewayInv, SameRows
    <2>11. QED
      BY <1>1, <2>4, <2>5, <2>6, <2>8, <2>9, <2>10, RequestStep DEF providerVars
  <1>5. QED
    BY <1>1, <1>3, <1>4

LEMMA LookUpInv ==
    ASSUME GatewayInv, NEW r \in Requests, Wake!LookUpPayment(r),
           UNCHANGED <<ops, acked, todo>>
    PROVE  GatewayInv'
  <1>1. /\ wake[r].pc = "lookup"
        /\ UNCHANGED <<ledger, keys, providerVars, koinVars>>
        /\ \/ Wake!Goto(r, "create")
           \/ \E p \in DOMAIN payments : Wake!Answer(r, Wake!ResponseFor(payments[p]))
    BY LookUpDoes
  <1>2. Wake!TypeOK /\ OrderOf(r) \in DOMAIN keys
    BY <1>1 DEF GatewayInv, TypeOK, KeyKnown
  <1>3. CASE Wake!Goto(r, "create")
    BY <1>1, <1>2, <1>3, GotoEffect, QuietRequest DEF Wake!Pcs, NotCreated
  <1>4. ASSUME NEW p \in DOMAIN payments, Wake!Answer(r, Wake!ResponseFor(payments[p]))
        PROVE  GatewayInv'
    <2>1. payments[p].instrument \in {"none", "pix", "boleto"}
      BY DEF GatewayInv, TypeOK, Ledger!TypeOK, Ledger!PaymentRow, Ledger!Instruments
    <2>2. Wake!ResponseFor(payments[p]) \in Wake!Response
      BY <2>1 DEF Wake!ResponseFor, Wake!Response, Wake!Say
    <2>3. QED
      BY <1>1, <1>2, <1>4, <2>2, AnswerEffect, QuietRequest DEF Working
  <1>5. QED
    BY <1>1, <1>3, <1>4

LEMMA CreatePaymentInv ==
    ASSUME GatewayInv, NEW r \in Requests, Wake!CreatePayment(r),
           UNCHANGED <<ops, acked, todo>>
    PROVE  GatewayInv'
  <1>1. /\ wake[r].pc = "create" /\ UNCHANGED <<keys, providerVars, koinVars>>
        /\ \/ /\ Ledger!Create(r, Wake!StoreOf(r), Wake!RefOf(r))
              /\ \E pc \in {"preEvaluate", "evaluate"} : Wake!Goto(r, pc)
           \/ Wake!Goto(r, "failed") /\ UNCHANGED ledger
    BY CreatePaymentDoes
  <1>2. Wake!TypeOK /\ Ledger!TypeOK /\ OrderOf(r) \in DOMAIN keys
    BY <1>1 DEF GatewayInv, TypeOK, KeyKnown
  <1>3. CASE Wake!Goto(r, "failed") /\ UNCHANGED ledger
    BY <1>1, <1>2, <1>3, GotoEffect, QuietRequest DEF Wake!Pcs, Working
  <1>4. ASSUME NEW pc \in {"preEvaluate", "evaluate"}, Wake!Goto(r, pc),
               Ledger!Create(r, Wake!StoreOf(r), Wake!RefOf(r))
        PROVE  GatewayInv'
    <2>1. Wake!TypeOK' /\ OnlyRequest(r) /\ wake'[r].pc = pc
      BY <1>2, <1>4, GotoEffect DEF Wake!Pcs
    <2>2. /\ Ledger!TypeOK' /\ UNCHANGED charges
          /\ DOMAIN payments' = DOMAIN payments \cup {r} /\ r \notin DOMAIN payments
          /\ payments'[r].store = Wake!StoreOf(r) /\ payments'[r].ref = Wake!RefOf(r)
          /\ \A q \in DOMAIN payments : payments'[q] = payments[q]
          /\ \A q \in DOMAIN payments : \/ payments[q].store # Wake!StoreOf(r)
                                        \/ payments[q].ref # Wake!RefOf(r)
      BY <1>2, <1>4, RequestTypes, CreateEffect DEF PaymentIds
    <2>3. TypeOK'
      BY <1>1, <2>1, <2>2, RequestStepTypes DEF GatewayInv
    <2>4. OthersStay(r)
      BY <1>1, <2>1, <2>2 DEF OnlyRequest, OthersStay, providerVars, koinVars, PaymentIds
    <2>5. Ledger!OnePaymentPerOrder'
      BY <2>2 DEF GatewayInv, Ledger!OnePaymentPerOrder
    <2>6. RequestKeys(r)
      BY <1>1, <1>2 DEF RequestKeys
    <2>7. RowOf(r)
      BY DEF GatewayInv, PaymentInv, PaymentIds
    <2>8. /\ zoop'[r] = <<>> /\ fake'[r] = <<>> /\ charges'[r] = <<>>
          /\ koin'[r] = NoCase
      BY <1>1, <2>2, <2>7 DEF RowOf, NotCreated, providerVars, koinVars
    <2>9. RowOf(r)'
      BY <2>1, <2>2 DEF RowOf, NotCreated, OnlyRequest, Wake!StoreOf, Wake!RefOf
    <2>10. FraudOf(r)' /\ ChargeOf(r)'
      BY <2>1, <2>8 DEF FraudOf, Charging, Cleared, ChargeOf, NoCase
    <2>11. QED
      BY <1>1, <2>2, <2>3, <2>4, <2>5, <2>6, <2>8, <2>9, <2>10, RequestStep
         DEF providerVars
  <1>5. QED
    BY <1>1, <1>3, <1>4

\* A step of a request at work that asks Koin or writes the ledger: it keeps rows and
\* the key.
LEMMA WorkingStep ==
    ASSUME GatewayInv, NEW r \in Requests, wake[r].pc \in Working,
           UNCHANGED <<ops, acked, todo, keys>>, Wake!TypeOK', OnlyRequest(r),
           (Ledger!TypeOK' /\ SameRows) \/ UNCHANGED ledger,
           \A q \in PaymentIds \ {r} : charges'[q] = charges[q] /\ koin'[q] = koin[q]
                                       /\ zoop'[q] = zoop[q] /\ fake'[q] = fake[q],
           (Provider!BothTypeOK' /\ hooks \subseteq hooks') \/ UNCHANGED providerVars,
           (Risk!TypeOK' /\ UNCHANGED callbacks) \/ UNCHANGED koinVars,
           zoop[r] # <<>> => zoop'[r] # <<>>,
           wake'[r].pc \notin NotCreated, wake'[r].pc # "done",
           FraudOf(r)', ChargeOf(r)'
    PROVE  GatewayInv'
  <1>1. TypeOK'
    BY RequestStepTypes DEF GatewayInv
  <1>2. SameRows
    BY DEF ledger, SameRows
  <1>3. OthersStay(r)
    BY <1>2 DEF OthersStay, SameRows, OnlyRequest, PaymentIds
  <1>4. OrderOf(r) \in DOMAIN keys /\ wake[r].pc # "done"
    BY DEF GatewayInv, KeyKnown, Working
  <1>5. RequestKeys(r)
    BY <1>4 DEF RequestKeys
  <1>6. RowOf(r) /\ r \in DOMAIN payments
    BY DEF GatewayInv, PaymentInv, PaymentIds, RowOf
  <1>7. RowOf(r)'
    BY <1>2, <1>6 DEF RowOf, SameRows, OnlyRequest, Wake!StoreOf, Wake!RefOf
  <1>8. Ledger!OnePaymentPerOrder' /\ DOMAIN payments' = DOMAIN payments
    BY <1>2, SameRowsKeepOrders DEF GatewayInv, SameRows
  <1>9. QED
    BY <1>1, <1>3, <1>4, <1>5, <1>7, <1>8, RequestStep

LEMMA PreEvaluateInv ==
    ASSUME GatewayInv, NEW r \in Requests, Wake!PreEvaluate(r),
           UNCHANGED <<ops, acked, todo>>
    PROVE  GatewayInv'
  <1>1. /\ wake[r].pc = "preEvaluate" /\ UNCHANGED <<ledger, keys, providerVars>>
        /\ \E v \in Risk!Verdicts :
              /\ koin' = [koin EXCEPT ![r].pre = v] /\ UNCHANGED <<callbacks, notices>>
              /\ \/ v = "denied" /\ Wake!GotoMove(r, "refused", Wake!Say(5))
                 \/ v # "denied" /\ Wake!Goto(r, "evaluate")
    BY PreEvaluateDoes
  <1>2. PICK v \in Risk!Verdicts :
              /\ koin' = [koin EXCEPT ![r].pre = v] /\ UNCHANGED <<callbacks, notices>>
              /\ \/ v = "denied" /\ Wake!GotoMove(r, "refused", Wake!Say(5))
                 \/ v # "denied" /\ Wake!Goto(r, "evaluate")
    BY <1>1
  <1>3. Wake!TypeOK /\ koin \in [PaymentIds -> Risk!Case]
    BY DEF GatewayInv, TypeOK, Risk!TypeOK
  <1>4. /\ Wake!TypeOK' /\ OnlyRequest(r)
        /\ \/ wake'[r].pc = "move" /\ wake'[r].to = "refused"
           \/ wake'[r].pc = "evaluate" /\ v # "denied"
    BY <1>2, <1>3, GotoEffect, GotoMoveEffect
       DEF Wake!Pcs, Wake!Say, Wake!Response, Statuses
  <1>5. /\ koin'[r] = [koin[r] EXCEPT !.pre = v] /\ koin[r] \in Risk!Case
        /\ \A q \in PaymentIds \ {r} : koin'[q] = koin[q]
    BY <1>2, <1>3 DEF PaymentIds
  <1>6. Risk!TypeOK'
    BY <1>2, <1>3 DEF GatewayInv, TypeOK, Risk!TypeOK, Risk!Case
  <1>7. FraudOf(r) /\ ChargeOf(r)
    BY DEF GatewayInv, PaymentInv, PaymentIds
  <1>8. zoop'[r] = <<>> /\ fake'[r] = <<>> /\ charges'[r] = <<>>
    BY <1>1, <1>7 DEF ChargeOf, ledger, providerVars
  <1>9. koin'[r].pre = v /\ koin'[r].eval = "none" /\ koin'[r].decision = "none"
    BY <1>1, <1>5, <1>7 DEF FraudOf, Risk!Case
  <1>10. FraudOf(r)'
    BY <1>4, <1>8, <1>9 DEF FraudOf, Charging
  <1>11. ChargeOf(r)'
    BY <1>4, <1>8 DEF ChargeOf
  <1>12. QED
    BY <1>1, <1>2, <1>4, <1>5, <1>6, <1>8, <1>10, <1>11, WorkingStep
       DEF Working, NotCreated, ledger, providerVars

LEMMA EvaluateInv ==
    ASSUME GatewayInv, NEW r \in Requests, Wake!EvaluateRisk(r),
           UNCHANGED <<ops, acked, todo>>
    PROVE  GatewayInv'
  <1>1. PICK v \in Risk!Verdicts :
              /\ \/ koin' = [koin EXCEPT ![r].eval = v]
                 \/ koin' = koin /\ v = "approved"
              /\ UNCHANGED <<callbacks, notices>>
              /\ \E resp \in Wake!Response \cup {NoResponse} :
                    Wake!GotoMove(r, Wake!StatusAfter(v), resp)
    <2>1. \A v \in Risk!Verdicts : SayAfter(v) \in Wake!Response \cup {NoResponse}
      BY DEF SayAfter, Risk!Verdicts, Wake!Say, Wake!Response
    <2>2. QED
      BY <2>1, EvaluateDoes
  <1>2. wake[r].pc = "evaluate" /\ UNCHANGED <<ledger, keys, providerVars>>
    BY EvaluateDoes
  <1>3. Wake!TypeOK /\ koin \in [PaymentIds -> Risk!Case]
    BY DEF GatewayInv, TypeOK, Risk!TypeOK
  <1>4. Wake!StatusAfter(v) \in Statuses
    BY DEF Wake!StatusAfter, Risk!Verdicts, Statuses
  <1>5. /\ Wake!TypeOK' /\ OnlyRequest(r) /\ wake'[r].pc = "move"
        /\ wake'[r].to = Wake!StatusAfter(v)
    BY <1>1, <1>3, <1>4, GotoMoveEffect
  <1>6. /\ koin[r] \in Risk!Case
        /\ koin'[r].pre = koin[r].pre /\ koin'[r].decision = koin[r].decision
        /\ koin'[r].eval \in {v, koin[r].eval} /\ (koin'[r].eval = v \/ v = "approved")
        /\ \A q \in PaymentIds \ {r} : koin'[q] = koin[q]
    BY <1>1, <1>3 DEF PaymentIds, Risk!Case
  <1>7. Risk!TypeOK'
    BY <1>1, <1>3 DEF GatewayInv, TypeOK, Risk!TypeOK, Risk!Case
  <1>8. FraudOf(r) /\ ChargeOf(r)
    BY DEF GatewayInv, PaymentInv, PaymentIds
  <1>9. zoop'[r] = <<>> /\ fake'[r] = <<>> /\ charges'[r] = <<>>
    BY <1>2, <1>8 DEF ChargeOf, ledger, providerVars
  <1>10. FraudOf(r)'
    <2>1. koin[r].pre # "denied" /\ koin[r].eval = "none" /\ koin[r].decision = "none"
      BY <1>2, <1>8 DEF FraudOf
    <2>2. wake'[r].to = "approved_risk" => v = "approved"
      BY <1>5 DEF Wake!StatusAfter, Risk!Verdicts
    <2>3. QED
      BY <1>5, <1>6, <1>9, <2>1, <2>2 DEF FraudOf, Charging, Cleared
  <1>11. ChargeOf(r)'
    BY <1>5, <1>9 DEF ChargeOf
  <1>12. QED
    BY <1>1, <1>2, <1>5, <1>6, <1>7, <1>9, <1>10, <1>11, WorkingStep
       DEF Working, NotCreated, ledger, providerVars

LEMMA MoveInv ==
    ASSUME GatewayInv, NEW r \in Requests, Wake!Move(r), UNCHANGED <<ops, acked, todo>>
    PROVE  GatewayInv'
  <1>1. /\ wake[r].pc = "move" /\ UNCHANGED <<keys, providerVars, koinVars>>
        /\ \/ /\ Ledger!Transition(r, Wake!StoreOf(r), wake[r].to)
              /\ Wake!Goto(r, Wake!AfterMove(r))
           \/ Wake!Goto(r, "failed") /\ UNCHANGED ledger
    BY MoveDoes
  <1>2. /\ Wake!TypeOK /\ Ledger!TypeOK /\ wake[r].to \in Statuses
    BY RequestTypes DEF GatewayInv, TypeOK, Wake!RequestState, Wake!Statuses, Statuses
  <1>3. CASE Wake!Goto(r, "failed") /\ UNCHANGED ledger
    BY <1>1, <1>2, <1>3, GotoEffect, QuietRequest DEF Wake!Pcs, Working
  <1>4. CASE /\ Ledger!Transition(r, Wake!StoreOf(r), wake[r].to)
             /\ Wake!Goto(r, Wake!AfterMove(r))
    <2>1. /\ Wake!AfterMove(r) \in {"charge", "notify", "save"}
          /\ Wake!AfterMove(r) = "charge" => wake[r].to = "approved_risk"
      BY DEF Wake!AfterMove
    <2>2. /\ Wake!TypeOK' /\ OnlyRequest(r)
          /\ wake'[r].pc = Wake!AfterMove(r) /\ wake'[r].to = wake[r].to
      BY <1>2, <1>4, <2>1, GotoEffect DEF Wake!Pcs
    <2>3. Ledger!TypeOK' /\ SameRows /\ UNCHANGED charges
      BY <1>2, <1>4, TransitionEffect
    <2>4. FraudOf(r) /\ ChargeOf(r)
      BY DEF GatewayInv, PaymentInv, PaymentIds
    <2>5. /\ zoop' = zoop /\ fake' = fake /\ koin' = koin
      BY <1>1 DEF providerVars, koinVars
    <2>6. FraudOf(r)'
      BY <1>1, <2>1, <2>2, <2>3, <2>4, <2>5 DEF FraudOf, Charging, Cleared
    <2>7. ChargeOf(r)'
      BY <1>1, <2>1, <2>2, <2>3, <2>4, <2>5
         DEF ChargeOf, AtProvider, OnlyRequest, Wake!StoreOf
    <2>8. QED
      BY <1>1, <2>1, <2>2, <2>3, <2>5, <2>6, <2>7, WorkingStep DEF Working, NotCreated
  <1>5. QED
    BY <1>1, <1>3, <1>4

LEMMA NotifyRefusalInv ==
    ASSUME GatewayInv, NEW r \in Requests, Wake!NotifyRefusal(r),
           UNCHANGED <<ops, acked, todo>>
    PROVE  GatewayInv'
  <1>1. /\ wake[r].pc = "notify" /\ UNCHANGED <<ledger, keys, providerVars>>
        /\ Wake!Goto(r, "save") /\ UNCHANGED <<koin, callbacks>>
        /\ notices' \subseteq notices \cup {<<r, "cancelled">>}
    BY NotifyRefusalDoes
  <1>2. Risk!TypeOK'
    BY <1>1 DEF GatewayInv, TypeOK, Risk!TypeOK, Risk!Kinds, PaymentIds
  <1>3. Wake!TypeOK' /\ OnlyRequest(r) /\ wake'[r].pc = "save"
    BY <1>1, GotoEffect DEF GatewayInv, TypeOK, Wake!Pcs
  <1>4. FraudOf(r) /\ ChargeOf(r)
    BY DEF GatewayInv, PaymentInv, PaymentIds
  <1>5. FraudOf(r)'
    BY <1>1, <1>3, <1>4 DEF FraudOf, Charging, Cleared, ledger, providerVars
  <1>6. ChargeOf(r)'
    BY <1>1, <1>3, <1>4
       DEF ChargeOf, AtProvider, OnlyRequest, Wake!StoreOf, ledger, providerVars
  <1>7. QED
    BY <1>1, <1>2, <1>3, <1>5, <1>6, WorkingStep
       DEF Working, NotCreated, ledger, providerVars

\* The charge is asked once: after it the handler never asks again.
LEMMA ChargeInv ==
    ASSUME GatewayInv, NEW r \in Requests, Wake!Charge(r), UNCHANGED <<ops, acked, todo>>
    PROVE  GatewayInv'
  <1> DEFINE f == Wake!StoreOf(r) \in FakeStores
             m == Wake!MethodOf(r)
             c == m # "credit_card"
  <1>1. /\ wake[r].pc = "charge" /\ UNCHANGED <<ledger, keys, koinVars>>
        /\ \/ \E o \in Provider!Outcomes(f, m, c) :
                 /\ Provider!Charge(f, r, m, c, o)
                 /\ wake' = [wake EXCEPT ![r].pc = "record",
                                ![r].answer = Provider!ResultOf(f, r, m, o)]
           \/ /\ ~f
              /\ \E o \in Provider!Outcomes(f, m, c) : Provider!Charge(f, r, m, c, o)
              /\ Wake!Goto(r, "recordFailure")
           \/ Wake!Goto(r, "recordFailure") /\ UNCHANGED providerVars
    BY ChargeDoes
  <1>2. /\ Wake!TypeOK /\ Provider!BothTypeOK /\ m \in Provider!Methods
        /\ f \in BOOLEAN /\ c \in BOOLEAN /\ r \in PaymentIds
    BY RequestTypes DEF GatewayInv, TypeOK, PaymentIds
  <1>3. FraudOf(r) /\ ChargeOf(r)
    BY DEF GatewayInv, PaymentInv, PaymentIds
  <1>4. zoop[r] = <<>> /\ fake[r] = <<>> /\ charges[r] = <<>> /\ Cleared(r)
    BY <1>1, <1>3 DEF ChargeOf, FraudOf, Charging
  <1>5. charges'[r] = <<>> /\ Cleared(r)' /\ UNCHANGED <<koin, charges, callbacks>>
    BY <1>1, <1>4 DEF ledger, koinVars, Cleared
  <1>6. wake'[r].pc \notin {"preEvaluate", "evaluate"} => FraudOf(r)'
    BY <1>3, <1>5 DEF FraudOf
  <1> USE <1>2
  <1> HIDE DEF f, m, c
  <1>7. ASSUME NEW o \in Provider!Outcomes(f, m, c), Provider!Charge(f, r, m, c, o),
               wake' = [wake EXCEPT ![r].pc = "record",
                                    ![r].answer = Provider!ResultOf(f, r, m, o)]
        PROVE  GatewayInv'
    <2> DEFINE x == Provider!ResultOf(f, r, m, o)
    <2>1. /\ Provider!BothTypeOK' /\ FirstCharge(f, r) /\ hooks \subseteq hooks'
          /\ x \in Wake!ChargeResult /\ x.id = <<r, 1>>
          /\ x.code => m # "credit_card"
      BY <1>4, <1>7, ChargeEffect
    <2> HIDE DEF x
    <2>2. wake' = [wake EXCEPT ![r] = [wake[r] EXCEPT !.pc = "record", !.answer = x]]
      BY <1>7 DEF x, Wake!TypeOK
    <2>3. [wake[r] EXCEPT !.pc = "record", !.answer = x] \in Wake!RequestState
      BY <2>1, RequestTypes DEF Wake!RequestState, Wake!Pcs
    <2>4. /\ Wake!TypeOK' /\ OnlyRequest(r) /\ wake'[r].pc = "record"
          /\ wake'[r].answer = x
      BY <2>2, <2>3, RequestTypes DEF Wake!TypeOK, OnlyRequest, Wake!RequestState
    <2>5. Wake!StoreOf(r)' = Wake!StoreOf(r) /\ Wake!MethodOf(r)' = m
      BY <2>4 DEF OnlyRequest, Wake!StoreOf, Wake!MethodOf, m
    <2>6. AtProvider(r)' /\ (zoop'[r] # <<>> => Wake!StoreOf(r) \notin FakeStores)
      BY <2>1, <2>5 DEF AtProvider, FirstCharge, f
    <2>7. ChargeOf(r)'
      BY <1>5, <2>1, <2>4, <2>5, <2>6 DEF ChargeOf, FirstCharge
    <2>8. FraudOf(r)'
      BY <1>6, <2>4
    <2>9. QED
      BY <1>1, <1>4, <1>5, <2>1, <2>4, <2>7, <2>8, WorkingStep
         DEF Working, NotCreated, FirstCharge, koinVars
  <1>8. ASSUME Wake!Goto(r, "recordFailure"),
               \/ ~f /\ \E o \in Provider!Outcomes(f, m, c) :
                          Provider!Charge(f, r, m, c, o)
               \/ UNCHANGED providerVars
        PROVE  GatewayInv'
    <2>1. Wake!TypeOK' /\ OnlyRequest(r) /\ wake'[r].pc = "recordFailure"
      BY <1>8, GotoEffect DEF Wake!Pcs
    <2>2. Wake!StoreOf(r)' = Wake!StoreOf(r)
      BY <2>1 DEF OnlyRequest, Wake!StoreOf
    <2>3. FraudOf(r)'
      BY <1>6, <2>1
    <2>4. CASE UNCHANGED providerVars
      <3>1. ChargeOf(r)'
        BY <1>4, <1>5, <2>1, <2>4 DEF ChargeOf, providerVars
      <3>2. QED
        BY <1>1, <1>4, <1>5, <2>1, <2>3, <2>4, <3>1, WorkingStep
           DEF Working, NotCreated, providerVars, koinVars
    <2>5. ASSUME ~f, NEW o \in Provider!Outcomes(f, m, c), Provider!Charge(f, r, m, c, o)
          PROVE  GatewayInv'
      <3>1. Provider!BothTypeOK' /\ FirstCharge(f, r) /\ hooks \subseteq hooks'
        BY <1>4, <2>5, ChargeEffect
      <3>2. ChargeOf(r)'
        BY <1>5, <2>1, <2>2, <2>5, <3>1 DEF ChargeOf, FirstCharge, f
      <3>3. QED
        BY <1>1, <1>4, <1>5, <2>1, <2>3, <3>1, <3>2, WorkingStep
           DEF Working, NotCreated, FirstCharge, koinVars
    <2>6. QED
      BY <1>8, <2>4, <2>5
  <1>9. QED
    BY <1>1, <1>7, <1>8

\* One row per charge: saveProviderCharge comes once, before the branch on the answer.
LEMMA OneRow ==
    ASSUME GatewayInv, NEW r \in Requests, NEW row \in Ledger!ChargeRow,
           wake[r].pc \in {"record", "recordFailure"},
           \/ row.providerId = NoProviderId
           \/ row.providerId = <<r, 1>> /\ AtProvider(r),
           Ledger!SaveProviderCharge(r, row), Wake!TypeOK', OnlyRequest(r),
           UNCHANGED <<keys, providerVars, koinVars, ops, acked, todo>>,
           \/ wake'[r].pc = "move" /\ wake'[r].to # "approved_risk"
           \/ wake'[r].pc = "instrument" /\ Wake!MethodOf(r) # "credit_card"
    PROVE  GatewayInv'
  <1>1. FraudOf(r) /\ ChargeOf(r) /\ r \in PaymentIds
    BY DEF GatewayInv, PaymentInv, PaymentIds
  <1>2. /\ Ledger!TypeOK' /\ UNCHANGED payments
        /\ charges'[r] = Append(charges[r], row)
        /\ \A q \in PaymentIds \ {r} : charges'[q] = charges[q]
    BY <1>1, SaveChargeEffect DEF GatewayInv, TypeOK
  <1>3. charges[r] = <<>>
    BY <1>1 DEF ChargeOf
  <1>4. charges'[r] = <<row>> /\ Len(charges'[r]) <= 1 /\ charges'[r][1] = row
    BY <1>2, <1>3
  <1>5. /\ Wake!StoreOf(r)' = Wake!StoreOf(r) /\ Wake!MethodOf(r)' = Wake!MethodOf(r)
        /\ UNCHANGED <<zoop, fake, koin>>
    BY DEF OnlyRequest, Wake!StoreOf, Wake!MethodOf, providerVars, koinVars
  <1>6. ChargeOf(r)'
    BY <1>1, <1>4, <1>5 DEF ChargeOf, AtProvider
  <1>7. FraudOf(r)'
    BY <1>1, <1>5 DEF FraudOf, Charging, Cleared
  <1>8. SameRows
    BY <1>2 DEF SameRows
  <1>9. QED
    BY <1>2, <1>5, <1>6, <1>7, <1>8, WorkingStep DEF Working, NotCreated

\* What the handler makes of the provider's answer is a row of provider_charges.
LEMMA AnswerIsRow ==
    ASSUME Wake!TypeOK, NEW r \in Requests
    PROVE  [providerId |-> wake[r].answer.id, status |-> wake[r].answer.status]
               \in Ledger!ChargeRow
  <1> DEFINE x == wake[r].answer
  <1>1. x \in Wake!ChargeResult \cup {Wake!NoResult}
    BY DEF Wake!TypeOK, Wake!RequestState
  <1>2. x.status \in Ledger!ChargeStatuses
    BY <1>1 DEF Wake!ChargeResult, Wake!NoResult, Wake!Ledger!ChargeStatuses,
                Ledger!ChargeStatuses
  <1>3. x.id \in ProviderIds \cup {NoProviderId}
    BY <1>1 DEF Wake!ChargeResult, Wake!NoResult, Wake!ProviderIds, ProviderIds,
                Wake!PaymentIds, PaymentIds
  <1>4. QED
    BY <1>2, <1>3 DEF Ledger!ChargeRow

LEMMA RecordChargeInv ==
    ASSUME GatewayInv, NEW r \in Requests, Wake!RecordCharge(r),
           UNCHANGED <<ops, acked, todo>>
    PROVE  GatewayInv'
  <1> DEFINE x == wake[r].answer
             row == [providerId |-> x.id, status |-> x.status]
  <1>1. /\ wake[r].pc = "record" /\ UNCHANGED <<keys, providerVars, koinVars>>
        /\ Ledger!SaveProviderCharge(r, row)
        /\ \/ Wake!GotoMove(r, "refused", Wake!Say(2))
           \/ x.code /\ Wake!Goto(r, "instrument")
           \/ Wake!GotoMove(r, "authorized", Wake!Say(1))
    BY RecordChargeDoes
  <1>2. Wake!TypeOK /\ ChargeOf(r)
    BY DEF GatewayInv, TypeOK, PaymentInv, PaymentIds
  <1>3. x.id = <<r, 1>> /\ AtProvider(r) /\ (x.code => Wake!MethodOf(r) # "credit_card")
    BY <1>1, <1>2 DEF ChargeOf
  <1>4. row \in Ledger!ChargeRow
    BY <1>2, AnswerIsRow
  <1>5. /\ Wake!TypeOK' /\ OnlyRequest(r)
        /\ \/ wake'[r].pc = "move" /\ wake'[r].to # "approved_risk"
           \/ wake'[r].pc = "instrument" /\ Wake!MethodOf(r) # "credit_card"
    <2>1. Wake!Say(1) \in Wake!Response /\ Wake!Say(2) \in Wake!Response
      BY DEF Wake!Say, Wake!Response
    <2>2. CASE Wake!GotoMove(r, "refused", Wake!Say(2))
      BY <1>2, <2>1, <2>2, GotoMoveEffect DEF Statuses
    <2>3. CASE x.code /\ Wake!Goto(r, "instrument")
      BY <1>2, <1>3, <2>3, GotoEffect DEF Wake!Pcs
    <2>4. CASE Wake!GotoMove(r, "authorized", Wake!Say(1))
      BY <1>2, <2>1, <2>4, GotoMoveEffect DEF Statuses
    <2>5. QED
      BY <1>1, <2>2, <2>3, <2>4
  <1>6. row.providerId = <<r, 1>>
    BY <1>3
  <1> HIDE DEF x, row
  <1>7. QED
    BY <1>1, <1>3, <1>4, <1>5, <1>6, OneRow

LEMMA RecordFailureInv ==
    ASSUME GatewayInv, NEW r \in Requests, Wake!RecordFailure(r),
           UNCHANGED <<ops, acked, todo>>
    PROVE  GatewayInv'
  <1> DEFINE row == [providerId |-> NoProviderId, status |-> "failed"]
  <1>1. /\ wake[r].pc = "recordFailure" /\ UNCHANGED <<keys, providerVars, koinVars>>
        /\ Ledger!SaveProviderCharge(r, row)
        /\ Wake!GotoMove(r, "refused", Wake!Say(2))
    BY RecordFailureDoes
  <1>2. row \in Ledger!ChargeRow /\ row.providerId = NoProviderId
    BY DEF Ledger!ChargeRow, Ledger!ChargeStatuses
  <1>3. /\ Wake!TypeOK' /\ OnlyRequest(r)
        /\ wake'[r].pc = "move" /\ wake'[r].to = "refused"
    BY <1>1, GotoMoveEffect DEF GatewayInv, TypeOK, Wake!Say, Wake!Response, Statuses
  <1> HIDE DEF row
  <1>4. QED
    BY <1>1, <1>2, <1>3, OneRow

LEMMA SaveInstrumentInv ==
    ASSUME GatewayInv, NEW r \in Requests, Wake!SaveInstrument(r),
           UNCHANGED <<ops, acked, todo>>
    PROVE  GatewayInv'
  <1>1. /\ wake[r].pc = "instrument" /\ UNCHANGED <<keys, providerVars, koinVars>>
        /\ Ledger!UpdateInstrument(r, Wake!StoreOf(r), Wake!MethodOf(r))
        /\ Wake!GotoMove(r, "waiting_payment",
                         [statusId |-> 7, instrument |-> Wake!MethodOf(r)])
    BY SaveInstrumentDoes
  <1>2. Wake!TypeOK /\ Ledger!TypeOK /\ FraudOf(r) /\ ChargeOf(r)
    BY DEF GatewayInv, TypeOK, PaymentInv, PaymentIds
  <1>3. Wake!MethodOf(r) \in {"pix", "boleto"}
    BY <1>1, <1>2, RequestTypes DEF ChargeOf, Provider!Methods
  <1>4. Ledger!TypeOK' /\ SameRows /\ UNCHANGED charges
    BY <1>1, <1>2, <1>3, InstrumentEffect
  <1>5. /\ Wake!TypeOK' /\ OnlyRequest(r)
        /\ wake'[r].pc = "move" /\ wake'[r].to = "waiting_payment"
    BY <1>1, <1>2, <1>3, GotoMoveEffect DEF Wake!Response, Statuses
  <1>6. UNCHANGED <<zoop, fake, koin>>
    BY <1>1 DEF providerVars, koinVars
  <1>7. ChargeOf(r)'
    BY <1>2, <1>4, <1>5, <1>6
       DEF ChargeOf, AtProvider, OnlyRequest, Wake!StoreOf, Wake!MethodOf
  <1>8. FraudOf(r)'
    BY <1>1, <1>2, <1>4, <1>5, <1>6 DEF FraudOf, Charging, Cleared
  <1>9. QED
    BY <1>1, <1>4, <1>5, <1>6, <1>7, <1>8, WorkingStep DEF Working, NotCreated

\* The one payment of the order is r's own, and its request has not answered: so no
\* response is overwritten.
LEMMA FirstResponse ==
    ASSUME GatewayInv, NEW r \in Requests, wake[r].pc = "save"
    PROVE  OrderOf(r) \in DOMAIN keys /\ keys[OrderOf(r)].response = NoResponse
  <1>1. OrderOf(r) \in DOMAIN keys /\ r \in DOMAIN payments
    BY DEF GatewayInv, KeyKnown, Working, PaymentInv, RowOf, PaymentIds
  <1>2. ASSUME keys[OrderOf(r)].response # NoResponse
        PROVE  FALSE
    <2>1. PICK q \in DOMAIN payments : wake[q].pc = "done" /\ OrderOf(q) = OrderOf(r)
      BY <1>1, <1>2 DEF GatewayInv, KeyAnswered
    <2>2. q \in PaymentIds
      BY LedgerTypes DEF GatewayInv, TypeOK
    <2>3. payments[q].store = payments[r].store /\ payments[q].ref = payments[r].ref
      BY <1>1, <2>1, <2>2 DEF GatewayInv, PaymentInv, RowOf, OrderOf, PaymentIds
    <2>4. q = r
      BY <1>1, <2>3 DEF GatewayInv, Ledger!OnePaymentPerOrder
    <2>5. QED
      BY <2>1, <2>4
  <1>3. QED
    BY <1>1, <1>2

LEMMA SaveResponseInv ==
    ASSUME GatewayInv, NEW r \in Requests, Wake!SaveResponse(r),
           UNCHANGED <<ops, acked, todo>>
    PROVE  GatewayInv'
  <1>1. /\ wake[r].pc = "save" /\ UNCHANGED <<ledger, providerVars, koinVars>>
        /\ keys' = [keys EXCEPT ![OrderOf(r)].response = wake[r].resp]
        /\ Wake!Goto(r, "done")
    BY SaveResponseDoes
  <1>2. Wake!TypeOK /\ Keys!TypeOK /\ OrderOf(r) \in DOMAIN keys /\ r \in DOMAIN payments
        /\ RowOf(r) /\ FraudOf(r) /\ ChargeOf(r)
    BY <1>1 DEF GatewayInv, TypeOK, KeyKnown, Working, PaymentInv, RowOf, PaymentIds
  <1>3. /\ Wake!TypeOK' /\ OnlyRequest(r) /\ wake'[r].pc = "done"
    BY <1>1, <1>2, GotoEffect DEF Wake!Pcs
  <1>4. wake[r].resp \in Wake!Response \cup {NoResponse}
    BY <1>2, RequestTypes
  <1>5. Keys!TypeOK' /\ DOMAIN keys' = DOMAIN keys
    BY <1>1, <1>2, <1>4 DEF Keys!TypeOK, Keys!KeyRow
  <1>6. \A k \in DOMAIN keys : k # OrderOf(r) => keys'[k] = keys[k]
    BY <1>1
  <1>7. RequestKeys(r)
    BY <1>2, <1>3, <1>5, <1>6 DEF RequestKeys, Working
  <1>8. TypeOK'
    BY <1>1, <1>3, <1>5, RequestStepTypes DEF GatewayInv
  <1>9. OthersStay(r) /\ SameRows
    BY <1>1, <1>3 DEF OnlyRequest, OthersStay, SameRows, ledger, providerVars, koinVars,
                      PaymentIds
  <1>10. UNCHANGED <<payments, charges, zoop, fake, koin>>
    BY <1>1 DEF ledger, providerVars, koinVars
  <1>11. RowOf(r)'
    BY <1>2, <1>3, <1>10 DEF RowOf, NotCreated, OnlyRequest, Wake!StoreOf, Wake!RefOf
  <1>12. FraudOf(r)'
    BY <1>2, <1>3, <1>10 DEF FraudOf, Charging, Cleared
  <1>13. ChargeOf(r)'
    BY <1>2, <1>3, <1>10 DEF ChargeOf, AtProvider, OnlyRequest, Wake!StoreOf, Wake!MethodOf
  <1>14. Ledger!OnePaymentPerOrder'
    BY <1>9, SameRowsKeepOrders DEF GatewayInv
  <1>15. QED
    BY <1>1, <1>7, <1>8, <1>9, <1>10, <1>11, <1>12, <1>13, <1>14, RequestStep

LEMMA DieInv ==
    ASSUME GatewayInv, NEW r \in Requests, Wake!Die(r), UNCHANGED <<ops, acked, todo>>
    PROVE  GatewayInv'
  <1>1. /\ wake[r].pc # "done" /\ Wake!Goto(r, "failed")
        /\ UNCHANGED <<ledger, keys, providerVars, koinVars>>
    BY DieDoes
  <1>2. Wake!TypeOK' /\ OnlyRequest(r) /\ wake'[r].pc = "failed"
    BY <1>1, GotoEffect DEF GatewayInv, TypeOK, Wake!Pcs
  <1>3. QED
    BY <1>1, <1>2, QuietRequest DEF Working

------------------------------------------------------------------------------
(***************************************************************************)
(* Steps of the shop's operations, of the webhooks, of Zoop and of Koin:   *)
(* no request moves, no payment is made or charged.                        *)
(***************************************************************************)
LEMMA LedgerStays ==
    ASSUME TypeOK, UNCHANGED ledger
    PROVE  Ledger!TypeOK' /\ SameRows /\ UNCHANGED charges
  BY DEF TypeOK, Ledger!TypeOK, SameRows, ledger

LEMMA ProviderStays ==
    ASSUME TypeOK, UNCHANGED <<zoop, hooks, fake>>
    PROVE  Provider!BothTypeOK' /\ SameCharges
  BY DEF TypeOK, Provider!BothTypeOK, Provider!TypeOK, Provider!Fake!TypeOK, SameCharges

LEMMA RiskStays ==
    ASSUME TypeOK, UNCHANGED koinVars
    PROVE  Risk!TypeOK' /\ UNCHANGED <<koin, callbacks>>
  BY DEF TypeOK, Risk!TypeOK, koinVars

LEMMA OutsideStep ==
    ASSUME GatewayInv, UNCHANGED <<keys, wake, charges>>,
           Ledger!TypeOK', SameRows, Provider!BothTypeOK', SameCharges,
           Risk!TypeOK', Shop!TypeOK', Hooks!TypeOK',
           UNCHANGED koin \/ \A p \in PaymentIds : FraudOf(p)',
           UNCHANGED koin \/ \A p \in PaymentIds :
                                  koin'[p] = koin[p] \/ p \in DOMAIN payments,
           \A o \in Ops : ops'[o] = ops[o] \/ OpOf(o)'
    PROVE  GatewayInv'
  <1>1. TypeOK'
    BY DEF GatewayInv, TypeOK, Keys!TypeOK, Wake!TypeOK
  <1>2. ASSUME NEW p \in PaymentIds
        PROVE  RowOf(p)' /\ FraudOf(p)' /\ ChargeOf(p)'
    <2>1. RowOf(p) /\ FraudOf(p) /\ ChargeOf(p)
      BY DEF GatewayInv, PaymentInv
    <2>2. /\ p \notin DOMAIN payments => koin'[p] = koin[p]
          /\ zoop'[p] = <<>> <=> zoop[p] = <<>>
          /\ fake'[p] = <<>> <=> fake[p] = <<>>
          /\ Len(zoop'[p]) = Len(zoop[p]) /\ Len(fake'[p]) = Len(fake[p])
      BY DEF SameCharges
    <2>3. RowOf(p)'
      BY <2>1, <2>2 DEF RowOf, SameRows, Wake!StoreOf, Wake!RefOf
    <2>4. FraudOf(p)'
      BY <2>1, <2>2 DEF FraudOf, Charging, Cleared
    <2>5. ChargeOf(p)'
      BY <2>1, <2>2 DEF ChargeOf, AtProvider, Wake!StoreOf, Wake!MethodOf
    <2>6. QED
      BY <2>3, <2>4, <2>5
  <1>3. ASSUME NEW o \in Ops PROVE OpOf(o)'
    <2>1. OpOf(o) /\ ops[o].p \in PaymentIds
      BY DEF GatewayInv, OpsInv, TypeOK, Shop!TypeOK, Shop!OpState
    <2>2. zoop[ops[o].p] # <<>> => zoop'[ops[o].p] # <<>>
      BY <2>1 DEF SameCharges
    <2>3. QED
      BY <2>1, <2>2 DEF OpOf, AtProvider, SameRows, Wake!StoreOf
  <1>4. KeyKnown' /\ KeyAnswered'
    BY DEF GatewayInv, KeyKnown, KeyAnswered, OrderOf, Wake!StoreOf, Wake!RefOf, SameRows
  <1>5. Ledger!OnePaymentPerOrder'
    BY SameRowsKeepOrders DEF GatewayInv
  <1>6. QED
    BY <1>1, <1>2, <1>3, <1>4, <1>5 DEF GatewayInv, PaymentInv, OpsInv

LEMMA OperationStep ==
    ASSUME GatewayInv, NEW o \in Ops, NEW w \in Shop!OpState,
           ops' = [ops EXCEPT ![o] = w], UNCHANGED <<keys, wake, charges, koin>>,
           UNCHANGED <<callbacks, acked, todo>>,
           Ledger!TypeOK', SameRows, Provider!BothTypeOK', SameCharges, Risk!TypeOK',
           w.pc \in {"zoop", "move", "notify"} => w.p \in DOMAIN payments,
           w.pc = "zoop" => /\ w.id = <<w.p, 1>> /\ AtProvider(w.p)
                            /\ w.action \in {"capture", "void", "refund"}
    PROVE  GatewayInv'
  <1>1. ops' \in [Ops -> Shop!OpState] /\ ops'[o] = w
        /\ \A q \in Ops : q # o => ops'[q] = ops[q]
    BY DEF GatewayInv, TypeOK, Shop!TypeOK
  <1>2. Shop!TypeOK'
    BY <1>1 DEF Shop!TypeOK
  <1>3. Hooks!TypeOK'
    BY DEF GatewayInv, TypeOK, Hooks!TypeOK, SameCharges
  <1>4. OpOf(o)'
    <2>1. w.p \in PaymentIds
      BY DEF Shop!OpState
    <2>2. AtProvider(w.p) => AtProvider(w.p)'
      BY <2>1 DEF AtProvider, SameCharges, Wake!StoreOf
    <2>3. QED
      BY <1>1, <2>2 DEF OpOf, SameRows, AtProvider
  <1>5. QED
    BY <1>1, <1>2, <1>3, <1>4, OutsideStep

LEMMA OperationTypes ==
    ASSUME Shop!TypeOK, NEW o \in Ops
    PROVE  /\ ops[o] \in Shop!OpState /\ ops[o].kind \in Shop!OpKinds
           /\ ops[o].p \in PaymentIds /\ ops[o].to \in Statuses
           /\ ops[o].todo \in Seq(Risk!Kinds)
  BY DEF Shop!TypeOK, Shop!OpState, Shop!Statuses, Statuses, Shop!Risk!Kinds, Risk!Kinds

\* What a step of an operation does to its own state.
LEMMA OperationFails ==
    ASSUME Shop!TypeOK, NEW o \in Ops, NEW p \in PaymentIds
    PROVE  /\ [ops[o] EXCEPT !.pc = "failed"] \in Shop!OpState
           /\ [ops[o] EXCEPT !.pc = "failed", !.p = p] \in Shop!OpState
  BY OperationTypes DEF Shop!OpState

LEMMA QuietOperation ==
    ASSUME GatewayInv, NEW o \in Ops, NEW w \in Shop!OpState,
           ops' = [ops EXCEPT ![o] = w],
           UNCHANGED <<ledger, keys, providerVars, koinVars, wake, acked, todo>>,
           w.pc \in {"zoop", "move", "notify"} => w.p \in DOMAIN payments,
           w.pc = "zoop" => /\ w.id = <<w.p, 1>> /\ AtProvider(w.p)
                            /\ w.action \in {"capture", "void", "refund"}
    PROVE  GatewayInv'
  <1>1. /\ Ledger!TypeOK' /\ SameRows /\ UNCHANGED charges
        /\ Provider!BothTypeOK' /\ SameCharges
        /\ Risk!TypeOK' /\ UNCHANGED <<koin, callbacks>>
    BY LedgerStays, ProviderStays, RiskStays DEF GatewayInv, providerVars
  <1>2. QED
    BY <1>1, OperationStep

LEMMA LoadInv ==
    ASSUME GatewayInv, NEW o \in Ops, NEW p \in Told, Shop!Load(o, p),
           UNCHANGED <<keys, wake, acked, todo>>
    PROVE  GatewayInv'
  <1>1. p \in DOMAIN payments /\ p \in PaymentIds
    BY LedgerTypes DEF Told, GatewayInv, TypeOK
  <1>2. /\ ops[o].kind # "chargeback"
        /\ UNCHANGED <<ledger, providerVars, koinVars>>
        /\ \/ /\ Shop!HasCharge(p)
              /\ ops' = [ops EXCEPT ![o].pc = "zoop", ![o].p = p,
                                    ![o].id = Shop!LastCharge(p).providerId,
                                    ![o].action = Shop!ActionFor(o, p)]
           \/ ops' = [ops EXCEPT ![o].pc = "failed", ![o].p = p]
    BY LoadDoes
  <1>3. Shop!TypeOK
    BY DEF GatewayInv, TypeOK
  <1>4. CASE ops' = [ops EXCEPT ![o].pc = "failed", ![o].p = p]
    <2> DEFINE w == [ops[o] EXCEPT !.pc = "failed", !.p = p]
    <2>1. w \in Shop!OpState /\ w.pc = "failed"
      BY <1>1, <1>3, OperationFails, OperationTypes DEF Shop!OpState
    <2>2. ops' = [ops EXCEPT ![o] = w]
      BY <1>3, <1>4 DEF Shop!TypeOK
    <2> HIDE DEF w
    <2>3. QED
      BY <1>2, <2>1, <2>2, QuietOperation
  <1>5. CASE /\ Shop!HasCharge(p)
             /\ ops' = [ops EXCEPT ![o].pc = "zoop", ![o].p = p,
                                   ![o].id = Shop!LastCharge(p).providerId,
                                   ![o].action = Shop!ActionFor(o, p)]
    <2> DEFINE i == Shop!LastCharge(p).providerId
               a == Shop!ActionFor(o, p)
               w == [ops[o] EXCEPT !.pc = "zoop", !.p = p, !.id = i, !.action = a]
    <2>1. i = <<p, 1>> /\ AtProvider(p)
      <3>1. charges[p] # <<>> /\ i # NoProviderId
        BY <1>5 DEF Shop!HasCharge
      <3>2. ChargeOf(p) /\ charges[p] \in Seq(Ledger!ChargeRow)
        BY <1>1 DEF GatewayInv, PaymentInv, TypeOK, Ledger!TypeOK
      <3>3. Len(charges[p]) = 1
        <4>1. Len(charges[p]) \in Nat /\ Len(charges[p]) # 0
          BY <3>1, <3>2
        <4>2. Len(charges[p]) <= 1
          BY <3>2 DEF ChargeOf
        <4>3. \A n \in Nat : n # 0 /\ n <= 1 => n = 1
          OBVIOUS
        <4>4. QED
          BY <4>1, <4>2, <4>3, Zenon
      <3>4. i = charges[p][1].providerId
        BY <3>3 DEF Shop!LastCharge
      <3>5. QED
        BY <3>1, <3>2, <3>4 DEF ChargeOf
    <2>2. <<p, 1>> \in Shop!ProviderIds
      <3>1. charges[p] # <<>> /\ charges[p] \in Seq(Ledger!ChargeRow)
        BY <1>1, <1>5 DEF Shop!HasCharge, GatewayInv, TypeOK, Ledger!TypeOK
      <3>2. Len(charges[p]) \in 1 .. Len(charges[p])
        BY <3>1
      <3>3. Shop!LastCharge(p) \in Ledger!ChargeRow
        BY <3>1, <3>2 DEF Shop!LastCharge
      <3>4. i \in ProviderIds
        BY <1>5, <3>3 DEF Ledger!ChargeRow, Shop!HasCharge
      <3>5. QED
        BY <2>1, <3>4 DEF Shop!ProviderIds, ProviderIds
    <2>3. a \in {"capture", "void", "refund"}
      BY <1>2, <1>3, OperationTypes DEF Shop!ActionFor, Shop!OpKinds
    <2>4. ops' = [ops EXCEPT ![o] = w]
      BY <1>3, <1>5 DEF Shop!TypeOK
    <2> HIDE DEF a, i
    <2>5. /\ w \in Shop!OpState /\ w.pc = "zoop" /\ w.p = p /\ w.id = i /\ w.action = a
      BY <1>1, <1>3, <2>1, <2>2, <2>3, OperationTypes DEF Shop!OpState, Shop!Actions
    <2> HIDE DEF w
    <2>6. QED
      BY <1>1, <1>2, <2>1, <2>3, <2>4, <2>5, QuietOperation
  <1>6. QED
    BY <1>2, <1>4, <1>5

LEMMA ChargebackInv ==
    ASSUME GatewayInv, NEW o \in Ops, NEW p \in Told, Shop!Chargeback(o, p),
           UNCHANGED <<keys, wake, acked, todo>>
    PROVE  GatewayInv'
  <1> DEFINE w == [ops[o] EXCEPT !.pc = "move", !.p = p, !.to = "chargeback"]
  <1>1. p \in DOMAIN payments /\ p \in PaymentIds /\ Shop!TypeOK
    BY LedgerTypes DEF Told, GatewayInv, TypeOK
  <1>2. /\ UNCHANGED <<ledger, providerVars, koinVars>>
        /\ ops' = [ops EXCEPT ![o] = w]
    <2>1. /\ UNCHANGED <<ledger, providerVars, koinVars>>
          /\ ops' = [ops EXCEPT ![o].pc = "move", ![o].p = p, ![o].to = "chargeback"]
      BY ChargebackDoes
    <2>2. QED
      BY <1>1, <2>1 DEF Shop!TypeOK
  <1>3. w \in Shop!OpState /\ w.pc = "move" /\ w.p = p
    BY <1>1, OperationTypes DEF Shop!OpState, Shop!Statuses
  <1> HIDE DEF w
  <1>4. QED
    BY <1>1, <1>2, <1>3, QuietOperation

\* The provider executes the call on the payment's one charge, or refuses it.
LEMMA CallZoopDoes ==
    ASSUME GatewayInv, NEW o \in Ops, Shop!CallZoop(o)
    PROVE  LET f == Shop!StoreOf(o) \in FakeStores
               a == ops[o].action
               p == ops[o].p
               full == Shop!Full(o) IN
           /\ ops[o].pc = "zoop" /\ UNCHANGED <<ledger, koinVars>>
           /\ p \in DOMAIN payments /\ p \in PaymentIds
           /\ a \in {"capture", "void", "refund"}
           /\ (f <=> Wake!StoreOf(p) \in FakeStores) /\ (~f => zoop[p] # <<>>)
           /\ \/ /\ Provider!Accepts(f, a, <<p, 1>>, full)
                 /\ Provider!Execute(f, a, <<p, 1>>, full)
                 /\ ops' = [ops EXCEPT ![o] = [ops[o] EXCEPT !.pc = "move",
                                !.executed = a, !.to = Shop!TargetOf(a)]]
              \/ /\ ops' = [ops EXCEPT ![o] = [ops[o] EXCEPT !.pc = "failed"]]
                 /\ UNCHANGED providerVars
  <1> DEFINE f == Shop!StoreOf(o) \in FakeStores
             a == ops[o].action
             p == ops[o].p
             full == Shop!Full(o)
             done == [ops[o] EXCEPT !.pc = "move", !.executed = a, !.to = Shop!TargetOf(a)]
             failed == [ops[o] EXCEPT !.pc = "failed"]
  <1>1. /\ Shop!TypeOK /\ ops[o] \in Shop!OpState /\ p \in PaymentIds
    BY OperationTypes DEF GatewayInv, TypeOK
  <1>2. /\ ops[o].pc = "zoop" /\ UNCHANGED <<ledger, koinVars>>
    BY DEF Shop!CallZoop, Shop!ledger, Shop!koinVars, ledger, koinVars
  <1>3. /\ p \in DOMAIN payments /\ ops[o].id = <<p, 1>> /\ AtProvider(p)
        /\ a \in {"capture", "void", "refund"}
    BY <1>2 DEF GatewayInv, OpsInv, OpOf
  <1>4. f <=> Wake!StoreOf(p) \in FakeStores
    BY <1>1, <1>3 DEF Shop!StoreOf, GatewayInv, PaymentInv, RowOf
  <1>5. \/ /\ Provider!Accepts(f, a, <<p, 1>>, full)
           /\ Provider!Execute(f, a, <<p, 1>>, full)
           /\ ops' = [ops EXCEPT ![o] = done]
        \/ ops' = [ops EXCEPT ![o] = failed] /\ UNCHANGED providerVars
    <2>1. \/ /\ Shop!Provider!Accepts(f, a, <<p, 1>>, full)
             /\ Shop!Provider!Execute(f, a, <<p, 1>>, full)
             /\ ops' = [ops EXCEPT ![o].pc = "move", ![o].executed = a,
                                   ![o].to = Shop!TargetOf(a)]
          \/ ops' = [ops EXCEPT ![o].pc = "failed"] /\ UNCHANGED <<zoop, hooks, fake>>
      BY <1>3 DEF Shop!CallZoop, Shop!Faked, Shop!providerVars, f, a, full
    <2>2. /\ [ops EXCEPT ![o].pc = "failed"] = [ops EXCEPT ![o] = failed]
          /\ [ops EXCEPT ![o].pc = "move", ![o].executed = a,
                         ![o].to = Shop!TargetOf(a)] = [ops EXCEPT ![o] = done]
      BY <1>1 DEF Shop!TypeOK
    <2> HIDE DEF done, failed
    <2>3. QED
      BY <1>3, <2>1, <2>2, ShopProvider DEF providerVars
  <1>6. ~f => zoop[p] # <<>>
    BY <1>3, <1>4 DEF AtProvider
  <1>7. QED
    BY <1>1, <1>2, <1>3, <1>4, <1>5, <1>6

LEMMA CallZoopInv ==
    ASSUME GatewayInv, NEW o \in Ops, Shop!CallZoop(o),
           UNCHANGED <<keys, wake, acked, todo>>
    PROVE  GatewayInv'
  <1> DEFINE f == Shop!StoreOf(o) \in FakeStores
             a == ops[o].action
             p == ops[o].p
             full == Shop!Full(o)
             done == [ops[o] EXCEPT !.pc = "move", !.executed = a, !.to = Shop!TargetOf(a)]
             failed == [ops[o] EXCEPT !.pc = "failed"]
  <1>1. /\ Shop!TypeOK /\ ops[o] \in Shop!OpState
    BY OperationTypes DEF GatewayInv, TypeOK
  <1>2. /\ ops[o].pc = "zoop" /\ UNCHANGED <<ledger, koinVars>>
        /\ p \in DOMAIN payments /\ p \in PaymentIds /\ a \in {"capture", "void", "refund"}
        /\ (~f => zoop[p] # <<>>)
    BY CallZoopDoes
  <1>3. \/ /\ Provider!Accepts(f, a, <<p, 1>>, full)
           /\ Provider!Execute(f, a, <<p, 1>>, full)
           /\ ops' = [ops EXCEPT ![o] = done]
        \/ ops' = [ops EXCEPT ![o] = failed] /\ UNCHANGED providerVars
    BY CallZoopDoes
  <1> HIDE DEF f, a, p, full
  <1>4. CASE ops' = [ops EXCEPT ![o] = failed] /\ UNCHANGED providerVars
    <2>1. failed \in Shop!OpState /\ failed.pc = "failed"
      BY <1>1, OperationFails DEF Shop!OpState
    <2> HIDE DEF failed
    <2>2. QED
      BY <1>2, <1>4, <2>1, QuietOperation
  <1>5. CASE /\ Provider!Accepts(f, a, <<p, 1>>, full)
             /\ Provider!Execute(f, a, <<p, 1>>, full)
             /\ ops' = [ops EXCEPT ![o] = done]
    <2>1. f \in BOOLEAN /\ (~f => zoop[p] # <<>>) /\ Provider!BothTypeOK
      BY <1>2 DEF GatewayInv, TypeOK, f
    <2>2. Provider!BothTypeOK' /\ SameCharges
      BY <1>2, <1>5, <2>1, ExecuteEffect
    <2>3. /\ Ledger!TypeOK' /\ SameRows /\ UNCHANGED charges
          /\ Risk!TypeOK' /\ UNCHANGED <<koin, callbacks>>
      BY <1>2, LedgerStays, RiskStays DEF GatewayInv
    <2>4. done \in Shop!OpState /\ done.pc = "move" /\ done.p = p
      <3>1. Shop!TargetOf(a) \in Shop!Statuses
        BY DEF Shop!TargetOf, Shop!Statuses
      <3>2. QED
        BY <1>1, <1>2, <3>1 DEF Shop!OpState, Shop!Actions, p
    <2> HIDE DEF done
    <2>5. QED
      BY <1>2, <1>5, <2>2, <2>3, <2>4, OperationStep
  <1>6. QED
    BY <1>3, <1>4, <1>5

LEMMA OperationMoveInv ==
    ASSUME GatewayInv, NEW o \in Ops, Shop!Move(o), UNCHANGED <<keys, wake, acked, todo>>
    PROVE  GatewayInv'
  <1> DEFINE p == ops[o].p
             to == ops[o].to
             n == Shop!NoticesOf(ops[o].action)
             moved == [ops[o] EXCEPT !.pc = "notify", !.todo = n]
             failed == [ops[o] EXCEPT !.pc = "failed"]
  <1>1. /\ Shop!TypeOK /\ ops[o] \in Shop!OpState /\ p \in PaymentIds /\ to \in Statuses
    BY OperationTypes DEF GatewayInv, TypeOK
  <1>2. /\ ops[o].pc = "move" /\ UNCHANGED <<providerVars, koinVars>>
    BY OperationMoveDoes
  <1>3. p \in DOMAIN payments
    BY <1>2 DEF GatewayInv, OpsInv, OpOf
  <1>4. \/ Ledger!Transition(p, Shop!StoreOf(o), to) /\ ops' = [ops EXCEPT ![o] = moved]
        \/ ops' = [ops EXCEPT ![o] = failed] /\ UNCHANGED ledger
    BY <1>1, OperationMoveDoes DEF Shop!TypeOK
  <1>5. CASE ops' = [ops EXCEPT ![o] = failed] /\ UNCHANGED ledger
    <2>1. failed \in Shop!OpState /\ failed.pc = "failed"
      BY <1>1, OperationFails DEF Shop!OpState
    <2> HIDE DEF failed
    <2>2. QED
      BY <1>2, <1>5, <2>1, QuietOperation
  <1>6. CASE /\ Ledger!Transition(p, Shop!StoreOf(o), to)
             /\ ops' = [ops EXCEPT ![o] = moved]
    <2>1. Ledger!TypeOK' /\ SameRows /\ UNCHANGED charges
      BY <1>1, <1>6, TransitionEffect DEF GatewayInv, TypeOK
    <2>2. /\ Provider!BothTypeOK' /\ SameCharges
          /\ Risk!TypeOK' /\ UNCHANGED <<koin, callbacks>>
      BY <1>2, ProviderStays, RiskStays DEF GatewayInv, providerVars
    <2>3. n \in Seq(Shop!Risk!Kinds)
      <3>1. /\ <<"collected", "finalized">> \in Seq(Shop!Risk!Kinds)
            /\ <<"cancelled">> \in Seq(Shop!Risk!Kinds)
            /\ <<"refunded">> \in Seq(Shop!Risk!Kinds) /\ <<>> \in Seq(Shop!Risk!Kinds)
        BY DEF Shop!Risk!Kinds
      <3>2. n \in {<<"collected", "finalized">>, <<"cancelled">>, <<"refunded">>, <<>>}
        BY DEF Shop!NoticesOf
      <3>3. QED
        BY <3>1, <3>2
    <2> HIDE DEF n
    <2>4. moved \in Shop!OpState /\ moved.pc = "notify" /\ moved.p = p
      BY <1>1, <2>3 DEF Shop!OpState
    <2> HIDE DEF moved
    <2>5. QED
      BY <1>3, <1>6, <2>1, <2>2, <2>4, OperationStep
  <1>7. QED
    BY <1>4, <1>5, <1>6

LEMMA NotifyOutcomeInv ==
    ASSUME GatewayInv, NEW o \in Ops, Shop!NotifyOutcome(o),
           UNCHANGED <<keys, wake, acked, todo>>
    PROVE  GatewayInv'
  <1> DEFINE t == Tail(ops[o].todo)
             told == [ops[o] EXCEPT !.todo = t]
             ended == [ops[o] EXCEPT !.pc = "done"]
  <1>1. /\ Shop!TypeOK /\ ops[o] \in Shop!OpState /\ ops[o].p \in PaymentIds
        /\ ops[o].todo \in Seq(Shop!Risk!Kinds)
    BY OperationTypes DEF GatewayInv, TypeOK, Shop!OpState
  <1>2. ops[o].pc = "notify" /\ UNCHANGED <<ledger, providerVars>>
    BY NotifyOutcomeDoes
  <1>3. ops[o].p \in DOMAIN payments
    BY <1>2 DEF GatewayInv, OpsInv, OpOf
  <1>4. \/ /\ ops[o].todo # <<>> /\ UNCHANGED <<koin, callbacks>>
           /\ notices' \subseteq notices \cup {<<ops[o].p, Head(ops[o].todo)>>}
           /\ ops' = [ops EXCEPT ![o] = told]
        \/ ops' = [ops EXCEPT ![o] = ended] /\ UNCHANGED koinVars
    BY <1>1, NotifyOutcomeDoes DEF Shop!TypeOK
  <1>5. CASE ops' = [ops EXCEPT ![o] = ended] /\ UNCHANGED koinVars
    <2>1. ended \in Shop!OpState /\ ended.pc = "done"
      BY <1>1 DEF Shop!OpState
    <2> HIDE DEF ended
    <2>2. QED
      BY <1>2, <1>5, <2>1, QuietOperation
  <1>6. CASE /\ ops[o].todo # <<>> /\ UNCHANGED <<koin, callbacks>>
             /\ notices' \subseteq notices \cup {<<ops[o].p, Head(ops[o].todo)>>}
             /\ ops' = [ops EXCEPT ![o] = told]
    <2>1. t \in Seq(Shop!Risk!Kinds) /\ Head(ops[o].todo) \in Risk!Kinds
      BY <1>1, <1>6 DEF Shop!Risk!Kinds, Risk!Kinds
    <2>2. Risk!TypeOK'
      BY <1>1, <1>6, <2>1 DEF GatewayInv, TypeOK, Risk!TypeOK
    <2>3. /\ Ledger!TypeOK' /\ SameRows /\ UNCHANGED charges
          /\ Provider!BothTypeOK' /\ SameCharges
      BY <1>2, LedgerStays, ProviderStays DEF GatewayInv, providerVars
    <2> HIDE DEF t
    <2>4. told \in Shop!OpState /\ told.pc = "notify" /\ told.p = ops[o].p
      BY <1>1, <1>2, <2>1 DEF Shop!OpState
    <2> HIDE DEF told
    <2>5. QED
      BY <1>3, <1>6, <2>2, <2>3, <2>4, OperationStep
  <1>7. QED
    BY <1>4, <1>5, <1>6

LEMMA OperationDieInv ==
    ASSUME GatewayInv, NEW o \in Ops, Shop!Die(o), UNCHANGED <<keys, wake, acked, todo>>
    PROVE  GatewayInv'
  <1> DEFINE failed == [ops[o] EXCEPT !.pc = "failed"]
  <1>1. Shop!TypeOK
    BY DEF GatewayInv, TypeOK
  <1>2. ops' = [ops EXCEPT ![o] = failed] /\ UNCHANGED <<ledger, providerVars, koinVars>>
    BY <1>1, OperationDieDoes DEF Shop!TypeOK
  <1>3. failed \in Shop!OpState /\ failed.pc = "failed"
    BY <1>1, OperationFails, OperationTypes DEF Shop!OpState
  <1> HIDE DEF failed
  <1>4. QED
    BY <1>2, <1>3, QuietOperation

\* A webhook moves the ledger and nothing else, whatever it asks for.
LEMMA HookStep ==
    ASSUME GatewayInv, UNCHANGED <<keys, wake, ops, zoop, hooks, fake, koin, callbacks>>,
           Ledger!TypeOK', SameRows, UNCHANGED charges, Risk!TypeOK', Hooks!TypeOK'
    PROVE  GatewayInv'
  <1>1. Provider!BothTypeOK' /\ SameCharges
    BY ProviderStays DEF GatewayInv
  <1>2. Shop!TypeOK'
    BY DEF GatewayInv, TypeOK, Shop!TypeOK
  <1>3. QED
    BY <1>1, <1>2, OutsideStep

LEMMA HooksInv ==
    ASSUME GatewayInv, Hooks!Next, UNCHANGED <<keys, fake, wake, ops>>
    PROVE  GatewayInv'
  <1>1. TypeOK
    BY DEF GatewayInv
  <1>2. ASSUME UNCHANGED koinVars, UNCHANGED <<zoop, hooks>>,
               acked' \subseteq acked \cup hooks \cup callbacks,
               todo' \in [PaymentIds -> Seq(Hooks!Risk!Kinds)],
               \/ UNCHANGED ledger
               \/ \E p, s : \E to \in Statuses : Ledger!Transition(p, s, to)
        PROVE  GatewayInv'
    <2>1. Ledger!TypeOK' /\ SameRows /\ UNCHANGED charges
      BY <1>1, <1>2, LedgerStays, TransitionEffect DEF TypeOK
    <2>2. Risk!TypeOK' /\ UNCHANGED <<koin, callbacks>>
      BY <1>1, <1>2, RiskStays
    <2>3. Hooks!TypeOK'
      BY <1>1, <1>2, <2>2 DEF TypeOK, Hooks!TypeOK
    <2>4. QED
      BY <1>2, <2>1, <2>2, <2>3, HookStep
  <1>3. todo \in [PaymentIds -> Seq(Hooks!Risk!Kinds)]
    BY <1>1 DEF TypeOK, Hooks!TypeOK
  <1>4. ASSUME NEW m \in hooks, Hooks!DeliverZoop(m) PROVE GatewayInv'
    <2>1. m.type \in Provider!HookTypes
      BY <1>1 DEF TypeOK, Provider!BothTypeOK, Provider!TypeOK, Provider!Hook
    <2>2. Hooks!ZoopStatus(m.type) \in Statuses
      BY <2>1 DEF Hooks!ZoopStatus, Provider!HookTypes, Statuses
    <2>3. /\ UNCHANGED <<zoop, hooks, koinVars, todo>> /\ acked' = acked \cup {m}
          /\ \/ UNCHANGED ledger
             \/ Ledger!Transition(m.ref, AnyStore, Hooks!ZoopStatus(m.type))
      BY <1>4, DeliverZoopDoes
    <2>4. QED
      BY <1>2, <1>3, <2>2, <2>3
  <1>5. ASSUME NEW c \in callbacks, Hooks!DeliverKoin(c) PROVE GatewayInv'
    <2>1. c.ref \in PaymentIds
      BY <1>1 DEF TypeOK, Risk!TypeOK
    <2>2. Hooks!KoinStatus(c.status) \in Statuses
      BY DEF Hooks!KoinStatus, Statuses
    <2>3. /\ UNCHANGED <<zoop, hooks, koinVars>> /\ acked' = acked \cup {c}
          /\ \/ UNCHANGED ledger
             \/ Ledger!Transition(c.ref, AnyStore, Hooks!KoinStatus(c.status))
          /\ \/ todo' = todo
             \/ todo' = [todo EXCEPT ![c.ref] = <<"not_collected", "cancelled">>]
      BY <1>5, DeliverKoinDoes
    <2>4. <<"not_collected", "cancelled">> \in Seq(Hooks!Risk!Kinds)
      BY DEF Hooks!Risk!Kinds
    <2>5. todo' \in [PaymentIds -> Seq(Hooks!Risk!Kinds)]
      BY <1>3, <2>3, <2>4
    <2>6. QED
      BY <1>2, <2>2, <2>3, <2>5
  <1>6. ASSUME NEW p \in PaymentIds, Hooks!NotifyDenial(p) PROVE GatewayInv'
    <2>1. /\ todo[p] # <<>> /\ UNCHANGED <<ledger, zoop, hooks, acked, koin, callbacks>>
          /\ notices' \subseteq notices \cup {<<p, Head(todo[p])>>}
          /\ todo' = [todo EXCEPT ![p] = Tail(todo[p])]
      BY <1>6, NotifyDenialDoes
    <2>2. Head(todo[p]) \in Risk!Kinds /\ Tail(todo[p]) \in Seq(Hooks!Risk!Kinds)
      BY <1>3, <2>1 DEF Hooks!Risk!Kinds, Risk!Kinds
    <2>3. Risk!TypeOK'
      BY <1>1, <2>1, <2>2 DEF TypeOK, Risk!TypeOK
    <2>4. Hooks!TypeOK'
      BY <1>1, <2>1, <2>2 DEF TypeOK, Hooks!TypeOK
    <2>5. Ledger!TypeOK' /\ SameRows /\ UNCHANGED charges
      BY <1>1, <2>1, LedgerStays
    <2>6. QED
      BY <2>1, <2>3, <2>4, <2>5, HookStep
  <1>7. ASSUME NEW m \in hooks \cup callbacks, Hooks!Swallow(m) PROVE GatewayInv'
    <2>1. /\ UNCHANGED <<ledger, zoop, hooks, koinVars, todo>> /\ acked' = acked \cup {m}
      BY <1>7, SwallowDoes
    <2>2. QED
      BY <1>2, <1>3, <2>1
  <1>8. QED
    BY <1>4, <1>5, <1>6, <1>7 DEF Hooks!Next

LEMMA ZoopMovesInv ==
    ASSUME GatewayInv, NEW id \in Provider!Txns, ZoopMoves(id)
    PROVE  GatewayInv'
  <1>1. /\ UNCHANGED <<ledger, keys, koinVars, wake, ops, acked, todo>>
    BY DEF ZoopMoves
  <1>2. Provider!BothTypeOK' /\ SameCharges
    BY ZoopEffect DEF GatewayInv, TypeOK
  <1>3. /\ Ledger!TypeOK' /\ SameRows /\ UNCHANGED charges
        /\ Risk!TypeOK' /\ UNCHANGED <<koin, callbacks>>
    BY <1>1, LedgerStays, RiskStays DEF GatewayInv
  <1>4. Shop!TypeOK' /\ Hooks!TypeOK'
    BY <1>1, <1>2, <1>3
       DEF GatewayInv, TypeOK, Shop!TypeOK, Hooks!TypeOK, SameCharges
  <1>5. QED
    BY <1>1, <1>2, <1>3, <1>4, OutsideStep

\* The analyst ends a review: of a payment there is, not approved and not charged.
LEMMA KoinMovesInv ==
    ASSUME GatewayInv, NEW p \in PaymentIds, KoinMoves(p)
    PROVE  GatewayInv'
  <1>1. PICK d \in {"approved", "denied"} :
            /\ koin[p].eval = "received" /\ koin[p].decision = "none"
            /\ koin' = [koin EXCEPT ![p].decision = d] /\ UNCHANGED notices
            /\ callbacks' = callbacks \cup {[ref |-> p, status |-> d]}
    BY DEF KoinMoves, Risk!Decide
  <1>2. UNCHANGED <<ledger, keys, zoop, hooks, fake, wake, ops, acked, todo>>
    BY DEF KoinMoves, providerVars
  <1>3. /\ TypeOK /\ koin \in [PaymentIds -> Risk!Case]
    BY DEF GatewayInv, TypeOK, Risk!TypeOK
  <1>4. Risk!TypeOK'
    BY <1>1, <1>3 DEF TypeOK, Risk!TypeOK, Risk!Case
  <1>5. /\ Ledger!TypeOK' /\ SameRows /\ UNCHANGED charges
        /\ Provider!BothTypeOK' /\ SameCharges
    BY <1>2, <1>3, LedgerStays, ProviderStays
  <1>6. Shop!TypeOK' /\ Hooks!TypeOK'
    BY <1>1, <1>2, <1>3 DEF TypeOK, Shop!TypeOK, Hooks!TypeOK
  <1>7. /\ koin'[p].eval = "received" /\ koin'[p].pre = koin[p].pre
        /\ \A q \in PaymentIds \ {p} : koin'[q] = koin[q]
    BY <1>1, <1>3 DEF Risk!Case
  <1>8. p \in DOMAIN payments
    BY <1>1 DEF GatewayInv, PaymentInv, RowOf, NoCase
  <1>9. ASSUME NEW q \in PaymentIds PROVE FraudOf(q)'
    <2>1. FraudOf(q)
      BY DEF GatewayInv, PaymentInv
    <2>2. CASE q = p
      <3>1. ~Charging(p)
        BY <1>1, <2>1, <2>2 DEF FraudOf, Cleared
      <3>2. ~Charging(p)'
        BY <1>2, <1>5, <3>1 DEF Charging
      <3>3. QED
        BY <1>1, <1>2, <1>7, <2>1, <2>2, <3>2 DEF FraudOf
    <2>3. CASE q # p
      BY <1>2, <1>5, <1>7, <2>1, <2>3 DEF FraudOf, Charging, Cleared
    <2>4. QED
      BY <2>2, <2>3
  <1>10. QED
    BY <1>2, <1>4, <1>5, <1>6, <1>7, <1>8, <1>9, OutsideStep

------------------------------------------------------------------------------
(***************************************************************************)
(* The theorems.                                                           *)
(***************************************************************************)
LEMMA RequestInv ==
    ASSUME GatewayInv, NEW r \in Requests, Wake!Step(r) \/ Wake!Die(r),
           UNCHANGED <<ops, acked, todo>>
    PROVE  GatewayInv'
  BY FindKeyInv, InsertKeyInv, LookUpInv, CreatePaymentInv, PreEvaluateInv, EvaluateInv,
     MoveInv, NotifyRefusalInv, ChargeInv, RecordChargeInv, RecordFailureInv,
     SaveInstrumentInv, SaveResponseInv, DieInv
     DEF Wake!Step

LEMMA OperationInv ==
    ASSUME GatewayInv, Shop!Next(Told), UNCHANGED <<keys, wake, acked, todo>>
    PROVE  GatewayInv'
  BY LoadInv, ChargebackInv, CallZoopInv, OperationMoveInv, NotifyOutcomeInv,
     OperationDieInv
     DEF Shop!Next

LEMMA StutterInv ==
    ASSUME GatewayInv, UNCHANGED vars
    PROVE  GatewayInv'
  <1>1. /\ Ledger!TypeOK' /\ SameRows /\ UNCHANGED charges
        /\ Risk!TypeOK' /\ UNCHANGED <<koin, callbacks>>
    BY LedgerStays, RiskStays DEF GatewayInv, vars, ledger, koinVars
  <1>2. Hooks!TypeOK'
    BY DEF GatewayInv, TypeOK, Hooks!TypeOK, vars
  <1>3. QED
    BY <1>1, <1>2, HookStep DEF vars

LEMMA NextInv == GatewayInv /\ [Next]_vars => GatewayInv'
  <1> SUFFICES ASSUME GatewayInv, [Next]_vars PROVE GatewayInv'
    OBVIOUS
  <1>1. CASE Wake!Next /\ UNCHANGED <<ops, acked, todo>>
    BY <1>1, RequestInv DEF Wake!Next
  <1>2. CASE Shop!Next(Told) /\ UNCHANGED <<keys, wake, acked, todo>>
    BY <1>2, OperationInv
  <1>3. CASE Hooks!Next /\ UNCHANGED <<keys, fake, wake, ops>>
    BY <1>3, HooksInv
  <1>4. ASSUME NEW id \in Provider!Txns, ZoopMoves(id) PROVE GatewayInv'
    BY <1>4, ZoopMovesInv
  <1>5. ASSUME NEW p \in PaymentIds, KoinMoves(p) PROVE GatewayInv'
    BY <1>5, KoinMovesInv
  <1>6. CASE UNCHANGED vars
    BY <1>6, StutterInv
  <1>7. QED
    BY <1>1, <1>2, <1>3, <1>4, <1>5, <1>6 DEF Next

LEMMA InitInv == Init => GatewayInv
  <1> SUFFICES ASSUME Init PROVE GatewayInv
    OBVIOUS
  <1>1. PICK w \in Workloads : Wake!Init(w.requests) /\ Shop!Init(w.ops)
    BY DEF Init
  <1>2. /\ \A r \in DOMAIN w.requests : w.requests[r] \in Wake!Body
        /\ \A o \in DOMAIN w.ops : w.ops[o] \in Shop!OpKinds
    BY <1>1, WorkloadsAreSent
  <1>3. /\ payments = [p \in {} |-> {}] /\ DOMAIN payments = {}
        /\ keys = [k \in {} |-> {}] /\ DOMAIN keys = {}
        /\ \A p \in PaymentIds : /\ events[p] = <<>> /\ outbox[p] = <<>>
                                 /\ charges[p] = <<>> /\ zoop[p] = <<>>
                                 /\ fake[p] = <<>> /\ koin[p] = NoCase
    BY DEF Init, Ledger!Init, Keys!Init, Provider!BothInit, Provider!Init,
           Provider!Fake!Init, Risk!Init, NoCase
  <1>4. Ledger!TypeOK
    BY DEF Init, Ledger!Init, Ledger!TypeOK
  <1>5. Provider!BothTypeOK
    BY LedgerConstants DEF Init, Provider!BothInit, Provider!Init, Provider!Fake!Init,
                           Provider!BothTypeOK, Provider!TypeOK, Provider!Fake!TypeOK
  <1>6. Risk!TypeOK
    BY DEF Init, Risk!Init, Risk!TypeOK, Risk!Case
  <1>7. Keys!TypeOK
    BY DEF Init, Keys!Init, Keys!TypeOK
  <1>8. Wake!TypeOK /\ \A r \in Requests : wake[r].pc \in {"find", "unsent"}
    <2> DEFINE Body(r) == IF r \in DOMAIN w.requests THEN w.requests[r]
                          ELSE CHOOSE b \in Wake!Body : TRUE
               Start(r) == IF r \in DOMAIN w.requests THEN "find" ELSE "unsent"
    <2>1. \A r \in Requests : Body(r) \in Wake!Body
      BY <1>2, ThereAreBodies
    <2>2. \A r \in Requests : Start(r) \in {"find", "unsent"}
      OBVIOUS
    <2>3. wake = [r \in Requests |->
                    [pc |-> Start(r), body |-> Body(r), to |-> "created",
                     resp |-> NoResponse, answer |-> Wake!NoResult]]
      BY <1>1 DEF Wake!Init
    <2> HIDE DEF Body, Start
    <2>4. QED
      BY <2>1, <2>2, <2>3 DEF Wake!TypeOK, Wake!RequestState, Wake!Pcs, Wake!Statuses
  <1>9. Shop!TypeOK /\ \A o \in Ops : ops[o].pc \in {"idle", "unsent"}
    <2> DEFINE Kind(o) == IF o \in DOMAIN w.ops THEN w.ops[o] ELSE "capture"
               Start(o) == IF o \in DOMAIN w.ops THEN "idle" ELSE "unsent"
               P == CHOOSE p \in PaymentIds : TRUE
    <2>1. /\ \A o \in Ops : Kind(o) \in Shop!OpKinds
          /\ \A o \in Ops : Start(o) \in {"idle", "unsent"} /\ P \in PaymentIds
      BY <1>2, ThereAreBodies DEF Shop!OpKinds
    <2>2. ops = [o \in Ops |->
                   [kind |-> Kind(o), pc |-> Start(o), p |-> P, id |-> NoProviderId,
                    action |-> "none", executed |-> "none", to |-> "created",
                    todo |-> <<>>]]
      BY <1>1 DEF Shop!Init
    <2> HIDE DEF Kind, Start, P
    <2>3. QED
      BY <2>1, <2>2 DEF Shop!TypeOK, Shop!OpState, Shop!Actions, Shop!Statuses
  <1>10. Hooks!TypeOK
    BY DEF Init, Hooks!Init, Hooks!TypeOK
  <1>11. TypeOK
    BY <1>4, <1>5, <1>6, <1>7, <1>8, <1>9, <1>10 DEF TypeOK
  <1>12. PaymentInv
    <2> SUFFICES ASSUME NEW p \in PaymentIds
                 PROVE  RowOf(p) /\ FraudOf(p) /\ ChargeOf(p)
      BY DEF PaymentInv
    <2>1. wake[p].pc \in {"find", "unsent"}
      BY <1>8 DEF PaymentIds
    <2>2. QED
      BY <1>3, <2>1 DEF RowOf, FraudOf, Charging, ChargeOf, Working, NoCase
  <1>13. OpsInv
    BY <1>9 DEF OpsInv, OpOf
  <1>14. KeyKnown /\ KeyAnswered
    BY <1>3, <1>8 DEF KeyKnown, KeyAnswered, Working
  <1>15. Ledger!OnePaymentPerOrder
    BY <1>3 DEF Ledger!OnePaymentPerOrder
  <1>16. QED
    BY <1>11, <1>12, <1>13, <1>14, <1>15 DEF GatewayInv

\* Where each handler is, what its payment's row, verdict and charge then are, which
\* requests share a key: the invariant the results below rest on.
THEOREM GatewayInvariant == Spec => []GatewayInv
  BY InitInv, NextInv, PTL DEF Spec

\* Every table, every provider's store and every handler's local state stay well
\* typed, together.
THEOREM GatewayTypeCorrect == Spec => []TypeOK
  <1>1. GatewayInv => TypeOK
    BY DEF GatewayInv
  <1>2. QED
    BY <1>1, GatewayInvariant, PTL

\* Double-clicks and retries never charge an order twice: the order has one payment,
\* and the payment's handler passes the charge once.
THEOREM OrdersAreChargedOnce == Spec => []ChargedOncePerOrder
  <1>1. GatewayInv => ChargedOncePerOrder
    <2> SUFFICES ASSUME GatewayInv, NEW id1 \in Provider!Txns, NEW id2 \in Provider!Txns,
                        payments[id1[1]].store = payments[id2[1]].store,
                        payments[id1[1]].ref = payments[id2[1]].ref
                 PROVE  id1 = id2
      BY DEF ChargedOncePerOrder
    <2>1. ASSUME NEW id \in Provider!Txns
          PROVE  id[1] \in DOMAIN payments /\ id = <<id[1], 1>>
      <3>1. PICK p \in PaymentIds, i \in 1 .. MaxTxns : id = <<p, i>>
        BY DEF Provider!Txns, Provider!TxnIds
      <3>2. i <= Len(zoop[p]) /\ Len(zoop[p]) <= 1 /\ zoop[p] \in Seq(Provider!Txn)
        BY <3>1 DEF Provider!Txns, GatewayInv, PaymentInv, ChargeOf, TypeOK,
                    Provider!BothTypeOK, Provider!TypeOK
      <3>3. i = 1 /\ zoop[p] # <<>>
        BY <3>2
      <3>4. p \in DOMAIN payments
        BY <3>3 DEF GatewayInv, PaymentInv, RowOf
      <3>5. QED
        BY <3>1, <3>3, <3>4
    <2>2. id1[1] = id2[1]
      BY <2>1 DEF GatewayInv, Ledger!OnePaymentPerOrder
    <2>3. QED
      BY <2>1, <2>2
  <1>2. QED
    BY <1>1, GatewayInvariant, PTL

\* What Koin denied, at once or after a review, is never sent to Zoop: the callback
\* cannot overtake the handler into a charge, nor the handler the callback.
THEOREM DeniedIsNeverCharged == Spec => []DeniedNeverCharged
  <1>1. GatewayInv => DeniedNeverCharged
    BY DEF GatewayInv, PaymentInv, FraudOf, Charging, Cleared, DeniedNeverCharged,
           Risk!Denied
  <1>2. QED
    BY <1>1, GatewayInvariant, PTL

\* A key keeps its first body and its first response: only the request that made the
\* order's payment saves one, and it saves once.
THEOREM ReplaysAreStable == Spec => ReplayIsStable
  <1>1. GatewayInv /\ [Next]_vars => [ReplayStep]_vars
    <2> SUFFICES ASSUME GatewayInv, [Next]_vars PROVE [ReplayStep]_vars
      OBVIOUS
    <2>1. ASSUME UNCHANGED keys PROVE [ReplayStep]_vars
      BY <2>1 DEF ReplayStep
    <2>2. ASSUME NEW r \in Requests, Wake!Step(r) \/ Wake!Die(r)
          PROVE  [ReplayStep]_vars
      <3>1. CASE Wake!InsertKey(r)
        <4>1. \/ /\ OrderOf(r) \notin DOMAIN keys
                 /\ keys' = [x \in DOMAIN keys \cup {OrderOf(r)} |->
                                IF x = OrderOf(r)
                                THEN [hash |-> wake[r].body.hash, response |-> NoResponse]
                                ELSE keys[x]]
              \/ UNCHANGED keys
          BY <3>1 DEF Wake!InsertKey, Wake!Keys!CanInsert, Wake!Keys!Known,
                      Wake!Keys!Insert, OrderOf
        <4>2. QED
          BY <4>1 DEF ReplayStep
      <3>2. CASE Wake!SaveResponse(r)
        <4>1. /\ wake[r].pc = "save"
              /\ keys' = [keys EXCEPT ![OrderOf(r)].response = wake[r].resp]
          BY <3>2 DEF Wake!SaveResponse, Wake!At, Wake!Keys!SaveResponse, OrderOf
        <4>2. OrderOf(r) \in DOMAIN keys /\ keys[OrderOf(r)].response = NoResponse
          BY <4>1, FirstResponse
        <4>3. keys \in [DOMAIN keys -> Keys!KeyRow]
          BY DEF GatewayInv, TypeOK, Keys!TypeOK
        <4>4. QED
          BY <4>1, <4>2, <4>3 DEF ReplayStep, Keys!KeyRow
      <3>3. \/ Wake!InsertKey(r) \/ Wake!SaveResponse(r) \/ UNCHANGED keys
        BY <2>2 DEF Wake!Step, Wake!FindKey, Wake!LookUpPayment, Wake!CreatePayment,
             Wake!PreEvaluate, Wake!EvaluateRisk, Wake!Move, Wake!NotifyRefusal,
             Wake!Charge, Wake!RecordCharge, Wake!RecordFailure, Wake!SaveInstrument,
             Wake!Die
      <3>4. QED
        BY <2>1, <3>1, <3>2, <3>3
    <2>3. UNCHANGED keys \/ \E r \in Requests : Wake!Step(r) \/ Wake!Die(r)
      BY DEF Next, Wake!Next, ZoopMoves, KoinMoves, vars
    <2>4. QED
      BY <2>1, <2>2, <2>3
  <1>2. QED
    BY <1>1, GatewayInvariant, PTL DEF Spec, ReplayIsStable

\* Handlers, operations and webhooks use the ledger only as Payments allows: with it
\* go its own theorems, and at most one charge is recorded per payment.
LEMMA LedgerIsUsedAsAllowed ==
    ASSUME GatewayInv, Next, ledger' # ledger
    PROVE  Ledger!Next
  <1>1. ASSUME NEW p, NEW s \in Stores \cup {AnyStore}, NEW to \in Statuses,
               Ledger!Transition(p, s, to)
        PROVE  Ledger!Next
    <2>1. p \in PaymentIds
      BY <1>1, TransitionEffect, LedgerTypes DEF GatewayInv, TypeOK
    <2>2. QED
      BY <1>1, <2>1, LedgerTypes DEF Ledger!Next
  <1>2. ASSUME NEW r \in Requests, Wake!Step(r) \/ Wake!Die(r)
        PROVE  Ledger!Next
    <2>1. /\ r \in PaymentIds /\ Wake!StoreOf(r) \in Stores /\ Wake!RefOf(r) \in Refs
          /\ wake[r].to \in Statuses /\ Wake!TypeOK
      BY RequestTypes DEF GatewayInv, TypeOK, PaymentIds, Wake!RequestState,
                          Wake!Statuses, Statuses
    <2>2. CASE Wake!CreatePayment(r)
      <3>1. Ledger!Create(r, Wake!StoreOf(r), Wake!RefOf(r))
        BY <2>2, WakeLedger DEF Wake!CreatePayment, Wake!ledger, ledger
      <3>2. QED
        BY <2>1, <3>1 DEF Ledger!Next
    <2>3. CASE Wake!Move(r)
      <3>1. Ledger!Transition(r, Wake!StoreOf(r), wake[r].to)
        BY <2>3, WakeLedger DEF Wake!Move, Wake!ledger, ledger
      <3>2. QED
        BY <1>1, <2>1, <3>1
    <2>4. ASSUME NEW row \in Ledger!ChargeRow, Ledger!SaveProviderCharge(r, row),
                 charges[r] = <<>>
          PROVE  Ledger!Next
      <3>1. Len(charges[r]) < MaxCharges
        BY <2>4 DEF MaxCharges
      <3>2. QED
        BY <2>1, <2>4, <3>1 DEF Ledger!Next
    <2>5. CASE Wake!RecordCharge(r) \/ Wake!RecordFailure(r)
      <3>1. wake[r].pc \in {"record", "recordFailure"}
        BY <2>5 DEF Wake!RecordCharge, Wake!RecordFailure, Wake!At
      <3>2. charges[r] = <<>>
        BY <2>1, <3>1 DEF GatewayInv, PaymentInv, ChargeOf
      <3>3. CASE Wake!RecordFailure(r)
        <4>1. /\ Ledger!SaveProviderCharge(r, [providerId |-> NoProviderId,
                                               status |-> "failed"])
          BY <3>3, WakeLedger DEF Wake!RecordFailure
        <4>2. [providerId |-> NoProviderId, status |-> "failed"] \in Ledger!ChargeRow
          BY DEF Ledger!ChargeRow, Ledger!ChargeStatuses
        <4>3. QED
          BY <2>4, <3>2, <4>1, <4>2
      <3>4. CASE Wake!RecordCharge(r)
        <4>1. wake[r].pc = "record" /\ Ledger!SaveProviderCharge(r,
                  [providerId |-> wake[r].answer.id, status |-> wake[r].answer.status])
          BY <3>4, WakeLedger DEF Wake!RecordCharge, Wake!At
        <4>2. [providerId |-> wake[r].answer.id, status |-> wake[r].answer.status]
                  \in Ledger!ChargeRow
          BY <2>1, AnswerIsRow
        <4>3. QED
          BY <2>4, <3>2, <4>1, <4>2
      <3>5. QED
        BY <2>5, <3>3, <3>4
    <2>6. CASE Wake!SaveInstrument(r)
      <3>1. /\ wake[r].pc = "instrument"
            /\ Ledger!UpdateInstrument(r, Wake!StoreOf(r), Wake!MethodOf(r))
        BY <2>6, WakeLedger DEF Wake!SaveInstrument, Wake!At
      <3>2. Wake!MethodOf(r) \in {"pix", "boleto"}
        BY <2>1, <3>1, RequestTypes
           DEF GatewayInv, PaymentInv, ChargeOf, Provider!Methods
      <3>3. QED
        BY <2>1, <3>1, <3>2 DEF Ledger!Next
    <2>7. \/ UNCHANGED Wake!ledger \/ Wake!CreatePayment(r) \/ Wake!Move(r)
          \/ Wake!RecordCharge(r) \/ Wake!RecordFailure(r) \/ Wake!SaveInstrument(r)
      BY <1>2 DEF Wake!Step, Wake!FindKey, Wake!InsertKey, Wake!LookUpPayment,
           Wake!PreEvaluate, Wake!EvaluateRisk, Wake!NotifyRefusal, Wake!Charge,
           Wake!SaveResponse, Wake!Die
    <2>8. QED
      BY <2>2, <2>3, <2>5, <2>6, <2>7 DEF Wake!ledger, ledger
  <1>3. CASE Shop!Next(Told)
    <2>1. PICK o \in Ops : \/ UNCHANGED Shop!ledger
                           \/ Shop!Move(o)
      BY <1>3 DEF Shop!Next, Shop!Load, Shop!Chargeback, Shop!CallZoop,
                  Shop!NotifyOutcome, Shop!Die
    <2>2. Ledger!Transition(ops[o].p, Shop!StoreOf(o), ops[o].to) /\ ops[o].pc = "move"
      BY <2>1, ShopLedger DEF Shop!Move, Shop!ledger, ledger
    <2>3. ops[o].p \in DOMAIN payments
      BY <2>2 DEF GatewayInv, OpsInv, OpOf
    <2>4. Shop!StoreOf(o) \in Stores /\ ops[o].to \in Statuses
      BY <2>3, LedgerTypes, OperationTypes
         DEF Shop!StoreOf, GatewayInv, TypeOK, Ledger!PaymentRow
    <2>5. QED
      BY <1>1, <2>2, <2>4
  <1>4. CASE Hooks!Next
    <2>1. \/ \E m \in hooks : Ledger!Transition(m.ref, AnyStore, Hooks!ZoopStatus(m.type))
          \/ \E c \in callbacks :
                 Ledger!Transition(c.ref, AnyStore, Hooks!KoinStatus(c.status))
      BY <1>4, HooksLedger DEF Hooks!Next, Hooks!DeliverZoop, Hooks!DeliverKoin,
             Hooks!NotifyDenial, Hooks!Swallow, Hooks!ledger, ledger
    <2>2. ASSUME NEW m \in hooks PROVE Hooks!ZoopStatus(m.type) \in Statuses
      <3>1. m.type \in Provider!HookTypes
        BY DEF GatewayInv, TypeOK, Provider!BothTypeOK, Provider!TypeOK, Provider!Hook
      <3>2. QED
        BY <3>1 DEF Hooks!ZoopStatus, Provider!HookTypes, Statuses
    <2>3. \A c \in callbacks : Hooks!KoinStatus(c.status) \in Statuses
      BY DEF Hooks!KoinStatus, Statuses
    <2>4. QED
      BY <1>1, <2>1, <2>2, <2>3
  <1>5. QED
    BY <1>2, <1>3, <1>4 DEF Next, Wake!Next, ZoopMoves, KoinMoves

\* Whatever handlers, operations, webhooks and callbacks do, the tables move only as
\* Payments says: one charge row per payment, one committed transition at a time.
THEOREM LedgerIsImplemented == Spec => LedgerSpec
  <1>1. Init => Ledger!Init
    BY DEF Init
  <1>2. GatewayInv /\ [Next]_vars => [ledger' # ledger => Ledger!Next]_ledger
    BY LedgerIsUsedAsAllowed DEF vars, ledger
  <1>3. QED
    BY <1>1, <1>2, GatewayInvariant, PTL DEF Spec, LedgerSpec

==============================================================================
