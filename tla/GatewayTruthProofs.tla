-------------------------- MODULE GatewayTruthProofs --------------------------
(***************************************************************************)
(* Theorems about what the gateway says: the ledger says nothing of a      *)
(* payment that Zoop does not bear out, Koin is told nothing the ledger    *)
(* did not say first, and an answer given to the shop stays true.  Each    *)
(* rests on GatewayInv and on an inductive invariant of its own.           *)
(***************************************************************************)
EXTENDS GatewayProofs

------------------------------------------------------------------------------
(***************************************************************************)
(* Answers.                                                                *)
(***************************************************************************)

\* An answer is true of a payment.
Fits(resp, row) ==
    /\ resp.statusId \in {2, 5} => row.status \in RefusedStatuses
    /\ resp.statusId = 1 => row.status \notin {"created", "under_review", "approved_risk"}
    /\ resp.instrument # "none" => row.instrument = resp.instrument

\* The answer a handler will give is true once its transition is made.
Planned(r) ==
    LET to == wake[r].to  resp == wake[r].resp IN
    \/ to = "approved_risk"
    \/ to = "refused" /\ resp \in {Wake!Say(2), Wake!Say(5)}
    \/ to = "under_review" /\ resp = Wake!Say(7)
    \/ to = "authorized" /\ resp = Wake!Say(1)
    \/ /\ to = "waiting_payment" /\ resp \in Wake!Response
       /\ resp.statusId = 7 /\ resp.instrument = payments[r].instrument

\* No code has been stored for the payment yet.
Uncoded(r) ==
    \/ wake[r].pc \in {"preEvaluate", "evaluate", "charge", "record", "instrument"}
    \/ wake[r].pc = "move" /\ wake[r].to = "approved_risk"

AnswerOf(r) ==
    /\ wake[r].pc = "move" => Planned(r)
    /\ wake[r].pc \in {"notify", "save"} =>
           wake[r].resp \in Wake!Response /\ Fits(wake[r].resp, payments[r])
    /\ Uncoded(r) => payments[r].instrument = "none"
    /\ wake[r].pc = "done" =>
           /\ wake[r].resp \in Wake!Response
           /\ \E p \in DOMAIN payments :
                  OrderOf(p) = OrderOf(r) /\ Fits(wake[r].resp, payments[p])

\* A stored response is true of the payment of its order.
KeyFits(k) ==
    keys[k].response # NoResponse =>
        \E p \in DOMAIN payments : OrderOf(p) = k /\ Fits(keys[k].response, payments[p])

AnswerInv ==
    /\ \A r \in Requests : AnswerOf(r)
    /\ \A k \in DOMAIN keys : KeyFits(k)

------------------------------------------------------------------------------
(***************************************************************************)
(* What a step does to the ledger.                                         *)
(***************************************************************************)

\* Only the status of p moves, as the table allows.
Moved(p, to) ==
    /\ p \in DOMAIN payments /\ p \in PaymentIds
    /\ to \in AllowedTransitions[payments[p].status]
    /\ DOMAIN payments' = DOMAIN payments
    /\ payments'[p] = [payments[p] EXCEPT !.status = to]
    /\ \A q \in DOMAIN payments \ {p} : payments'[q] = payments[q]

LEMMA TransitionMoves ==
    ASSUME Ledger!TypeOK, NEW p, NEW s, NEW to, Ledger!Transition(p, s, to)
    PROVE  Moved(p, to)
  <1>1. Ledger!AllowedTransitions = AllowedTransitions
    BY DEF Ledger!AllowedTransitions, AllowedTransitions, Ledger!Statuses, Statuses
  <1>2. /\ p \in DOMAIN payments /\ to \in AllowedTransitions[payments[p].status]
        /\ payments' = [payments EXCEPT ![p].status = to]
    BY <1>1 DEF Ledger!Transition, Ledger!CanMove, Ledger!InScope, Ledger!Exists,
                Ledger!CanTransition
  <1>3. p \in PaymentIds
    BY <1>2, LedgerTypes
  <1>4. QED
    BY <1>2, <1>3 DEF Moved

\* What the shop's operations, the webhooks, Zoop and Koin do.
LEMMA OutsideDoes ==
    ASSUME GatewayInv,
           \/ Shop!Next(Told) /\ UNCHANGED <<keys, wake, acked, todo>>
           \/ Hooks!Next /\ UNCHANGED <<keys, fake, wake, ops>>
           \/ \E id \in Provider!Txns : ZoopMoves(id)
           \/ \E p \in PaymentIds : KoinMoves(p)
    PROVE  /\ UNCHANGED <<keys, wake>>
           /\ UNCHANGED payments \/ \E p, to : Moved(p, to)
  <1>1. \A p, s, to : Ledger!Transition(p, s, to) => Moved(p, to)
    BY TransitionMoves DEF GatewayInv, TypeOK
  <1>2. ASSUME Shop!Next(Told)
        PROVE  UNCHANGED payments \/ \E p, to : Moved(p, to)
    <2>1. PICK o \in Ops : \/ \E p \in Told : Shop!Load(o, p) \/ Shop!Chargeback(o, p)
                           \/ Shop!CallZoop(o) \/ Shop!Move(o)
                           \/ Shop!NotifyOutcome(o) \/ Shop!Die(o)
      BY <1>2 DEF Shop!Next
    <2>2. UNCHANGED ledger \/ \E p, s, to : Ledger!Transition(p, s, to)
      BY <2>1, LoadDoes, ChargebackDoes, CallZoopDoes, OperationMoveDoes,
         NotifyOutcomeDoes, OperationDieDoes
    <2>3. QED
      BY <1>1, <2>2 DEF ledger
  <1>3. ASSUME Hooks!Next
        PROVE  UNCHANGED payments \/ \E p, to : Moved(p, to)
    <2>1. UNCHANGED ledger \/ \E p, s, to : Ledger!Transition(p, s, to)
      BY <1>3, DeliverZoopDoes, DeliverKoinDoes, NotifyDenialDoes, SwallowDoes
         DEF Hooks!Next
    <2>2. QED
      BY <1>1, <2>1 DEF ledger
  <1>4. QED
    BY <1>2, <1>3 DEF ZoopMoves, KoinMoves, ledger

------------------------------------------------------------------------------
(***************************************************************************)
(* An answer that fits a payment fits it for ever.                         *)
(***************************************************************************)
LEMMA FitsForEver ==
    ASSUME NEW row \in Ledger!PaymentRow, NEW to \in AllowedTransitions[row.status],
           NEW resp, Fits(resp, row)
    PROVE  Fits(resp, [row EXCEPT !.status = to])
  <1>1. row.status \in Statuses
    BY LedgerTypes DEF Ledger!PaymentRow
  <1>2. /\ row.status \in RefusedStatuses => to \in RefusedStatuses
        /\ row.status \notin {"created", "under_review", "approved_risk"} =>
               to \notin {"created", "under_review", "approved_risk"}
    BY <1>1 DEF AllowedTransitions, Statuses, RefusedStatuses
  <1> DEFINE new == [row EXCEPT !.status = to]
  <1>3. new.status = to /\ new.instrument = row.instrument
    BY DEF Ledger!PaymentRow
  <1> HIDE DEF new
  <1>4. Fits(resp, new)
    BY <1>2, <1>3 DEF Fits
  <1>5. QED
    BY <1>4 DEF new

\* No payment goes, and what was true of one is true of it.
AnswersStand ==
    \A p \in DOMAIN payments :
        /\ p \in DOMAIN payments'
        /\ \A resp : Fits(resp, payments[p]) => Fits(resp, payments'[p])

LEMMA MovedStands ==
    ASSUME Ledger!TypeOK, NEW p, NEW to, Moved(p, to)
    PROVE  /\ AnswersStand
           /\ \A q \in DOMAIN payments : payments'[q].instrument = payments[q].instrument
  <1>1. \A q \in DOMAIN payments : payments[q] \in Ledger!PaymentRow
    BY LedgerTypes
  <1>2. AnswersStand
    BY <1>1, FitsForEver DEF AnswersStand, Moved
  <1>3. payments'[p].instrument = payments[p].instrument
    BY <1>1 DEF Moved, Ledger!PaymentRow
  <1>4. QED
    BY <1>2, <1>3 DEF Moved

\* A request whose payment keeps its code.
LEMMA AnswerStays ==
    ASSUME GatewayInv, AnswerInv, AnswersStand, NEW r \in Requests,
           \A q \in Requests : wake'[q].body = wake[q].body, wake'[r] = wake[r],
           r \in DOMAIN payments => payments'[r].instrument = payments[r].instrument
    PROVE  AnswerOf(r)'
  <1>1. AnswerOf(r) /\ (wake[r].pc \in Working => r \in DOMAIN payments)
    BY DEF AnswerInv, GatewayInv, PaymentInv, RowOf, PaymentIds
  <1>2. \A q \in Requests : OrderOf(q)' = OrderOf(q)
    BY DEF OrderOf, Wake!StoreOf, Wake!RefOf
  <1>3. \A q \in DOMAIN payments : q \in Requests
    BY LedgerTypes DEF GatewayInv, TypeOK, PaymentIds
  <1>4. wake[r].pc = "move" => Planned(r)'
    BY <1>1 DEF AnswerOf, Planned, Working
  <1>5. wake[r].pc \in {"notify", "save"} =>
            wake[r].resp \in Wake!Response /\ Fits(wake[r].resp, payments'[r])
    BY <1>1 DEF AnswerOf, AnswersStand, Working
  <1>6. Uncoded(r) => payments'[r].instrument = "none"
    BY <1>1 DEF AnswerOf, Uncoded, Working
  <1>7. wake[r].pc = "done" =>
            /\ wake[r].resp \in Wake!Response
            /\ \E p \in DOMAIN payments' :
                   OrderOf(p)' = OrderOf(r) /\ Fits(wake[r].resp, payments'[p])
    BY <1>1, <1>2, <1>3 DEF AnswerOf, AnswersStand
  <1>8. OrderOf(r)' = OrderOf(r) /\ (Uncoded(r)' <=> Uncoded(r))
    BY <1>2 DEF Uncoded
  <1>9. QED
    BY <1>4, <1>5, <1>6, <1>7, <1>8 DEF AnswerOf

\* One request moves; every response saved is an old one or true.
LEMMA AnswerStep ==
    ASSUME GatewayInv, AnswerInv, AnswersStand, NEW r \in Requests, OnlyRequest(r),
           \A q \in DOMAIN payments \ {r} :
               payments'[q].instrument = payments[q].instrument,
           \A k \in DOMAIN keys' :
               \/ k \in DOMAIN keys /\ keys'[k].response = keys[k].response
               \/ KeyFits(k)',
           AnswerOf(r)'
    PROVE  AnswerInv'
  <1>1. \A q \in Requests : wake'[q].body = wake[q].body
    BY DEF OnlyRequest
  <1>2. ASSUME NEW q \in Requests, q # r PROVE AnswerOf(q)'
    BY <1>1, <1>2, AnswerStays DEF OnlyRequest
  <1>3. ASSUME NEW k \in DOMAIN keys', k \in DOMAIN keys,
               keys'[k].response = keys[k].response
        PROVE  KeyFits(k)'
    <2>1. \A q \in DOMAIN payments : q \in Requests /\ OrderOf(q)' = OrderOf(q)
      BY <1>1, LedgerTypes DEF GatewayInv, TypeOK, PaymentIds, OrderOf, Wake!StoreOf,
                               Wake!RefOf
    <2>2. KeyFits(k)
      BY <1>3 DEF AnswerInv
    <2>3. QED
      BY <1>3, <2>1, <2>2 DEF KeyFits, AnswersStand
  <1>4. QED
    BY <1>2, <1>3 DEF AnswerInv

\* Nobody's request moves.
LEMMA AnswerOutside ==
    ASSUME GatewayInv, AnswerInv, UNCHANGED <<keys, wake>>,
           UNCHANGED payments \/ \E p, to : Moved(p, to)
    PROVE  AnswerInv'
  <1>1. /\ AnswersStand
        /\ \A q \in DOMAIN payments : payments'[q].instrument = payments[q].instrument
    BY MovedStands DEF GatewayInv, TypeOK, AnswersStand
  <1>2. \A r \in Requests : AnswerOf(r)'
    BY <1>1, AnswerStays
  <1>3. ASSUME NEW k \in DOMAIN keys PROVE KeyFits(k)'
    <2>1. \A q \in DOMAIN payments : OrderOf(q)' = OrderOf(q)
      BY DEF OrderOf, Wake!StoreOf, Wake!RefOf
    <2>2. KeyFits(k)
      BY DEF AnswerInv
    <2>3. QED
      BY <1>1, <2>1, <2>2 DEF KeyFits, AnswersStand
  <1>4. QED
    BY <1>2, <1>3 DEF AnswerInv

------------------------------------------------------------------------------
(***************************************************************************)
(* The steps of a request, and the answer they prepare or give.            *)
(***************************************************************************)
LEMMA SayIsResponse ==
    \A n \in {1, 2, 5, 7} : /\ Wake!Say(n) \in Wake!Response
                            /\ Wake!Say(n).statusId = n
                            /\ Wake!Say(n).instrument = "none"
  BY DEF Wake!Say, Wake!Response

\* The request moves, nothing else that answers depend on does.
LEMMA QuietAnswer ==
    ASSUME GatewayInv, AnswerInv, NEW r \in Requests, OnlyRequest(r),
           UNCHANGED <<payments, keys>>, AnswerOf(r)'
    PROVE  AnswerInv'
  <1>1. AnswersStand
    BY DEF AnswersStand
  <1>2. QED
    BY <1>1, AnswerStep

\* Before it has a payment, and once it has failed, a request owes no answer.
LEMMA NoAnswerYet ==
    ASSUME NEW r \in Requests, wake'[r].pc \in NotCreated \cup {"failed", "recordFailure"}
    PROVE  AnswerOf(r)'
  BY DEF AnswerOf, Uncoded, NotCreated

LEMMA FindKeyAnswers ==
    ASSUME GatewayInv, AnswerInv, NEW r \in Requests, Wake!FindKey(r)
    PROVE  AnswerInv'
  <1>1. Wake!TypeOK /\ Keys!TypeOK
    BY DEF GatewayInv, TypeOK
  <1>2. UNCHANGED <<payments, keys>>
    BY FindKeyDoes DEF ledger
  <1>3. ASSUME NEW pc \in {"insert", "failed", "lookup"}, Wake!Goto(r, pc)
        PROVE  AnswerInv'
    <2>1. OnlyRequest(r) /\ wake'[r].pc = pc
      BY <1>1, <1>3, GotoEffect DEF Wake!Pcs
    <2>2. QED
      BY <1>2, <2>1, NoAnswerYet, QuietAnswer DEF NotCreated
  <1>4. ASSUME OrderOf(r) \in DOMAIN keys, keys[OrderOf(r)].response # NoResponse,
               Wake!Answer(r, keys[OrderOf(r)].response)
        PROVE  AnswerInv'
    <2> DEFINE resp == keys[OrderOf(r)].response
    <2>1. resp \in Wake!Response
      BY <1>1, <1>4 DEF Keys!TypeOK, Keys!KeyRow
    <2>2. OnlyRequest(r) /\ wake'[r].pc = "done" /\ wake'[r].resp = resp
      BY <1>1, <1>4, <2>1, AnswerEffect
    <2>3. PICK p \in DOMAIN payments : OrderOf(p) = OrderOf(r) /\ Fits(resp, payments[p])
      BY <1>4 DEF AnswerInv, KeyFits
    <2>4. OrderOf(p)' = OrderOf(p) /\ OrderOf(r)' = OrderOf(r)
      BY <2>2, LedgerTypes
         DEF GatewayInv, TypeOK, OnlyRequest, OrderOf, Wake!StoreOf, Wake!RefOf, PaymentIds
    <2> HIDE DEF resp
    <2>5. AnswerOf(r)'
      BY <1>2, <2>1, <2>2, <2>3, <2>4 DEF AnswerOf, Uncoded
    <2>6. QED
      BY <1>2, <2>2, <2>5, QuietAnswer
  <1>5. QED
    BY <1>3, <1>4, FindKeyDoes

LEMMA InsertKeyAnswers ==
    ASSUME GatewayInv, AnswerInv, NEW r \in Requests, Wake!InsertKey(r)
    PROVE  AnswerInv'
  <1>1. Wake!TypeOK
    BY DEF GatewayInv, TypeOK
  <1>2. UNCHANGED payments /\ AnswersStand
    BY InsertKeyDoes DEF ledger, AnswersStand
  <1>3. PICK pc \in {"create", "failed"} : Wake!Goto(r, pc)
    BY InsertKeyDoes
  <1>4. OnlyRequest(r) /\ wake'[r].pc = pc
    BY <1>1, <1>3, GotoEffect DEF Wake!Pcs
  <1>5. AnswerOf(r)'
    BY <1>4, NoAnswerYet DEF NotCreated
  <1>6. ASSUME NEW k \in DOMAIN keys'
        PROVE  \/ k \in DOMAIN keys /\ keys'[k].response = keys[k].response
               \/ keys'[k].response = NoResponse
    <2>1. CASE UNCHANGED keys
      BY <2>1
    <2>2. CASE keys' = [x \in DOMAIN keys \cup {OrderOf(r)} |->
                           IF x = OrderOf(r)
                           THEN [hash |-> wake[r].body.hash, response |-> NoResponse]
                           ELSE keys[x]]
      BY <2>2
    <2>3. QED
      BY <2>1, <2>2, InsertKeyDoes
  <1>7. QED
    BY <1>2, <1>4, <1>5, <1>6, AnswerStep DEF KeyFits

\* buildResponseFromExistingPayment tells the truth of the row it reads.
LEMMA ResponseForFits ==
    ASSUME NEW row \in Ledger!PaymentRow
    PROVE  Wake!ResponseFor(row) \in Wake!Response /\ Fits(Wake!ResponseFor(row), row)
  <1>1. row.status \in Statuses /\ row.instrument \in {"none", "pix", "boleto"}
    BY LedgerTypes DEF Ledger!PaymentRow, Ledger!Instruments
  <1>2. CASE row.status \in RefusedStatuses
    <2>1. Wake!ResponseFor(row) = Wake!Say(2)
      BY <1>2 DEF Wake!ResponseFor, RefusedStatuses
    <2>2. QED
      BY <1>2, <2>1, SayIsResponse DEF Fits
  <1>3. CASE row.status \notin RefusedStatuses /\ row.instrument # "none"
    <2> DEFINE resp == [statusId |-> 7, instrument |-> row.instrument]
    <2>1. Wake!ResponseFor(row) = resp
      BY <1>3 DEF Wake!ResponseFor, RefusedStatuses
    <2>2. resp \in Wake!Response /\ resp.statusId = 7 /\ resp.instrument = row.instrument
      BY <1>1 DEF Wake!Response
    <2> HIDE DEF resp
    <2>3. QED
      BY <2>1, <2>2 DEF Fits
  <1>4. CASE /\ row.instrument = "none"
             /\ row.status \in {"under_review", "created", "approved_risk"}
    <2>1. Wake!ResponseFor(row) = Wake!Say(7)
      BY <1>4 DEF Wake!ResponseFor
    <2>2. QED
      BY <2>1, SayIsResponse DEF Fits
  <1>5. CASE /\ row.instrument = "none" /\ row.status \notin RefusedStatuses
             /\ row.status \notin {"under_review", "created", "approved_risk"}
    <2>1. Wake!ResponseFor(row) = Wake!Say(1)
      BY <1>5 DEF Wake!ResponseFor, RefusedStatuses
    <2>2. QED
      BY <1>5, <2>1, SayIsResponse DEF Fits
  <1>6. QED
    BY <1>2, <1>3, <1>4, <1>5

LEMMA LookUpAnswers ==
    ASSUME GatewayInv, AnswerInv, NEW r \in Requests, Wake!LookUpPayment(r)
    PROVE  AnswerInv'
  <1>1. Wake!TypeOK /\ Ledger!TypeOK
    BY DEF GatewayInv, TypeOK
  <1>2. UNCHANGED <<payments, keys>>
    BY LookUpDoes DEF ledger
  <1>3. CASE Wake!Goto(r, "create")
    <2>1. OnlyRequest(r) /\ wake'[r].pc = "create"
      BY <1>1, <1>3, GotoEffect DEF Wake!Pcs
    <2>2. QED
      BY <1>2, <2>1, NoAnswerYet, QuietAnswer DEF NotCreated
  <1>4. ASSUME NEW p \in DOMAIN payments,
               payments[p].store = Wake!StoreOf(r), payments[p].ref = Wake!RefOf(r),
               Wake!Answer(r, Wake!ResponseFor(payments[p]))
        PROVE  AnswerInv'
    <2> DEFINE resp == Wake!ResponseFor(payments[p])
    <2>1. p \in PaymentIds /\ resp \in Wake!Response /\ Fits(resp, payments[p])
      BY <1>1, LedgerTypes, ResponseForFits
    <2>2. OrderOf(p) = OrderOf(r)
      BY <1>4, <2>1 DEF GatewayInv, PaymentInv, RowOf, OrderOf
    <2>3. OnlyRequest(r) /\ wake'[r].pc = "done" /\ wake'[r].resp = resp
      BY <1>1, <1>4, <2>1, AnswerEffect
    <2>4. OrderOf(p)' = OrderOf(p) /\ OrderOf(r)' = OrderOf(r)
      BY <2>1, <2>3 DEF OnlyRequest, OrderOf, Wake!StoreOf, Wake!RefOf, PaymentIds
    <2> HIDE DEF resp
    <2>5. AnswerOf(r)'
      BY <1>2, <2>1, <2>2, <2>3, <2>4 DEF AnswerOf, Uncoded
    <2>6. QED
      BY <1>2, <2>3, <2>5, QuietAnswer
  <1>5. QED
    BY <1>3, <1>4, LookUpDoes

LEMMA CreatePaymentAnswers ==
    ASSUME GatewayInv, AnswerInv, NEW r \in Requests, Wake!CreatePayment(r)
    PROVE  AnswerInv'
  <1>1. /\ Wake!TypeOK /\ Ledger!TypeOK /\ r \in PaymentIds
        /\ Wake!StoreOf(r) \in Stores /\ Wake!RefOf(r) \in Refs
    BY RequestTypes DEF GatewayInv, TypeOK, PaymentIds
  <1>2. UNCHANGED keys
    BY CreatePaymentDoes
  <1>3. CASE Wake!Goto(r, "failed") /\ UNCHANGED ledger
    <2>1. OnlyRequest(r) /\ wake'[r].pc = "failed" /\ UNCHANGED payments
      BY <1>1, <1>3, GotoEffect DEF Wake!Pcs, ledger
    <2>2. QED
      BY <1>2, <2>1, NoAnswerYet, QuietAnswer
  <1>4. ASSUME Ledger!Create(r, Wake!StoreOf(r), Wake!RefOf(r)),
               NEW pc \in {"preEvaluate", "evaluate"}, Wake!Goto(r, pc)
        PROVE  AnswerInv'
    <2>1. OnlyRequest(r) /\ wake'[r].pc = pc
      BY <1>1, <1>4, GotoEffect DEF Wake!Pcs
    <2>2. /\ \A q \in DOMAIN payments : q \in DOMAIN payments' /\ payments'[q] = payments[q]
          /\ payments'[r].instrument = "none"
      BY <1>4 DEF Ledger!Create, Ledger!Exists
    <2>3. AnswersStand
      BY <2>2 DEF AnswersStand
    <2>4. AnswerOf(r)'
      BY <2>1, <2>2 DEF AnswerOf
    <2>5. QED
      BY <1>2, <2>1, <2>2, <2>3, <2>4, AnswerStep
  <1>5. QED
    BY <1>3, <1>4, CreatePaymentDoes

\* The request goes to its next transition with an answer planned, or on.
LEMMA PlannedAnswer ==
    ASSUME GatewayInv, AnswerInv, NEW r \in Requests,
           NEW to \in Statuses, NEW resp \in Wake!Response \cup {NoResponse},
           Wake!GotoMove(r, to, resp), UNCHANGED <<payments, keys>>,
           \/ to = "approved_risk" /\ payments[r].instrument = "none"
           \/ to = "refused" /\ resp \in {Wake!Say(2), Wake!Say(5)}
           \/ to = "under_review" /\ resp = Wake!Say(7)
           \/ to = "authorized" /\ resp = Wake!Say(1)
    PROVE  AnswerInv'
  <1>1. OnlyRequest(r) /\ wake'[r].pc = "move" /\ wake'[r].to = to /\ wake'[r].resp = resp
    BY GotoMoveEffect DEF GatewayInv, TypeOK
  <1>2. Wake!Say(2)' = Wake!Say(2) /\ Wake!Say(5)' = Wake!Say(5)
        /\ Wake!Say(7)' = Wake!Say(7) /\ Wake!Say(1)' = Wake!Say(1)
    BY DEF Wake!Say
  <1>3. Planned(r)'
    BY <1>1, <1>2 DEF Planned
  <1>4. AnswerOf(r)'
    BY <1>1, <1>3 DEF AnswerOf, Uncoded
  <1>5. QED
    BY <1>1, <1>4, QuietAnswer

LEMMA UncodedAnswer ==
    ASSUME GatewayInv, AnswerInv, NEW r \in Requests, Uncoded(r),
           NEW pc \in {"evaluate", "charge", "instrument"},
           Wake!Goto(r, pc), UNCHANGED <<payments, keys>>
    PROVE  AnswerInv'
  <1>1. OnlyRequest(r) /\ wake'[r].pc = pc
    BY GotoEffect DEF GatewayInv, TypeOK, Wake!Pcs
  <1>2. payments[r].instrument = "none"
    BY DEF AnswerInv, AnswerOf
  <1>3. AnswerOf(r)'
    BY <1>1, <1>2 DEF AnswerOf
  <1>4. QED
    BY <1>1, <1>3, QuietAnswer

LEMMA PreEvaluateAnswers ==
    ASSUME GatewayInv, AnswerInv, NEW r \in Requests, Wake!PreEvaluate(r)
    PROVE  AnswerInv'
  <1>1. Uncoded(r) /\ UNCHANGED <<payments, keys>>
    BY PreEvaluateDoes DEF Uncoded, ledger
  <1>2. Wake!GotoMove(r, "refused", Wake!Say(5)) \/ Wake!Goto(r, "evaluate")
    BY PreEvaluateDoes
  <1>3. QED
    BY <1>1, <1>2, PlannedAnswer, UncodedAnswer, SayIsResponse DEF Statuses

LEMMA EvaluateAnswers ==
    ASSUME GatewayInv, AnswerInv, NEW r \in Requests, Wake!EvaluateRisk(r)
    PROVE  AnswerInv'
  <1>1. Uncoded(r) /\ UNCHANGED <<payments, keys>>
    BY EvaluateDoes DEF Uncoded, ledger
  <1>2. payments[r].instrument = "none"
    BY <1>1 DEF AnswerInv, AnswerOf
  <1>3. PICK v \in Risk!Verdicts : Wake!GotoMove(r, Wake!StatusAfter(v), SayAfter(v))
    BY EvaluateDoes
  <1>4. CASE v = "denied"
    <2>1. Wake!GotoMove(r, "refused", Wake!Say(5))
      BY <1>3, <1>4 DEF Wake!StatusAfter, SayAfter
    <2>2. QED
      BY <1>1, <2>1, PlannedAnswer, SayIsResponse DEF Statuses
  <1>5. CASE v = "received"
    <2>1. Wake!GotoMove(r, "under_review", Wake!Say(7))
      BY <1>3, <1>5 DEF Wake!StatusAfter, SayAfter
    <2>2. QED
      BY <1>1, <2>1, PlannedAnswer, SayIsResponse DEF Statuses
  <1>6. CASE v = "approved"
    <2>1. Wake!GotoMove(r, "approved_risk", NoResponse)
      BY <1>3, <1>6 DEF Wake!StatusAfter, SayAfter
    <2>2. QED
      BY <1>1, <1>2, <2>1, PlannedAnswer DEF Statuses
  <1>7. QED
    BY <1>4, <1>5, <1>6 DEF Risk!Verdicts

LEMMA MoveAnswers ==
    ASSUME GatewayInv, AnswerInv, NEW r \in Requests, Wake!Move(r)
    PROVE  AnswerInv'
  <1> DEFINE to == wake[r].to
             resp == wake[r].resp
  <1>1. /\ Wake!TypeOK /\ Ledger!TypeOK /\ wake[r].pc = "move" /\ UNCHANGED keys
        /\ Planned(r) /\ r \in DOMAIN payments
    BY MoveDoes DEF GatewayInv, TypeOK, AnswerInv, AnswerOf, PaymentInv, RowOf, Working,
                    PaymentIds
  <1>2. CASE Wake!Goto(r, "failed") /\ UNCHANGED ledger
    <2>1. OnlyRequest(r) /\ wake'[r].pc = "failed" /\ UNCHANGED payments
      BY <1>1, <1>2, GotoEffect DEF Wake!Pcs, ledger
    <2>2. QED
      BY <1>1, <2>1, NoAnswerYet, QuietAnswer
  <1>3. ASSUME Moved(r, to), NEW pc \in {"charge", "notify", "save"}, Wake!Goto(r, pc),
               pc = "charge" <=> to = "approved_risk"
        PROVE  AnswerInv'
    <2>1. OnlyRequest(r) /\ wake'[r].pc = pc /\ wake'[r].resp = resp
      BY <1>1, <1>3, GotoEffect DEF Wake!Pcs
    <2>2. /\ AnswersStand
          /\ \A q \in DOMAIN payments : payments'[q].instrument = payments[q].instrument
      BY <1>1, <1>3, MovedStands
    <2>3. payments'[r].status = to
      BY <1>1, <1>3, LedgerTypes DEF Moved, Ledger!PaymentRow
    <2>4. to = "approved_risk" => payments[r].instrument = "none"
      BY <1>1 DEF AnswerInv, AnswerOf, Uncoded
    <2>5. to # "approved_risk" => resp \in Wake!Response /\ Fits(resp, payments'[r])
      BY <1>1, <2>2, <2>3, SayIsResponse DEF Planned, Fits, RefusedStatuses
    <2>6. AnswerOf(r)'
      BY <1>1, <1>3, <2>1, <2>2, <2>4, <2>5 DEF AnswerOf, Uncoded
    <2>7. QED
      BY <1>1, <2>1, <2>2, <2>6, AnswerStep
  <1>4. /\ Wake!AfterMove(r) \in {"charge", "notify", "save"}
        /\ Wake!AfterMove(r) = "charge" <=> to = "approved_risk"
    BY DEF Wake!AfterMove
  <1>5. \A s : Ledger!Transition(r, s, to) => Moved(r, to)
    BY <1>1, TransitionMoves
  <1>6. QED
    BY <1>2, <1>3, <1>4, <1>5, MoveDoes

LEMMA NotifyRefusalAnswers ==
    ASSUME GatewayInv, AnswerInv, NEW r \in Requests, Wake!NotifyRefusal(r)
    PROVE  AnswerInv'
  <1>1. /\ wake[r].pc = "notify" /\ UNCHANGED <<payments, keys>> /\ Wake!Goto(r, "save")
    BY NotifyRefusalDoes DEF ledger
  <1>2. OnlyRequest(r) /\ wake'[r].pc = "save" /\ wake'[r].resp = wake[r].resp
    BY <1>1, GotoEffect DEF GatewayInv, TypeOK, Wake!Pcs
  <1>3. AnswerOf(r)'
    BY <1>1, <1>2 DEF AnswerInv, AnswerOf, Uncoded
  <1>4. QED
    BY <1>1, <1>2, <1>3, QuietAnswer

LEMMA ChargeAnswers ==
    ASSUME GatewayInv, AnswerInv, NEW r \in Requests, Wake!Charge(r)
    PROVE  AnswerInv'
  <1>1. Wake!TypeOK /\ Uncoded(r) /\ UNCHANGED <<payments, keys>>
    BY ChargeDoes DEF Uncoded, ledger, GatewayInv, TypeOK
  <1>2. payments[r].instrument = "none"
    BY <1>1 DEF AnswerInv, AnswerOf
  <1>3. OnlyRequest(r) /\ wake'[r].pc \in {"record", "recordFailure"}
    <2>1. CASE Wake!Goto(r, "recordFailure")
      BY <1>1, <2>1, GotoEffect DEF Wake!Pcs
    <2>2. ASSUME NEW x, wake' = [wake EXCEPT ![r].pc = "record", ![r].answer = x]
          PROVE  OnlyRequest(r) /\ wake'[r].pc = "record"
      BY <1>1, <2>2 DEF OnlyRequest, Wake!TypeOK, Wake!RequestState
    <2>3. QED
      BY <2>1, <2>2, ChargeDoes
  <1>4. AnswerOf(r)'
    BY <1>1, <1>2, <1>3 DEF AnswerOf
  <1>5. QED
    BY <1>1, <1>3, <1>4, QuietAnswer

LEMMA RecordChargeAnswers ==
    ASSUME GatewayInv, AnswerInv, NEW r \in Requests, Wake!RecordCharge(r)
    PROVE  AnswerInv'
  <1>1. Uncoded(r) /\ UNCHANGED <<payments, keys>>
    BY RecordChargeDoes DEF Uncoded, Ledger!SaveProviderCharge
  <1>2. \/ Wake!GotoMove(r, "refused", Wake!Say(2))
        \/ Wake!GotoMove(r, "authorized", Wake!Say(1))
        \/ Wake!Goto(r, "instrument")
    BY RecordChargeDoes
  <1>3. QED
    BY <1>1, <1>2, PlannedAnswer, UncodedAnswer, SayIsResponse DEF Statuses

LEMMA RecordFailureAnswers ==
    ASSUME GatewayInv, AnswerInv, NEW r \in Requests, Wake!RecordFailure(r)
    PROVE  AnswerInv'
  <1>1. UNCHANGED <<payments, keys>> /\ Wake!GotoMove(r, "refused", Wake!Say(2))
    BY RecordFailureDoes DEF Ledger!SaveProviderCharge
  <1>2. QED
    BY <1>1, PlannedAnswer, SayIsResponse DEF Statuses

\* The code is stored where no answer was bound to another.
LEMMA SaveInstrumentAnswers ==
    ASSUME GatewayInv, AnswerInv, NEW r \in Requests, Wake!SaveInstrument(r)
    PROVE  AnswerInv'
  <1> DEFINE m == Wake!MethodOf(r)
             resp == [statusId |-> 7, instrument |-> m]
  <1>1. /\ Wake!TypeOK /\ Ledger!TypeOK /\ wake[r].pc = "instrument" /\ UNCHANGED keys
        /\ Ledger!UpdateInstrument(r, Wake!StoreOf(r), m)
        /\ Wake!GotoMove(r, "waiting_payment", resp)
    BY SaveInstrumentDoes DEF GatewayInv, TypeOK
  <1>2. m \in {"pix", "boleto"}
    BY <1>1, RequestTypes DEF GatewayInv, PaymentInv, ChargeOf, PaymentIds,
                              Provider!Methods
  <1>3. resp \in Wake!Response /\ resp.statusId = 7 /\ resp.instrument = m
    BY <1>2 DEF Wake!Response
  <1>4. r \in DOMAIN payments /\ payments[r].instrument = "none"
    BY <1>1 DEF AnswerInv, AnswerOf, Uncoded, GatewayInv, PaymentInv, RowOf, Working,
                PaymentIds
  <1>5. payments' = [payments EXCEPT ![r].instrument = m]
    BY <1>1 DEF Ledger!UpdateInstrument
  <1> HIDE DEF m, resp
  <1>6. /\ OnlyRequest(r) /\ wake'[r].pc = "move" /\ wake'[r].to = "waiting_payment"
        /\ wake'[r].resp = resp
    BY <1>1, <1>3, GotoMoveEffect DEF Statuses
  <1>7. /\ DOMAIN payments' = DOMAIN payments
        /\ \A q \in DOMAIN payments \ {r} : payments'[q] = payments[q]
        /\ payments'[r].instrument = m /\ payments'[r].status = payments[r].status
    BY <1>1, <1>4, <1>5, LedgerTypes DEF Ledger!PaymentRow
  <1>8. AnswersStand
    BY <1>4, <1>7 DEF AnswersStand, Fits
  <1>9. Planned(r)'
    BY <1>3, <1>6, <1>7 DEF Planned, Wake!Response
  <1>10. AnswerOf(r)'
    BY <1>6, <1>9 DEF AnswerOf, Uncoded
  <1>11. QED
    BY <1>1, <1>6, <1>7, <1>8, <1>10, AnswerStep

LEMMA SaveResponseAnswers ==
    ASSUME GatewayInv, AnswerInv, NEW r \in Requests, Wake!SaveResponse(r)
    PROVE  AnswerInv'
  <1> DEFINE resp == wake[r].resp
  <1>1. /\ wake[r].pc = "save" /\ UNCHANGED payments
        /\ keys' = [keys EXCEPT ![OrderOf(r)].response = resp]
        /\ Wake!Goto(r, "done")
    BY SaveResponseDoes DEF ledger
  <1>2. /\ Wake!TypeOK /\ Keys!TypeOK /\ r \in DOMAIN payments
        /\ resp \in Wake!Response /\ Fits(resp, payments[r])
    BY <1>1 DEF GatewayInv, TypeOK, PaymentInv, RowOf, Working, PaymentIds, AnswerInv,
                AnswerOf
  <1>3. OnlyRequest(r) /\ wake'[r].pc = "done" /\ wake'[r].resp = resp
    BY <1>1, <1>2, GotoEffect DEF Wake!Pcs
  <1>4. OrderOf(r)' = OrderOf(r)
    BY <1>3 DEF OnlyRequest, OrderOf, Wake!StoreOf, Wake!RefOf
  <1>5. AnswerOf(r)'
    BY <1>1, <1>2, <1>3, <1>4 DEF AnswerOf, Uncoded
  <1>6. ASSUME NEW k \in DOMAIN keys'
        PROVE  \/ k \in DOMAIN keys /\ keys'[k].response = keys[k].response
               \/ k = OrderOf(r) /\ keys'[k].response = resp
    BY <1>1, <1>2 DEF Keys!TypeOK, Keys!KeyRow
  <1>7. ASSUME NEW k \in DOMAIN keys', k = OrderOf(r), keys'[k].response = resp
        PROVE  KeyFits(k)'
    BY <1>1, <1>2, <1>4, <1>7 DEF KeyFits
  <1>8. AnswersStand
    BY <1>1 DEF AnswersStand
  <1>9. QED
    BY <1>1, <1>3, <1>5, <1>6, <1>7, <1>8, AnswerStep

LEMMA DieAnswers ==
    ASSUME GatewayInv, AnswerInv, NEW r \in Requests, Wake!Die(r)
    PROVE  AnswerInv'
  <1>1. UNCHANGED <<payments, keys>> /\ Wake!Goto(r, "failed")
    BY DieDoes DEF ledger
  <1>2. OnlyRequest(r) /\ wake'[r].pc = "failed"
    BY <1>1, GotoEffect DEF GatewayInv, TypeOK, Wake!Pcs
  <1>3. QED
    BY <1>1, <1>2, NoAnswerYet, QuietAnswer

LEMMA AnswerNext == GatewayInv /\ AnswerInv /\ [Next]_vars => AnswerInv'
  <1> SUFFICES ASSUME GatewayInv, AnswerInv, [Next]_vars PROVE AnswerInv'
    OBVIOUS
  <1>1. ASSUME NEW r \in Requests, Wake!Step(r) \/ Wake!Die(r) PROVE AnswerInv'
    BY <1>1, FindKeyAnswers, InsertKeyAnswers, LookUpAnswers, CreatePaymentAnswers,
       PreEvaluateAnswers, EvaluateAnswers, MoveAnswers, NotifyRefusalAnswers,
       ChargeAnswers, RecordChargeAnswers, RecordFailureAnswers, SaveInstrumentAnswers,
       SaveResponseAnswers, DieAnswers
       DEF Wake!Step
  <1>2. CASE UNCHANGED vars
    BY <1>2, AnswerOutside DEF vars
  <1>3. QED
    BY <1>1, <1>2, OutsideDoes, AnswerOutside DEF Next, Wake!Next

LEMMA AnswerInit == Init => AnswerInv
  <1> SUFFICES ASSUME Init PROVE AnswerInv
    OBVIOUS
  <1>1. DOMAIN keys = {}
    BY DEF Init, Keys!Init
  <1>2. PICK w : Wake!Init(w)
    BY DEF Init
  <1>3. \A r \in Requests : wake[r].pc \in {"find", "unsent"}
    BY <1>2 DEF Wake!Init
  <1>4. QED
    BY <1>1, <1>3 DEF AnswerInv, AnswerOf, Uncoded

\* What a handler is about to answer, and what is saved, agrees with the ledger.
THEOREM AnswerInvariant == Spec => []AnswerInv
  BY AnswerInit, AnswerNext, GatewayInvariant, PTL DEF Spec

\* An answer given to the shop stays true of the order's payment, whichever request
\* got it, now or as a replay: a refusal is of a payment that can no longer be
\* collected, an approval of one past every check, the code shown is the one stored.
THEOREM AnswersStayTrue == Spec => []AnswerMatchesLedger
  <1>1. GatewayInv /\ AnswerInv => AnswerMatchesLedger
    <2> SUFFICES ASSUME GatewayInv, AnswerInv, NEW p \in DOMAIN payments,
                        NEW r \in RequestsOf(p), Answered(r)
                 PROVE  Fits(wake[r].resp, payments[p])
      BY DEF AnswerMatchesLedger, Fits
    <2>1. r \in Requests /\ wake[r].pc = "done"
      BY DEF RequestsOf, Answered
    <2>2. PICK q \in DOMAIN payments : OrderOf(q) = OrderOf(r)
                                       /\ Fits(wake[r].resp, payments[q])
      BY <2>1 DEF AnswerInv, AnswerOf
    <2>3. payments[q].store = Wake!StoreOf(q) /\ payments[q].ref = Wake!RefOf(q)
      BY LedgerTypes DEF GatewayInv, TypeOK, PaymentInv, RowOf
    <2>4. payments[q].store = payments[p].store /\ payments[q].ref = payments[p].ref
      BY <2>2, <2>3 DEF OrderOf, RequestsOf
    <2>5. q = p
      BY <2>4 DEF GatewayInv, Ledger!OnePaymentPerOrder
    <2>6. QED
      BY <2>2, <2>5
  <1>2. QED
    BY <1>1, GatewayInvariant, AnswerInvariant, PTL

------------------------------------------------------------------------------
(***************************************************************************)
(* Evidence.                                                               *)
(***************************************************************************)

\* What a transaction must be for the ledger to say s of its payment.
BackedBy(t, s) ==
    /\ s \in {"captured", "settled", "refunded", "chargeback"} =>
           t.status \in {"succeeded", "charged_back"}
    /\ s = "settled" => t.paidOut
    /\ s = "refunded" => t.refunded > 0
    /\ s = "cancelled" => t.status = "reversed"
    /\ s = "expired" => t.status = "expired"

Backed(p, s) ==
    s \in Collected \cup {"cancelled", "expired"} =>
        zoop[p] # <<>> /\ BackedBy(zoop[p][1], s)

Real(p) == Wake!StoreOf(p) \notin FakeStores

\* Nothing at Zoop, or a transaction that failed.
NotCharged(p) == zoop[p] # <<>> => zoop[p][1].status = "failed"

\* Its charge row says that createCharge threw.
Marked(p) == charges[p] # <<>> /\ charges[p][1].providerId = NoProviderId

Refusing(p) ==
    \/ p \in DOMAIN payments /\ payments[p].status = "refused"
    \/ wake[p].pc = "move" /\ wake[p].to = "refused"

\* The ledger is borne out by Zoop, and a refusal made or on its way is of a payment
\* without a charge, or marked.  A handler asks for nothing that needs evidence, and
\* charges only from approved_risk.
EvidenceOf(p) ==
    /\ p \in DOMAIN payments /\ Real(p) => Backed(p, payments[p].status)
    /\ wake[p].pc = "move" => wake[p].to \in {"refused", "under_review", "approved_risk",
                                              "authorized", "waiting_payment"}
    /\ wake[p].pc = "charge" => payments[p].status = "approved_risk"
    /\ Refusing(p) => Marked(p) \/ NotCharged(p)
    /\ wake[p].pc = "record" /\ wake[p].answer.status = "failed" => NotCharged(p)

\* A webhook tells what happened, however late it comes.
HookOf(h) ==
    /\ zoop[h.ref] # <<>> /\ BackedBy(zoop[h.ref][1], Hooks!ZoopStatus(h.type))
    /\ h.type = "transaction.failed" => zoop[h.ref][1].status = "failed"

\* An operation asks for the transition that Zoop's answer allows.
CallOf(o) ==
    LET p == ops[o].p IN
    /\ ops[o].pc = "idle" => ops[o].action = "none"
    /\ ops[o].pc = "zoop" => charges[p] # <<>>
    /\ ops[o].pc = "move" =>
           /\ ops[o].to = Shop!TargetOf(ops[o].action)
           /\ ops[o].to # "chargeback" =>
                  charges[p] # <<>> /\ (Real(p) => Backed(p, ops[o].to))

EvidenceInv ==
    /\ \A p \in PaymentIds : EvidenceOf(p)
    /\ \A h \in hooks : HookOf(h)
    /\ \A c \in callbacks : koin[c.ref].decision = c.status
    /\ \A o \in Ops : CallOf(o)

------------------------------------------------------------------------------
(***************************************************************************)
(* Zoop takes nothing back: a transaction bears out for ever what it bore  *)
(* out once, and every webhook is borne out when it is sent.               *)
(***************************************************************************)
ZoopKeeps ==
    \A p \in PaymentIds : zoop[p] # <<>> =>
        /\ zoop'[p] # <<>>
        /\ \A s : BackedBy(zoop[p][1], s) => BackedBy(zoop'[p][1], s)
        /\ zoop[p][1].status = "failed" => zoop'[p][1].status = "failed"

NewHooksAreTrue == \A h \in hooks' : h \in hooks \/ HookOf(h)'

LEMMA ZoopUnmoved ==
    ASSUME UNCHANGED <<zoop, hooks>>
    PROVE  ZoopKeeps /\ NewHooksAreTrue
  BY DEF ZoopKeeps, NewHooksAreTrue

\* The one transaction of p becomes t and says so.
LEMMA TxnKeeps ==
    ASSUME GatewayInv, NEW id \in Provider!Txns, NEW t \in Provider!Txn,
           NEW type \in Provider!HookTypes,
           zoop' = [zoop EXCEPT ![id[1]][id[2]] = t],
           hooks' = hooks \cup {[type |-> type, ref |-> id[1]]},
           \A s : BackedBy(Provider!TxnOf(id), s) => BackedBy(t, s),
           Provider!TxnOf(id).status # "failed",
           BackedBy(t, Hooks!ZoopStatus(type)),
           type = "transaction.failed" => t.status = "failed"
    PROVE  /\ ZoopKeeps /\ NewHooksAreTrue
           /\ zoop'[id[1]] # <<>> /\ zoop'[id[1]][1] = t
  <1>1. PICK p \in PaymentIds, i \in 1 .. MaxTxns : id = <<p, i>>
    BY DEF Provider!Txns, Provider!TxnIds
  <1>2. /\ Provider!BothTypeOK /\ zoop[p] \in Seq(Provider!Txn) /\ Len(zoop[p]) <= 1
        /\ i <= Len(zoop[p])
    BY <1>1 DEF GatewayInv, TypeOK, Provider!BothTypeOK, Provider!TypeOK, PaymentInv,
                ChargeOf, Provider!Txns
  <1>3. i = 1 /\ Len(zoop[p]) = 1
    <2>1. \A j, n \in Nat : 1 <= j /\ j <= n /\ n <= 1 => j = 1 /\ n = 1
      OBVIOUS
    <2>2. Len(zoop[p]) \in Nat /\ i \in Nat /\ 1 <= i
      BY <1>2, LedgerConstants
    <2>3. QED
      BY <1>2, <2>1, <2>2
  <1> DEFINE h == zoop[p]
             g == [h EXCEPT ![1] = t]
  <1>4. zoop' = [zoop EXCEPT ![p] = g]
    BY <1>1, <1>3
  <1>5. g \in Seq(Provider!Txn) /\ g # <<>> /\ g[1] = t
    BY <1>2, <1>3
  <1> HIDE DEF g
  <1>6. /\ zoop'[p] = g /\ id[1] = p /\ Provider!TxnOf(id) = zoop[p][1]
        /\ \A q \in PaymentIds \ {p} : zoop'[q] = zoop[q]
    BY <1>1, <1>2, <1>3, <1>4
       DEF Provider!BothTypeOK, Provider!TypeOK, Provider!TxnOf
  <1>7. ZoopKeeps
    BY <1>5, <1>6 DEF ZoopKeeps
  <1> DEFINE m == [type |-> type, ref |-> id[1]]
  <1>8. m.type = type /\ m.ref = p
    BY <1>6
  <1> HIDE DEF m
  <1>9. HookOf(m)'
    <2>1. Hooks!ZoopStatus(m.type)' = Hooks!ZoopStatus(type)
      BY <1>8 DEF Hooks!ZoopStatus
    <2>2. QED
      BY <1>5, <1>6, <1>8, <2>1 DEF HookOf
  <1>10. NewHooksAreTrue
    BY <1>9 DEF NewHooksAreTrue, m
  <1>11. QED
    BY <1>5, <1>6, <1>7, <1>10

\* The moves Zoop makes, and what each says.
TrueMove(f, s, type) ==
    \/ f = "pending" /\ s = "succeeded" /\ type \in {"transaction.paid",
                                                     "transaction.succeeded"}
    \/ f = "pending" /\ s = "expired" /\ type = "transaction.expired"
    \/ f = "pending" /\ s = "pre_authorized" /\ type = "transaction.authorized"
    \/ f = "pending" /\ s = "failed" /\ type = "transaction.failed"
    \/ f = "pre_authorized" /\ s = "succeeded" /\ type = "transaction.succeeded"
    \/ f = "pre_authorized" /\ s = "reversed" /\ type = "transaction.reversed"
    \/ f = "succeeded" /\ s = "charged_back" /\ type = "transaction.charged_back"

LEMMA MoveKeeps ==
    ASSUME GatewayInv, NEW id \in Provider!Txns, NEW f, NEW s, NEW type,
           TrueMove(f, s, type), Provider!MoveTxn(id, {f}, s, type)
    PROVE  /\ ZoopKeeps /\ NewHooksAreTrue
           /\ zoop'[id[1]] # <<>> /\ zoop'[id[1]][1].status = s
  <1> DEFINE x == zoop[id[1]][id[2]]
             t == [x EXCEPT !.status = s]
  <1>1. /\ x \in Provider!Txn /\ x = Provider!TxnOf(id) /\ x.status = f
        /\ s \in Provider!TxnStatuses /\ type \in Provider!HookTypes
    BY TxnTypes DEF GatewayInv, TypeOK, Provider!TxnOf, Provider!MoveTxn, TrueMove,
                    Provider!TxnStatuses, Provider!HookTypes
  <1>2. /\ t \in Provider!Txn /\ t.status = s /\ t.refunded = x.refunded
        /\ t.paidOut = x.paidOut
    BY <1>1 DEF Provider!Txn
  <1>3. /\ zoop' = [zoop EXCEPT ![id[1]][id[2]] = t]
        /\ hooks' = hooks \cup {[type |-> type, ref |-> id[1]]}
    BY DEF Provider!MoveTxn
  <1> HIDE DEF x, t
  <1>4. \A z : BackedBy(x, z) => BackedBy(t, z)
    BY <1>1, <1>2 DEF BackedBy, TrueMove
  <1>5. BackedBy(t, Hooks!ZoopStatus(type))
    BY <1>2 DEF BackedBy, TrueMove, Hooks!ZoopStatus
  <1>6. x.status # "failed" /\ (type = "transaction.failed" => t.status = "failed")
    BY <1>1, <1>2 DEF TrueMove
  <1>7. QED
    BY <1>1, <1>2, <1>3, <1>4, <1>5, <1>6, TxnKeeps

LEMMA RefundKeeps ==
    ASSUME GatewayInv, NEW id \in Provider!Txns, NEW full, Provider!Refund(id, full)
    PROVE  /\ ZoopKeeps /\ NewHooksAreTrue
           /\ zoop'[id[1]] # <<>> /\ BackedBy(zoop'[id[1]][1], "refunded")
  <1> DEFINE x == zoop[id[1]][id[2]]
             n == x.refunded + Provider!RefundAmount(id, full)
             t == [x EXCEPT !.refunded = n]
  <1>1. x \in Provider!Txn /\ x = Provider!TxnOf(id) /\ x.status = "succeeded"
    BY TxnTypes DEF GatewayInv, TypeOK, Provider!TxnOf, Provider!Refund,
                    Provider!CanRefund
  <1>2. x.refunded \in 0 .. 1
    BY <1>1 DEF Provider!Txn, Provider!Refund, Provider!CanRefund, Provider!FullAmount
  <1>3. n \in 1 .. 2
    BY <1>1, <1>2 DEF Provider!RefundAmount, Provider!FullAmount
  <1>4. /\ zoop' = [zoop EXCEPT ![id[1]][id[2]] = t]
        /\ hooks' = hooks \cup {[type |-> "transaction.refunded", ref |-> id[1]]}
    BY DEF Provider!Refund
  <1> HIDE DEF n
  <1>5. /\ t \in Provider!Txn /\ t.status = "succeeded" /\ t.refunded = n
        /\ t.paidOut = x.paidOut
    BY <1>1, <1>3 DEF Provider!Txn, Provider!FullAmount
  <1> HIDE DEF x, t
  <1>6. n > 0
    BY <1>3
  <1>7. \A z : BackedBy(x, z) => BackedBy(t, z)
    BY <1>1, <1>5, <1>6 DEF BackedBy
  <1>8. Hooks!ZoopStatus("transaction.refunded") = "refunded"
    BY DEF Hooks!ZoopStatus
  <1>9. BackedBy(t, "refunded")
    BY <1>5, <1>6 DEF BackedBy
  <1>10. "transaction.refunded" \in Provider!HookTypes
    BY DEF Provider!HookTypes
  <1>11. QED
    BY <1>1, <1>4, <1>5, <1>7, <1>8, <1>9, <1>10, TxnKeeps

LEMMA ZoopMovesKeep ==
    ASSUME GatewayInv, NEW id \in Provider!Txns, ZoopMoves(id)
    PROVE  ZoopKeeps /\ NewHooksAreTrue
  <1>1. CASE Provider!PaidOut(id)
    <2> DEFINE x == zoop[id[1]][id[2]]
               t == [x EXCEPT !.paidOut = TRUE]
    <2>1. x \in Provider!Txn /\ x = Provider!TxnOf(id) /\ x.status = "succeeded"
      BY <1>1, TxnTypes DEF GatewayInv, TypeOK, Provider!TxnOf, Provider!PaidOut
    <2>2. /\ t \in Provider!Txn /\ t.status = "succeeded" /\ t.refunded = x.refunded
          /\ t.paidOut = TRUE
      BY <2>1 DEF Provider!Txn
    <2>3. /\ zoop' = [zoop EXCEPT ![id[1]][id[2]] = t]
          /\ hooks' = hooks \cup {[type |-> "receivable.paid", ref |-> id[1]]}
      BY <1>1 DEF Provider!PaidOut
    <2> HIDE DEF x, t
    <2>4. t.paidOut
      BY <2>2
    <2>5. \A z : BackedBy(x, z) => BackedBy(t, z)
      BY <2>1, <2>2, <2>4 DEF BackedBy
    <2>6. BackedBy(t, Hooks!ZoopStatus("receivable.paid"))
      BY <2>2, <2>4 DEF BackedBy, Hooks!ZoopStatus
    <2>7. "receivable.paid" \in Provider!HookTypes
      BY DEF Provider!HookTypes
    <2>8. QED
      BY <2>1, <2>2, <2>3, <2>5, <2>6, <2>7, TxnKeeps
  <1>2. CASE Provider!BuyerPays(id)
    BY <1>2, MoveKeeps DEF Provider!BuyerPays, TrueMove
  <1>3. CASE Provider!CodeExpires(id)
    BY <1>3, MoveKeeps DEF Provider!CodeExpires, TrueMove
  <1>4. CASE Provider!CardDecided(id)
    BY <1>4, MoveKeeps DEF Provider!CardDecided, TrueMove
  <1>5. CASE Provider!AuthorizationLapses(id)
    BY <1>5, MoveKeeps DEF Provider!AuthorizationLapses, TrueMove
  <1>6. CASE Provider!ChargedBack(id)
    BY <1>6, MoveKeeps DEF Provider!ChargedBack, TrueMove
  <1>7. QED
    BY <1>1, <1>2, <1>3, <1>4, <1>5, <1>6 DEF ZoopMoves

\* A call Zoop executed is evidence of the transition the handler asks for.
LEMMA ExecuteKeeps ==
    ASSUME GatewayInv, NEW p \in PaymentIds, NEW f \in BOOLEAN, NEW full,
           NEW a \in {"capture", "void", "refund"}, ~f => zoop[p] # <<>>,
           Provider!Execute(f, a, <<p, 1>>, full)
    PROVE  /\ ZoopKeeps /\ NewHooksAreTrue
           /\ ~f => Backed(p, Shop!TargetOf(a))'
  <1>1. CASE f
    BY <1>1, ZoopUnmoved DEF Provider!Execute, Provider!zoopVars
  <1>2. CASE ~f
    <2> DEFINE id == <<p, 1>>
    <2>1. id \in Provider!Txns
      <3>1. Len(zoop[p]) \in 1 .. MaxTxns /\ id[1] = p /\ id[2] = 1
        BY <1>2, LedgerConstants
           DEF GatewayInv, TypeOK, Provider!BothTypeOK, Provider!TypeOK
      <3>2. QED
        BY <3>1, LedgerConstants DEF Provider!Txns, Provider!TxnIds
    <2>2. id[1] = p
      OBVIOUS
    <2>3. \/ a = "capture" /\ Provider!Capture(id)
          \/ a = "void" /\ Provider!Void(id)
          \/ a = "refund" /\ Provider!Refund(id, full)
      BY <1>2 DEF Provider!Execute
    <2> HIDE DEF id
    <2>4. CASE a = "capture" /\ Provider!Capture(id)
      <3>1. ZoopKeeps /\ NewHooksAreTrue /\ zoop'[p] # <<>> /\ zoop'[p][1].status = "succeeded"
        BY <2>1, <2>2, <2>4, MoveKeeps DEF Provider!Capture, TrueMove
      <3>2. QED
        BY <2>4, <3>1 DEF Backed, BackedBy, Shop!TargetOf
    <2>5. CASE a = "void" /\ Provider!Void(id)
      <3>1. ZoopKeeps /\ NewHooksAreTrue /\ zoop'[p] # <<>> /\ zoop'[p][1].status = "reversed"
        BY <2>1, <2>2, <2>5, MoveKeeps DEF Provider!Void, TrueMove
      <3>2. QED
        BY <2>5, <3>1 DEF Backed, BackedBy, Shop!TargetOf
    <2>6. CASE a = "refund" /\ Provider!Refund(id, full)
      BY <2>1, <2>2, <2>6, RefundKeeps DEF Backed, Shop!TargetOf
    <2>7. QED
      BY <2>3, <2>4, <2>5, <2>6
  <1>3. QED
    BY <1>1, <1>2

\* The first charge of p: its webhooks are true, and an answer that it failed.
LEMMA ChargeKeeps ==
    ASSUME GatewayInv, NEW p \in PaymentIds, NEW m \in Provider!Methods,
           NEW f \in BOOLEAN, NEW c, NEW o, Provider!Charge(f, p, m, c, o),
           zoop[p] = <<>>
    PROVE  /\ ZoopKeeps /\ NewHooksAreTrue
           /\ \A q \in PaymentIds \ {p} : zoop'[q] = zoop[q]
           /\ Provider!ResultOf(f, p, m, o).status = "failed" => NotCharged(p)'
  <1>1. CASE f
    <2>1. UNCHANGED <<zoop, hooks>>
      BY <1>1 DEF Provider!Charge, Provider!zoopVars
    <2>2. QED
      BY <2>1, ZoopUnmoved DEF NotCharged
  <1>2. CASE ~f
    <2> DEFINE t == [method |-> m, status |-> o.status, refunded |-> 0,
                     capture |-> c /\ m = "credit_card", paidOut |-> FALSE]
    <2>1. /\ zoop' = [zoop EXCEPT ![p] = Append(zoop[p], t)]
          /\ hooks' = hooks \cup Provider!FirstHooks(p, o.status)
          /\ o.status \in Provider!FirstStatuses(m, c)
      BY <1>2 DEF Provider!Charge, Provider!CreateCharge
    <2>2. t.status = o.status
      OBVIOUS
    <2> HIDE DEF t
    <2>3. /\ zoop'[p] # <<>> /\ zoop'[p][1].status = o.status
          /\ \A q \in PaymentIds \ {p} : zoop'[q] = zoop[q]
      <3>1. zoop'[p] = Append(<<>>, t) /\ \A q \in PaymentIds \ {p} : zoop'[q] = zoop[q]
        BY <2>1 DEF GatewayInv, TypeOK, Provider!BothTypeOK, Provider!TypeOK
      <3>2. Append(<<>>, t) # <<>> /\ Append(<<>>, t)[1] = t
        OBVIOUS
      <3>3. QED
        BY <2>2, <3>1, <3>2
    <2>4. ZoopKeeps
      BY <2>3 DEF ZoopKeeps
    <2>5. ASSUME NEW h \in Provider!FirstHooks(p, o.status) PROVE HookOf(h)'
      <3>1. /\ h.ref = p
            /\ \/ h.type = "transaction.authorized"
               \/ h.type = "transaction.succeeded" /\ o.status = "succeeded"
               \/ h.type = "transaction.failed" /\ o.status = "failed"
        BY <2>1 DEF Provider!FirstHooks, Provider!FirstStatuses
      <3>2. BackedBy(zoop'[p][1], Hooks!ZoopStatus(h.type))
        BY <2>3, <3>1 DEF BackedBy, Hooks!ZoopStatus
      <3>3. QED
        BY <2>3, <3>1, <3>2 DEF HookOf, Hooks!ZoopStatus
    <2>6. Provider!ResultOf(f, p, m, o).status = "failed" => o.status = "failed"
      BY <1>2, <2>1 DEF Provider!ResultOf, Provider!ChargeStatus, Provider!MapZoopStatus,
                        Provider!FirstStatuses
    <2>7. QED
      BY <2>1, <2>3, <2>4, <2>5, <2>6 DEF NewHooksAreTrue, NotCharged
  <1>3. QED
    BY <1>1, <1>2

------------------------------------------------------------------------------
(***************************************************************************)
(* The evidence through every step.                                        *)
(***************************************************************************)

\* Nothing of a payment moves but its transaction, if it has one.
Undisturbed(p) ==
    /\ wake'[p] = wake[p] /\ charges'[p] = charges[p]
    /\ zoop[p] = <<>> => zoop'[p] = <<>>
    /\ p \in DOMAIN payments' <=> p \in DOMAIN payments
    /\ p \in DOMAIN payments => payments'[p] = payments[p]

\* The facts of EvidenceOf that Zoop can touch.
LEMMA BackedStays ==
    ASSUME ZoopKeeps, NEW p \in PaymentIds
    PROVE  /\ \A s : Backed(p, s) => Backed(p, s)'
           /\ NotCharged(p) /\ (zoop[p] = <<>> => zoop'[p] = <<>>) => NotCharged(p)'
  BY DEF ZoopKeeps, Backed, NotCharged

LEMMA BackedNow ==
    ASSUME NEW p, NEW s, s = payments'[p].status
    PROVE  Backed(p, payments[p].status)' <=> Backed(p, s)'
  BY DEF Backed

LEMMA UndisturbedStays ==
    ASSUME EvidenceInv, ZoopKeeps, NEW p \in PaymentIds, Undisturbed(p),
           wake[p].pc \in Working => p \in DOMAIN payments
    PROVE  EvidenceOf(p)'
  <1>1. EvidenceOf(p)
    BY DEF EvidenceInv
  <1>2. Real(p)' <=> Real(p)
    BY DEF Undisturbed, Real, Wake!StoreOf
  <1>3. p \in DOMAIN payments' /\ Real(p)' => Backed(p, payments[p].status)'
    <2>1. PICK s : s = payments'[p].status
      OBVIOUS
    <2>2. p \in DOMAIN payments' /\ Real(p)' => Backed(p, s)
      BY <1>1, <1>2, <2>1 DEF Undisturbed, EvidenceOf
    <2>3. Backed(p, s) => Backed(p, s)'
      BY BackedStays
    <2>4. QED
      BY <2>1, <2>2, <2>3, BackedNow
  <1>4. Refusing(p)' => Marked(p)' \/ NotCharged(p)'
    <2>1. Refusing(p)' => Refusing(p)
      BY DEF Refusing, Undisturbed
    <2>2. Marked(p) => Marked(p)'
      BY DEF Marked, Undisturbed
    <2>3. NotCharged(p) => NotCharged(p)'
      BY BackedStays DEF Undisturbed
    <2>4. QED
      BY <1>1, <2>1, <2>2, <2>3 DEF EvidenceOf
  <1>5. wake'[p].pc = "record" /\ wake'[p].answer.status = "failed" => NotCharged(p)'
    BY <1>1, BackedStays DEF Undisturbed, EvidenceOf
  <1>6. wake'[p].pc = "charge" => payments'[p].status = "approved_risk"
    BY <1>1 DEF Undisturbed, EvidenceOf, Working
  <1>7. wake'[p].pc = "move" => wake'[p].to \in {"refused", "under_review",
                                   "approved_risk", "authorized", "waiting_payment"}
    BY <1>1 DEF Undisturbed, EvidenceOf
  <1>8. QED
    BY <1>3, <1>4, <1>5, <1>6, <1>7 DEF EvidenceOf

LEMMA EvidenceStep ==
    ASSUME GatewayInv, EvidenceInv, ZoopKeeps, NewHooksAreTrue,
           \A q \in Requests : wake'[q].body = wake[q].body,
           \A q \in PaymentIds : charges[q] # <<>> => charges'[q] # <<>>,
           \A q \in PaymentIds : Undisturbed(q) \/ EvidenceOf(q)',
           \A c \in callbacks' :
               \/ c \in callbacks /\ koin'[c.ref].decision = koin[c.ref].decision
               \/ koin'[c.ref].decision = c.status,
           \A o \in Ops : ops'[o] = ops[o] \/ CallOf(o)'
    PROVE  EvidenceInv'
  <1>1. ASSUME NEW p \in PaymentIds PROVE EvidenceOf(p)'
    <2>1. wake[p].pc \in Working => p \in DOMAIN payments
      BY DEF GatewayInv, PaymentInv, RowOf
    <2>2. QED
      BY <2>1, UndisturbedStays
  <1>2. ASSUME NEW h \in hooks' PROVE HookOf(h)'
    <2>1. CASE h \in hooks
      <3>1. HookOf(h) /\ h.ref \in PaymentIds
        BY <2>1 DEF EvidenceInv, GatewayInv, TypeOK, Provider!BothTypeOK,
                    Provider!TypeOK, Provider!Hook
      <3>2. Hooks!ZoopStatus(h.type)' = Hooks!ZoopStatus(h.type)
        BY DEF Hooks!ZoopStatus
      <3>3. QED
        BY <3>1, <3>2 DEF ZoopKeeps, HookOf
    <2>2. QED
      BY <2>1 DEF NewHooksAreTrue
  <1>3. \A c \in callbacks' : koin'[c.ref].decision = c.status
    BY DEF EvidenceInv
  <1>4. ASSUME NEW o \in Ops, ops'[o] = ops[o] PROVE CallOf(o)'
    <2>1. PICK p, to : p \in PaymentIds /\ p = ops[o].p /\ to = ops[o].to
      BY OperationTypes DEF GatewayInv, TypeOK
    <2>2. CallOf(o)
      BY DEF EvidenceInv
    <2>3. (Real(p)' <=> Real(p)) /\ (Backed(p, to) => Backed(p, to)')
      BY <2>1, BackedStays DEF Real, Wake!StoreOf, PaymentIds
    <2>4. Shop!TargetOf(ops[o].action)' = Shop!TargetOf(ops[o].action)
      BY <1>4 DEF Shop!TargetOf
    <2>5. /\ Real(ops[o].p)' <=> Real(p)'
          /\ Backed(ops[o].p, ops[o].to)' <=> Backed(p, to)'
      BY <1>4, <2>1 DEF Real, Wake!StoreOf, Backed
    <2>6. QED
      BY <1>4, <2>1, <2>2, <2>3, <2>4, <2>5 DEF CallOf
  <1>5. QED
    BY <1>1, <1>2, <1>3, <1>4 DEF EvidenceInv

\* A step of a request: its payment's evidence is to be seen to, the others' is not.
LEMMA EvidenceRequest ==
    ASSUME GatewayInv, EvidenceInv, NEW r \in Requests, OnlyRequest(r), UNCHANGED ops,
           \/ UNCHANGED <<zoop, hooks>>
           \/ /\ ZoopKeeps /\ NewHooksAreTrue
              /\ \A q \in PaymentIds \ {r} : zoop'[q] = zoop[q],
           \/ UNCHANGED koinVars
           \/ UNCHANGED callbacks /\ \A q \in PaymentIds : koin'[q].decision = koin[q].decision,
           charges[r] # <<>> => charges'[r] # <<>>,
           \A q \in PaymentIds \ {r} :
               /\ charges'[q] = charges[q]
               /\ q \in DOMAIN payments' <=> q \in DOMAIN payments
               /\ q \in DOMAIN payments => payments'[q] = payments[q],
           EvidenceOf(r)'
    PROVE  EvidenceInv'
  <1>1. ZoopKeeps /\ NewHooksAreTrue
    BY ZoopUnmoved
  <1>2. \A q \in Requests : wake'[q].body = wake[q].body
    BY DEF OnlyRequest
  <1>3. \A q \in PaymentIds : Undisturbed(q) \/ EvidenceOf(q)'
    BY DEF Undisturbed, OnlyRequest, PaymentIds
  <1>4. \A q \in PaymentIds : charges[q] # <<>> => charges'[q] # <<>>
    BY DEF PaymentIds
  <1>5. \A c \in callbacks : c.ref \in PaymentIds
    BY DEF GatewayInv, TypeOK, Risk!TypeOK
  <1>6. \A c \in callbacks' : c \in callbacks /\ koin'[c.ref].decision = koin[c.ref].decision
    BY <1>5 DEF koinVars
  <1>7. QED
    BY <1>1, <1>2, <1>3, <1>4, <1>6, EvidenceStep

\* The request moves where no evidence is asked of it, and nothing else does.
LEMMA QuietEvidence ==
    ASSUME GatewayInv, EvidenceInv, NEW r \in Requests, OnlyRequest(r),
           UNCHANGED <<ops, ledger, zoop, hooks>>,
           \/ UNCHANGED koinVars
           \/ UNCHANGED callbacks /\ \A q \in PaymentIds : koin'[q].decision = koin[q].decision,
           wake'[r].pc \notin {"move", "charge", "record"}
    PROVE  EvidenceInv'
  <1>1. EvidenceOf(r) /\ r \in PaymentIds
    BY DEF EvidenceInv, PaymentIds
  <1>2. /\ Real(r)' <=> Real(r)
        /\ Marked(r)' <=> Marked(r)
        /\ NotCharged(r)' <=> NotCharged(r)
        /\ Backed(r, payments[r].status)' <=> Backed(r, payments[r].status)
    BY DEF Real, Wake!StoreOf, OnlyRequest, Marked, NotCharged, Backed, ledger
  <1>3. Refusing(r)' => Refusing(r)
    BY DEF Refusing, ledger
  <1>4. EvidenceOf(r)'
    BY <1>1, <1>2, <1>3 DEF EvidenceOf, ledger
  <1>5. QED
    BY <1>4, EvidenceRequest DEF ledger

\* A transition of p that is borne out, while its handler stays where it is.
LEMMA MovedTruly ==
    ASSUME GatewayInv, EvidenceInv, NEW p, NEW to, Moved(p, to),
           UNCHANGED <<wake, zoop, hooks, charges, koin, callbacks>>,
           Real(p) => Backed(p, to),
           to = "refused" => Marked(p) \/ NotCharged(p),
           wake[p].pc = "charge" => to = "approved_risk",
           \A o \in Ops : ops'[o] = ops[o] \/ CallOf(o)'
    PROVE  EvidenceInv'
  <1>1. /\ p \in PaymentIds /\ p \in DOMAIN payments /\ EvidenceOf(p)
        /\ payments[p] \in Ledger!PaymentRow
    BY LedgerTypes DEF Moved, EvidenceInv, GatewayInv, TypeOK
  <1>2. payments'[p].status = to
    BY <1>1 DEF Moved, Ledger!PaymentRow
  <1>3. /\ Real(p)' <=> Real(p)
        /\ Marked(p)' <=> Marked(p)
        /\ NotCharged(p)' <=> NotCharged(p)
        /\ Backed(p, payments[p].status)' <=> Backed(p, to)
    BY <1>2 DEF Real, Wake!StoreOf, Marked, NotCharged, Backed
  <1>4. Refusing(p)' => Refusing(p) \/ to = "refused"
    BY <1>2 DEF Refusing
  <1>5. EvidenceOf(p)'
    BY <1>1, <1>2, <1>3, <1>4 DEF EvidenceOf
  <1>6. \A q \in PaymentIds \ {p} : Undisturbed(q)
    BY DEF Moved, Undisturbed
  <1>7. ZoopKeeps /\ NewHooksAreTrue
    BY ZoopUnmoved
  <1>8. QED
    BY <1>5, <1>6, <1>7, EvidenceStep

\* The ledger and the requests rest.
LEMMA LedgerRests ==
    ASSUME GatewayInv, EvidenceInv, UNCHANGED <<wake, payments, charges>>,
           ZoopKeeps, NewHooksAreTrue,
           \A q \in PaymentIds : zoop[q] = <<>> => zoop'[q] = <<>>,
           \A c \in callbacks' :
               \/ c \in callbacks /\ koin'[c.ref].decision = koin[c.ref].decision
               \/ koin'[c.ref].decision = c.status,
           \A o \in Ops : ops'[o] = ops[o] \/ CallOf(o)'
    PROVE  EvidenceInv'
  <1>1. \A q \in PaymentIds : Undisturbed(q)
    BY DEF Undisturbed
  <1>2. QED
    BY <1>1, EvidenceStep

LEMMA BeforePaymentEvidence ==
    ASSUME GatewayInv, EvidenceInv, NEW r \in Requests,
           Wake!FindKey(r) \/ Wake!InsertKey(r) \/ Wake!LookUpPayment(r),
           UNCHANGED ops
    PROVE  EvidenceInv'
  <1>1. Wake!TypeOK
    BY DEF GatewayInv, TypeOK
  <1>2. UNCHANGED <<ledger, zoop, hooks, koinVars>>
    BY FindKeyDoes, InsertKeyDoes, LookUpDoes DEF providerVars
  <1>3. ASSUME NEW pc \in {"insert", "create", "lookup", "failed"}, Wake!Goto(r, pc)
        PROVE  OnlyRequest(r) /\ wake'[r].pc = pc
    BY <1>1, <1>3, GotoEffect DEF Wake!Pcs
  <1>4. ASSUME NEW resp, Wake!Answer(r, resp)
        PROVE  OnlyRequest(r) /\ wake'[r].pc = "done"
    BY <1>1, <1>4 DEF Wake!Answer, OnlyRequest, Wake!TypeOK, Wake!RequestState
  <1>5. \/ \E pc \in {"insert", "create", "lookup", "failed"} : Wake!Goto(r, pc)
        \/ \E resp : Wake!Answer(r, resp)
    BY FindKeyDoes, InsertKeyDoes, LookUpDoes
  <1>6. OnlyRequest(r) /\ wake'[r].pc \notin {"move", "charge", "record"}
    BY <1>3, <1>4, <1>5
  <1>7. QED
    BY <1>2, <1>6, QuietEvidence

LEMMA CreatePaymentEvidence ==
    ASSUME GatewayInv, EvidenceInv, NEW r \in Requests, Wake!CreatePayment(r),
           UNCHANGED ops
    PROVE  EvidenceInv'
  <1>1. /\ Wake!TypeOK /\ Ledger!TypeOK /\ r \in PaymentIds
        /\ Wake!StoreOf(r) \in Stores /\ Wake!RefOf(r) \in Refs
    BY RequestTypes DEF GatewayInv, TypeOK, PaymentIds
  <1>2. UNCHANGED <<zoop, hooks, koinVars>>
    BY CreatePaymentDoes DEF providerVars
  <1>3. CASE Wake!Goto(r, "failed") /\ UNCHANGED ledger
    <2>1. OnlyRequest(r) /\ wake'[r].pc = "failed"
      BY <1>1, <1>3, GotoEffect DEF Wake!Pcs
    <2>2. QED
      BY <1>2, <1>3, <2>1, QuietEvidence
  <1>4. ASSUME Ledger!Create(r, Wake!StoreOf(r), Wake!RefOf(r)),
               NEW pc \in {"preEvaluate", "evaluate"}, Wake!Goto(r, pc)
        PROVE  EvidenceInv'
    <2>1. OnlyRequest(r) /\ wake'[r].pc = pc
      BY <1>1, <1>4, GotoEffect DEF Wake!Pcs
    <2>2. payments'[r].status = "created" /\ UNCHANGED charges
      BY <1>4 DEF Ledger!Create, Ledger!InitialStatus
    <2>3. \A q \in PaymentIds \ {r} :
              /\ q \in DOMAIN payments' <=> q \in DOMAIN payments
              /\ q \in DOMAIN payments => payments'[q] = payments[q]
      BY <1>4 DEF Ledger!Create, Ledger!Exists
    <2>4. Backed(r, payments[r].status)' /\ ~Refusing(r)'
      BY <2>1, <2>2 DEF Backed, Collected, Refusing
    <2>5. EvidenceOf(r)'
      BY <2>1, <2>4 DEF EvidenceOf
    <2>6. QED
      BY <1>2, <2>1, <2>2, <2>3, <2>5, EvidenceRequest
  <1>5. QED
    BY <1>3, <1>4, CreatePaymentDoes

\* The handler plans a transition, with or without Koin's verdict.
LEMMA PlannedEvidence ==
    ASSUME GatewayInv, EvidenceInv, NEW r \in Requests, UNCHANGED <<ops, payments>>,
           UNCHANGED <<zoop, hooks>>,
           \/ UNCHANGED koinVars
           \/ UNCHANGED callbacks /\ \A q \in PaymentIds : koin'[q].decision = koin[q].decision,
           \A q \in PaymentIds \ {r} : charges'[q] = charges[q],
           charges[r] # <<>> => charges'[r] # <<>>,
           NEW resp \in Wake!Response \cup {NoResponse},
           NEW to \in {"refused", "under_review", "approved_risk", "authorized",
                       "waiting_payment"},
           Wake!GotoMove(r, to, resp),
           Marked(r) => Marked(r)',
           to = "refused" => Marked(r)' \/ NotCharged(r)
    PROVE  EvidenceInv'
  <1>1. OnlyRequest(r) /\ wake'[r].pc = "move" /\ wake'[r].to = to
    BY GotoMoveEffect DEF GatewayInv, TypeOK, Statuses
  <1>2. EvidenceOf(r)
    BY DEF EvidenceInv, PaymentIds
  <1>3. /\ Real(r)' <=> Real(r)
        /\ NotCharged(r)' <=> NotCharged(r)
        /\ Backed(r, payments[r].status)' <=> Backed(r, payments[r].status)
    BY <1>1 DEF Real, Wake!StoreOf, OnlyRequest, NotCharged, Backed
  <1>4. Refusing(r)' => Refusing(r) \/ to = "refused"
    BY <1>1 DEF Refusing
  <1>5. Refusing(r)' => Marked(r)' \/ NotCharged(r)'
    BY <1>2, <1>3, <1>4 DEF EvidenceOf
  <1>6. EvidenceOf(r)'
    BY <1>1, <1>2, <1>3, <1>5 DEF EvidenceOf
  <1>7. QED
    BY <1>1, <1>6, EvidenceRequest

LEMMA PreEvaluateEvidence ==
    ASSUME GatewayInv, EvidenceInv, NEW r \in Requests, Wake!PreEvaluate(r),
           UNCHANGED ops
    PROVE  EvidenceInv'
  <1>1. wake[r].pc = "preEvaluate" /\ UNCHANGED <<ledger, zoop, hooks>>
    BY PreEvaluateDoes DEF providerVars
  <1>2. PICK v : /\ koin' = [koin EXCEPT ![r].pre = v] /\ UNCHANGED callbacks
                 /\ \/ Wake!GotoMove(r, "refused", Wake!Say(5))
                    \/ Wake!Goto(r, "evaluate")
    BY PreEvaluateDoes
  <1>3. \A q \in PaymentIds : koin'[q].decision = koin[q].decision
    BY <1>2 DEF GatewayInv, TypeOK, Risk!TypeOK, Risk!Case
  <1>4. CASE Wake!GotoMove(r, "refused", Wake!Say(5))
    <2>1. NotCharged(r) /\ (Marked(r) => Marked(r)')
      BY <1>1 DEF GatewayInv, PaymentInv, ChargeOf, PaymentIds, NotCharged, Marked, ledger
    <2>2. QED
      BY <1>1, <1>2, <1>3, <1>4, <2>1, PlannedEvidence, SayIsResponse DEF ledger
  <1>5. CASE Wake!Goto(r, "evaluate")
    <2>1. OnlyRequest(r) /\ wake'[r].pc = "evaluate"
      BY <1>5, GotoEffect DEF GatewayInv, TypeOK, Wake!Pcs
    <2>2. QED
      BY <1>1, <1>2, <1>3, <2>1, QuietEvidence
  <1>6. QED
    BY <1>2, <1>4, <1>5

LEMMA EvaluateEvidence ==
    ASSUME GatewayInv, EvidenceInv, NEW r \in Requests, Wake!EvaluateRisk(r),
           UNCHANGED ops
    PROVE  EvidenceInv'
  <1>1. wake[r].pc = "evaluate" /\ UNCHANGED <<ledger, zoop, hooks>>
    BY EvaluateDoes DEF providerVars
  <1>2. PICK v \in Risk!Verdicts :
            /\ koin' = [koin EXCEPT ![r].eval = v] \/ koin' = koin
            /\ UNCHANGED callbacks
            /\ Wake!GotoMove(r, Wake!StatusAfter(v), SayAfter(v))
    BY EvaluateDoes
  <1>3. \A q \in PaymentIds : koin'[q].decision = koin[q].decision
    BY <1>2 DEF GatewayInv, TypeOK, Risk!TypeOK, Risk!Case
  <1>4. /\ SayAfter(v) \in Wake!Response \cup {NoResponse}
        /\ Wake!StatusAfter(v) \in {"refused", "under_review", "approved_risk"}
    BY SayIsResponse DEF SayAfter, Wake!StatusAfter, Risk!Verdicts
  <1>5. NotCharged(r) /\ (Marked(r) => Marked(r)')
    BY <1>1 DEF GatewayInv, PaymentInv, ChargeOf, PaymentIds, NotCharged, Marked, ledger
  <1>6. QED
    BY <1>1, <1>2, <1>3, <1>4, <1>5, PlannedEvidence DEF ledger

LEMMA MoveEvidence ==
    ASSUME GatewayInv, EvidenceInv, NEW r \in Requests, Wake!Move(r), UNCHANGED ops
    PROVE  EvidenceInv'
  <1> DEFINE to == wake[r].to
  <1>1. /\ Wake!TypeOK /\ Ledger!TypeOK /\ wake[r].pc = "move" /\ EvidenceOf(r)
        /\ UNCHANGED <<zoop, hooks, koinVars>> /\ r \in PaymentIds
    BY MoveDoes DEF GatewayInv, TypeOK, EvidenceInv, providerVars, PaymentIds
  <1>2. CASE Wake!Goto(r, "failed") /\ UNCHANGED ledger
    <2>1. OnlyRequest(r) /\ wake'[r].pc = "failed"
      BY <1>1, <1>2, GotoEffect DEF Wake!Pcs
    <2>2. QED
      BY <1>1, <1>2, <2>1, QuietEvidence
  <1>3. ASSUME Moved(r, to), UNCHANGED charges, NEW pc \in {"charge", "notify", "save"},
               Wake!Goto(r, pc), pc = "charge" <=> to = "approved_risk"
        PROVE  EvidenceInv'
    <2>1. OnlyRequest(r) /\ wake'[r].pc = pc
      BY <1>1, <1>3, GotoEffect DEF Wake!Pcs
    <2>2. payments'[r].status = to /\ r \in DOMAIN payments'
      BY <1>1, <1>3, LedgerTypes DEF Moved, Ledger!PaymentRow
    <2>3. Backed(r, payments[r].status)'
      BY <1>1, <2>2 DEF EvidenceOf, Backed, Collected
    <2>4. Refusing(r)' => Refusing(r)
      BY <1>1, <2>1, <2>2 DEF Refusing
    <2>5. /\ Marked(r)' <=> Marked(r)
          /\ NotCharged(r)' <=> NotCharged(r)
      BY <1>1, <1>3 DEF Marked, NotCharged
    <2>6. EvidenceOf(r)'
      BY <1>1, <1>3, <2>1, <2>2, <2>3, <2>4, <2>5 DEF EvidenceOf
    <2>7. QED
      BY <1>1, <1>3, <2>1, <2>6, EvidenceRequest DEF Moved
  <1>4. /\ Wake!AfterMove(r) \in {"charge", "notify", "save"}
        /\ Wake!AfterMove(r) = "charge" <=> to = "approved_risk"
    BY DEF Wake!AfterMove
  <1>5. ASSUME NEW s, Ledger!Transition(r, s, to)
        PROVE  Moved(r, to) /\ UNCHANGED charges
    BY <1>1, <1>5, TransitionMoves DEF Ledger!Transition
  <1>6. QED
    BY <1>2, <1>3, <1>4, <1>5, MoveDoes

LEMMA ChargeEvidence ==
    ASSUME GatewayInv, EvidenceInv, NEW r \in Requests, Wake!Charge(r), UNCHANGED ops
    PROVE  EvidenceInv'
  <1> DEFINE f == Wake!StoreOf(r) \in FakeStores
             m == Wake!MethodOf(r)
             c == m # "credit_card"
  <1>1. /\ Wake!TypeOK /\ wake[r].pc = "charge" /\ r \in PaymentIds
        /\ UNCHANGED <<ledger, koinVars>> /\ EvidenceOf(r) /\ zoop[r] = <<>>
        /\ m \in Provider!Methods /\ f \in BOOLEAN
    <2>1. wake[r].pc = "charge" /\ UNCHANGED <<ledger, koinVars>>
      BY ChargeDoes
    <2>2. /\ Wake!TypeOK /\ r \in PaymentIds /\ EvidenceOf(r) /\ ChargeOf(r)
      BY DEF GatewayInv, TypeOK, EvidenceInv, PaymentIds, PaymentInv
    <2>3. m \in Provider!Methods
      BY <2>2, RequestTypes
    <2>4. f \in BOOLEAN
      BY DEF f
    <2>5. QED
      BY <2>1, <2>2, <2>3, <2>4 DEF ChargeOf
  <1>2. payments[r].status = "approved_risk"
    BY <1>1 DEF EvidenceOf
  <1>3. ASSUME OnlyRequest(r),
               \/ UNCHANGED <<zoop, hooks>>
               \/ /\ ZoopKeeps /\ NewHooksAreTrue
                  /\ \A q \in PaymentIds \ {r} : zoop'[q] = zoop[q],
               \/ wake'[r].pc = "recordFailure"
               \/ /\ wake'[r].pc = "record"
                  /\ wake'[r].answer.status = "failed" => NotCharged(r)'
        PROVE  EvidenceInv'
    <2>1. Backed(r, payments[r].status)' /\ ~Refusing(r)'
      BY <1>1, <1>2, <1>3 DEF Backed, Collected, Refusing, ledger
    <2>2. EvidenceOf(r)'
      BY <1>3, <2>1 DEF EvidenceOf
    <2>3. QED
      BY <1>1, <1>3, <2>2, EvidenceRequest DEF ledger
  <1> HIDE DEF f, m, c
  <1>4. ASSUME NEW o, Provider!Charge(f, r, m, c, o)
        PROVE  /\ ZoopKeeps /\ NewHooksAreTrue
               /\ \A q \in PaymentIds \ {r} : zoop'[q] = zoop[q]
               /\ Provider!ResultOf(f, r, m, o).status = "failed" => NotCharged(r)'
    BY <1>1, <1>4, ChargeKeeps
  <1>5. CASE Wake!Goto(r, "recordFailure")
    <2>1. OnlyRequest(r) /\ wake'[r].pc = "recordFailure"
      BY <1>1, <1>5, GotoEffect DEF Wake!Pcs
    <2>2. \/ UNCHANGED <<zoop, hooks>>
          \/ \E o : Provider!Charge(f, r, m, c, o)
      BY ChargeDoes DEF f, m, c, providerVars
    <2>3. QED
      BY <1>3, <1>4, <2>1, <2>2
  <1>6. ASSUME NEW o, Provider!Charge(f, r, m, c, o),
               wake' = [wake EXCEPT ![r].pc = "record",
                                    ![r].answer = Provider!ResultOf(f, r, m, o)]
        PROVE  EvidenceInv'
    <2> DEFINE x == Provider!ResultOf(f, r, m, o)
    <2> HIDE DEF x
    <2>1. OnlyRequest(r) /\ wake'[r].pc = "record" /\ wake'[r].answer = x
      BY <1>1, <1>6 DEF OnlyRequest, Wake!TypeOK, Wake!RequestState, x
    <2>2. QED
      BY <1>3, <1>4, <1>6, <2>1 DEF x
  <1>7. QED
    BY <1>5, <1>6, ChargeDoes DEF f, m, c

\* The answer is recorded: a charge that failed is of a payment without a charge.
LEMMA RecordChargeEvidence ==
    ASSUME GatewayInv, EvidenceInv, NEW r \in Requests, Wake!RecordCharge(r),
           UNCHANGED ops
    PROVE  EvidenceInv'
  <1> DEFINE x == wake[r].answer
             row == [providerId |-> x.id, status |-> x.status]
  <1>1. /\ wake[r].pc = "record" /\ UNCHANGED <<keys, providerVars, koinVars>>
        /\ Ledger!SaveProviderCharge(r, row)
        /\ \/ x.status = "failed" /\ Wake!GotoMove(r, "refused", Wake!Say(2))
           \/ Wake!Goto(r, "instrument")
           \/ Wake!GotoMove(r, "authorized", Wake!Say(1))
    BY RecordChargeDoes
  <1>2. /\ Wake!TypeOK /\ Ledger!TypeOK /\ r \in PaymentIds /\ EvidenceOf(r)
        /\ charges[r] = <<>>
    BY <1>1 DEF GatewayInv, TypeOK, EvidenceInv, PaymentInv, ChargeOf, PaymentIds
  <1>3. row \in Ledger!ChargeRow
    BY <1>2, AnswerIsRow
  <1> HIDE DEF row
  <1>4. /\ UNCHANGED payments /\ charges'[r] = Append(<<>>, row)
        /\ \A q \in PaymentIds \ {r} : charges'[q] = charges[q]
    BY <1>1, <1>2, <1>3, SaveChargeEffect
  <1>5. charges'[r] # <<>> /\ ~Marked(r) /\ UNCHANGED <<zoop, hooks>>
    BY <1>1, <1>2, <1>4 DEF Marked, providerVars
  <1>6. CASE x.status = "failed" /\ Wake!GotoMove(r, "refused", Wake!Say(2))
    <2>1. NotCharged(r)
      BY <1>1, <1>2, <1>6 DEF EvidenceOf
    <2>2. QED
      BY <1>1, <1>4, <1>5, <1>6, <2>1, SayIsResponse, PlannedEvidence
  <1>7. CASE Wake!GotoMove(r, "authorized", Wake!Say(1))
    BY <1>1, <1>4, <1>5, <1>7, SayIsResponse, PlannedEvidence
  <1>8. CASE Wake!Goto(r, "instrument")
    <2>1. OnlyRequest(r) /\ wake'[r].pc = "instrument"
      BY <1>2, <1>8, GotoEffect DEF Wake!Pcs
    <2>2. /\ Real(r)' <=> Real(r)
          /\ NotCharged(r)' <=> NotCharged(r)
          /\ Backed(r, payments[r].status)' <=> Backed(r, payments[r].status)
      BY <1>4, <1>5, <2>1 DEF Real, Wake!StoreOf, OnlyRequest, NotCharged, Backed
    <2>3. Refusing(r)' => NotCharged(r)
      BY <1>2, <1>4, <1>5, <2>1 DEF Refusing, EvidenceOf
    <2>4. EvidenceOf(r)'
      BY <1>2, <1>4, <2>1, <2>2, <2>3 DEF EvidenceOf
    <2>5. QED
      BY <1>1, <1>4, <1>5, <2>1, <2>4, EvidenceRequest
  <1>9. QED
    BY <1>1, <1>6, <1>7, <1>8

\* The charge that threw is marked before the refusal.
LEMMA RecordFailureEvidence ==
    ASSUME GatewayInv, EvidenceInv, NEW r \in Requests, Wake!RecordFailure(r),
           UNCHANGED ops
    PROVE  EvidenceInv'
  <1> DEFINE row == [providerId |-> NoProviderId, status |-> "failed"]
  <1>1. /\ wake[r].pc = "recordFailure" /\ UNCHANGED <<keys, providerVars, koinVars>>
        /\ Ledger!SaveProviderCharge(r, row)
        /\ Wake!GotoMove(r, "refused", Wake!Say(2))
    BY RecordFailureDoes
  <1>2. Ledger!TypeOK /\ r \in PaymentIds /\ charges[r] = <<>>
    BY <1>1 DEF GatewayInv, TypeOK, PaymentInv, ChargeOf, PaymentIds
  <1>3. row \in Ledger!ChargeRow /\ row.providerId = NoProviderId
    BY DEF Ledger!ChargeRow, Ledger!ChargeStatuses
  <1> HIDE DEF row
  <1>4. /\ UNCHANGED payments /\ charges'[r] = Append(<<>>, row)
        /\ \A q \in PaymentIds \ {r} : charges'[q] = charges[q]
    BY <1>1, <1>2, <1>3, SaveChargeEffect
  <1>5. Append(<<>>, row) # <<>> /\ Append(<<>>, row)[1] = row
    OBVIOUS
  <1>6. Marked(r)' /\ charges'[r] # <<>> /\ UNCHANGED <<zoop, hooks>>
    BY <1>1, <1>3, <1>4, <1>5 DEF Marked, providerVars
  <1>7. QED
    BY <1>1, <1>4, <1>6, SayIsResponse, PlannedEvidence

LEMMA SaveInstrumentEvidence ==
    ASSUME GatewayInv, EvidenceInv, NEW r \in Requests, Wake!SaveInstrument(r),
           UNCHANGED ops
    PROVE  EvidenceInv'
  <1> DEFINE m == Wake!MethodOf(r)
             resp == [statusId |-> 7, instrument |-> m]
  <1>1. /\ wake[r].pc = "instrument" /\ UNCHANGED <<keys, providerVars, koinVars>>
        /\ Ledger!UpdateInstrument(r, Wake!StoreOf(r), m)
        /\ Wake!GotoMove(r, "waiting_payment", resp)
    BY SaveInstrumentDoes
  <1>2. /\ Wake!TypeOK /\ Ledger!TypeOK /\ r \in PaymentIds /\ EvidenceOf(r)
        /\ m \in {"pix", "boleto"}
    BY <1>1, RequestTypes
       DEF GatewayInv, TypeOK, EvidenceInv, PaymentInv, ChargeOf, PaymentIds,
           Provider!Methods
  <1>3. resp \in Wake!Response
    BY <1>2 DEF Wake!Response
  <1> HIDE DEF resp
  <1>4. OnlyRequest(r) /\ wake'[r].pc = "move" /\ wake'[r].to = "waiting_payment"
    BY <1>1, <1>2, <1>3, GotoMoveEffect DEF Statuses
  <1>5. /\ DOMAIN payments' = DOMAIN payments /\ r \in DOMAIN payments
        /\ payments'[r].status = payments[r].status
        /\ \A q \in DOMAIN payments \ {r} : payments'[q] = payments[q]
        /\ UNCHANGED <<charges, zoop, hooks>>
    <2>1. r \in DOMAIN payments /\ payments[r] \in Ledger!PaymentRow
      BY <1>1, <1>2, LedgerTypes DEF Ledger!UpdateInstrument, Ledger!InScope, Ledger!Exists
    <2>2. QED
      BY <1>1, <1>2, <2>1 DEF Ledger!UpdateInstrument, Ledger!PaymentRow, providerVars
  <1>6. /\ Real(r)' <=> Real(r)
        /\ Marked(r)' <=> Marked(r)
        /\ NotCharged(r)' <=> NotCharged(r)
        /\ Backed(r, payments[r].status)' <=> Backed(r, payments[r].status)
    BY <1>4, <1>5 DEF Real, Wake!StoreOf, OnlyRequest, Marked, NotCharged, Backed
  <1>7. Refusing(r)' => Refusing(r)
    BY <1>4, <1>5 DEF Refusing
  <1>8. EvidenceOf(r)'
    BY <1>2, <1>4, <1>5, <1>6, <1>7 DEF EvidenceOf
  <1>9. QED
    BY <1>1, <1>4, <1>5, <1>8, EvidenceRequest

\* The last steps of a request ask for nothing any more.
LEMMA EndEvidence ==
    ASSUME GatewayInv, EvidenceInv, NEW r \in Requests,
           Wake!NotifyRefusal(r) \/ Wake!SaveResponse(r) \/ Wake!Die(r), UNCHANGED ops
    PROVE  EvidenceInv'
  <1>1. \E pc \in {"save", "done", "failed"} : Wake!Goto(r, pc)
    BY NotifyRefusalDoes, SaveResponseDoes, DieDoes
  <1>2. OnlyRequest(r) /\ wake'[r].pc \in {"save", "done", "failed"}
    BY <1>1, GotoEffect DEF GatewayInv, TypeOK, Wake!Pcs
  <1>3. UNCHANGED <<ledger, zoop, hooks, koin, callbacks>>
    BY NotifyRefusalDoes, SaveResponseDoes, DieDoes DEF providerVars, koinVars
  <1>4. QED
    BY <1>2, <1>3, QuietEvidence

LEMMA RequestEvidence ==
    ASSUME GatewayInv, EvidenceInv, NEW r \in Requests, Wake!Step(r) \/ Wake!Die(r),
           UNCHANGED ops
    PROVE  EvidenceInv'
  BY BeforePaymentEvidence, CreatePaymentEvidence, PreEvaluateEvidence, EvaluateEvidence,
     MoveEvidence, ChargeEvidence, RecordChargeEvidence, RecordFailureEvidence,
     SaveInstrumentEvidence, EndEvidence
     DEF Wake!Step

\* An operation's own step, with the ledger at rest.
LEMMA OperationEvidence ==
    ASSUME GatewayInv, EvidenceInv, NEW o \in Ops, NEW w, ops' = [ops EXCEPT ![o] = w],
           UNCHANGED <<wake, payments, charges, koin, callbacks>>,
           ZoopKeeps, NewHooksAreTrue,
           \A q \in PaymentIds : zoop[q] = <<>> => zoop'[q] = <<>>,
           w.pc # "idle",
           w.pc = "zoop" => charges[w.p] # <<>>,
           w.pc = "move" =>
               /\ w.to = Shop!TargetOf(w.action)
               /\ w.to # "chargeback" =>
                      charges[w.p] # <<>> /\ (Real(w.p) => Backed(w.p, w.to)')
    PROVE  EvidenceInv'
  <1>1. ops'[o] = w /\ \A q \in Ops : q # o => ops'[q] = ops[q]
    BY DEF GatewayInv, TypeOK, Shop!TypeOK
  <1>2. Shop!TargetOf(ops[o].action)' = Shop!TargetOf(w.action)
    BY <1>1 DEF Shop!TargetOf
  <1>3. /\ Real(ops[o].p)' <=> Real(w.p)
        /\ Backed(ops[o].p, ops[o].to)' <=> Backed(w.p, w.to)'
    BY <1>1 DEF Real, Wake!StoreOf, Backed
  <1>4. CallOf(o)'
    BY <1>1, <1>2, <1>3 DEF CallOf
  <1>5. \A q \in Ops : ops'[q] = ops[q] \/ CallOf(q)'
    BY <1>1, <1>4
  <1>6. \A c \in callbacks' : c \in callbacks /\ koin'[c.ref].decision = koin[c.ref].decision
    OBVIOUS
  <1>7. QED
    BY <1>5, <1>6, LedgerRests

LEMMA LoadEvidence ==
    ASSUME GatewayInv, EvidenceInv, NEW o \in Ops, NEW p, UNCHANGED wake,
           Shop!Load(o, p) \/ Shop!Chargeback(o, p)
    PROVE  EvidenceInv'
  <1>1. /\ Shop!TypeOK /\ ops[o] \in Shop!OpState
    BY OperationTypes DEF GatewayInv, TypeOK
  <1>2. ops[o].pc = "idle" /\ ops[o].action = "none"
    BY LoadDoes, ChargebackDoes DEF EvidenceInv, CallOf
  <1>3. /\ UNCHANGED <<payments, charges, koin, callbacks>>
        /\ ZoopKeeps /\ NewHooksAreTrue /\ UNCHANGED zoop
    BY LoadDoes, ChargebackDoes, ZoopUnmoved DEF ledger, providerVars, koinVars
  <1>4. CASE Shop!Load(o, p)
    <2> DEFINE i == Shop!LastCharge(p).providerId
               a == Shop!ActionFor(o, p)
               w == [ops[o] EXCEPT !.pc = "zoop", !.p = p, !.id = i, !.action = a]
               failed == [ops[o] EXCEPT !.pc = "failed", !.p = p]
    <2>1. \/ Shop!HasCharge(p) /\ ops' = [ops EXCEPT ![o] = w]
          \/ ops' = [ops EXCEPT ![o] = failed]
      <3>1. \/ /\ Shop!HasCharge(p)
               /\ ops' = [ops EXCEPT ![o].pc = "zoop", ![o].p = p, ![o].id = i,
                                     ![o].action = a]
            \/ ops' = [ops EXCEPT ![o].pc = "failed", ![o].p = p]
        BY <1>4, LoadDoes
      <3>2. QED
        BY <1>1, <3>1 DEF Shop!TypeOK
    <2> HIDE DEF i, a
    <2>2. w.pc = "zoop" /\ w.p = p /\ failed.pc = "failed"
      BY <1>1 DEF Shop!OpState
    <2> HIDE DEF w, failed
    <2>3. Shop!HasCharge(p) => charges[p] # <<>>
      BY DEF Shop!HasCharge
    <2>4. QED
      BY <1>3, <2>1, <2>2, <2>3, OperationEvidence
  <1>5. CASE Shop!Chargeback(o, p)
    <2> DEFINE w == [ops[o] EXCEPT !.pc = "move", !.p = p, !.to = "chargeback"]
    <2>1. ops' = [ops EXCEPT ![o] = w]
      <3>1. ops' = [ops EXCEPT ![o].pc = "move", ![o].p = p, ![o].to = "chargeback"]
        BY <1>5, ChargebackDoes
      <3>2. QED
        BY <1>1, <3>1 DEF Shop!TypeOK
    <2>2. w.pc = "move" /\ w.to = "chargeback" /\ w.action = "none"
      BY <1>1, <1>2 DEF Shop!OpState
    <2> HIDE DEF w
    <2>3. Shop!TargetOf("none") = "chargeback"
      BY DEF Shop!TargetOf
    <2>4. QED
      BY <1>3, <2>1, <2>2, <2>3, OperationEvidence
  <1>6. QED
    BY <1>4, <1>5

\* What Zoop executed bears out the transition the operation goes on to ask for.
LEMMA CallZoopEvidence ==
    ASSUME GatewayInv, EvidenceInv, NEW o \in Ops, Shop!CallZoop(o), UNCHANGED wake
    PROVE  EvidenceInv'
  <1> DEFINE failed == [ops[o] EXCEPT !.pc = "failed"]
  <1>1. /\ Shop!TypeOK /\ ops[o] \in Shop!OpState /\ Provider!BothTypeOK
    BY OperationTypes DEF GatewayInv, TypeOK
  <1>2. PICK f, a, p, full :
            /\ f \in BOOLEAN /\ a \in {"capture", "void", "refund"} /\ p \in PaymentIds
            /\ f <=> Wake!StoreOf(p) \in FakeStores
            /\ ~f => zoop[p] # <<>>
            /\ p = ops[o].p /\ a = ops[o].action
            /\ \/ /\ Provider!Accepts(f, a, <<p, 1>>, full)
                  /\ Provider!Execute(f, a, <<p, 1>>, full)
                  /\ ops' = [ops EXCEPT ![o] = [ops[o] EXCEPT !.pc = "move",
                                 !.executed = a, !.to = Shop!TargetOf(a)]]
               \/ ops' = [ops EXCEPT ![o] = failed] /\ UNCHANGED providerVars
    <2>1. PICK f, a, p, full :
              /\ f \in BOOLEAN /\ f = (Shop!StoreOf(o) \in FakeStores) /\ a = ops[o].action
              /\ p = ops[o].p /\ full = Shop!Full(o)
      <3>1. (Shop!StoreOf(o) \in FakeStores) \in BOOLEAN
        OBVIOUS
      <3>2. QED
        BY <3>1, Zenon
    <2>2. /\ f <=> Wake!StoreOf(p) \in FakeStores
          /\ ~f => zoop[p] # <<>>
          /\ p \in PaymentIds /\ a \in {"capture", "void", "refund"}
      BY <2>1, CallZoopDoes
    <2>3. \/ /\ Provider!Accepts(f, a, <<p, 1>>, full)
             /\ Provider!Execute(f, a, <<p, 1>>, full)
             /\ ops' = [ops EXCEPT ![o] = [ops[o] EXCEPT !.pc = "move",
                            !.executed = a, !.to = Shop!TargetOf(a)]]
          \/ ops' = [ops EXCEPT ![o] = failed] /\ UNCHANGED providerVars
      BY <2>1, CallZoopDoes
    <2> HIDE DEF failed
    <2>4. QED
      BY <2>1, <2>2, <2>3
  <1>3. ops[o].pc = "zoop" /\ UNCHANGED <<ledger, koinVars>>
    BY CallZoopDoes
  <1>4. charges[p] # <<>>
    BY <1>2, <1>3 DEF EvidenceInv, CallOf
  <1>5. PICK to, w : /\ to = Shop!TargetOf(a)
                     /\ w = [ops[o] EXCEPT !.pc = "move", !.executed = a, !.to = to]
    OBVIOUS
  <1>6. /\ w.pc = "move" /\ w.p = p /\ w.action = a /\ w.to = to /\ failed.pc = "failed"
    BY <1>1, <1>2, <1>5 DEF Shop!OpState
  <1> HIDE DEF failed
  <1>7. CASE ops' = [ops EXCEPT ![o] = failed] /\ UNCHANGED providerVars
    <2>1. ZoopKeeps /\ NewHooksAreTrue /\ UNCHANGED zoop
      BY <1>7, ZoopUnmoved DEF providerVars
    <2>2. QED
      BY <1>3, <1>6, <1>7, <2>1, OperationEvidence DEF ledger, koinVars
  <1>8. CASE /\ Provider!Accepts(f, a, <<p, 1>>, full)
             /\ Provider!Execute(f, a, <<p, 1>>, full)
             /\ ops' = [ops EXCEPT ![o] = w]
    <2>1. ZoopKeeps /\ NewHooksAreTrue /\ (~f => Backed(p, Shop!TargetOf(a))')
      BY <1>2, <1>8, ExecuteKeeps
    <2>2. SameCharges
      BY <1>1, <1>2, <1>8, ExecuteEffect
    <2>3. Real(p) => Backed(p, to)'
      <3>1. Shop!TargetOf(a)' = to
        BY <1>5 DEF Shop!TargetOf
      <3>2. QED
        BY <1>2, <2>1, <3>1 DEF Real, Backed
    <2>4. QED
      BY <1>3, <1>4, <1>5, <1>6, <1>8, <2>1, <2>2, <2>3, OperationEvidence
         DEF ledger, koinVars, SameCharges
  <1>9. QED
    BY <1>2, <1>5, <1>7, <1>8

\* The ledger follows the operation: Zoop did what it says, or a bank contests money
\* that was collected.
LEMMA OperationMoveEvidence ==
    ASSUME GatewayInv, EvidenceInv, NEW o \in Ops, Shop!Move(o), UNCHANGED wake
    PROVE  EvidenceInv'
  <1> DEFINE moved == [ops[o] EXCEPT !.pc = "notify", !.todo = Shop!NoticesOf(ops[o].action)]
             failed == [ops[o] EXCEPT !.pc = "failed"]
  <1>1. /\ Shop!TypeOK /\ ops[o] \in Shop!OpState /\ Ledger!TypeOK
    BY OperationTypes DEF GatewayInv, TypeOK
  <1>2. ops[o].pc = "move" /\ UNCHANGED <<providerVars, koinVars>>
    BY OperationMoveDoes
  <1>3. PICK p, to : p = ops[o].p /\ to = ops[o].to
    OBVIOUS
  <1>4. \/ /\ Ledger!Transition(p, Shop!StoreOf(o), to)
           /\ ops' = [ops EXCEPT ![o] = moved]
        \/ ops' = [ops EXCEPT ![o] = failed] /\ UNCHANGED ledger
    <2>1. \/ /\ Ledger!Transition(p, Shop!StoreOf(o), to)
             /\ ops' = [ops EXCEPT ![o].pc = "notify",
                                   ![o].todo = Shop!NoticesOf(ops[o].action)]
          \/ ops' = [ops EXCEPT ![o].pc = "failed"] /\ UNCHANGED ledger
      BY <1>3, OperationMoveDoes
    <2>2. QED
      BY <1>1, <2>1 DEF Shop!TypeOK
  <1>5. moved.pc = "notify" /\ failed.pc = "failed"
    BY <1>1 DEF Shop!OpState
  <1>6. /\ to = Shop!TargetOf(ops[o].action)
        /\ to # "chargeback" => charges[p] # <<>> /\ (Real(p) => Backed(p, to))
    BY <1>2, <1>3 DEF EvidenceInv, CallOf
  <1> HIDE DEF moved, failed
  <1>7. CASE ops' = [ops EXCEPT ![o] = failed] /\ UNCHANGED ledger
    <2>1. ZoopKeeps /\ NewHooksAreTrue /\ UNCHANGED zoop
      BY <1>2, ZoopUnmoved DEF providerVars
    <2>2. QED
      BY <1>2, <1>5, <1>7, <2>1, OperationEvidence DEF ledger, koinVars
  <1>8. CASE /\ Ledger!Transition(p, Shop!StoreOf(o), to)
             /\ ops' = [ops EXCEPT ![o] = moved]
    <2>1. Moved(p, to) /\ UNCHANGED charges
      BY <1>1, <1>8, TransitionMoves DEF Ledger!Transition
    <2>2. /\ p \in PaymentIds /\ p \in DOMAIN payments /\ payments[p].status \in Statuses
          /\ to \in AllowedTransitions[payments[p].status]
          /\ EvidenceOf(p) /\ ChargeOf(p)
      BY <1>1, <2>1, LedgerTypes DEF Moved, EvidenceInv, GatewayInv, PaymentInv
    <2>3. to = "chargeback" => payments[p].status \in {"captured", "settled"}
      BY <2>2 DEF AllowedTransitions, Statuses
    <2>4. Real(p) => Backed(p, to)
      <3>1. CASE to # "chargeback"
        BY <1>6, <3>1
      <3>2. CASE to = "chargeback"
        BY <2>2, <2>3, <3>2 DEF EvidenceOf, Backed, BackedBy, Collected
      <3>3. QED
        BY <3>1, <3>2
    <2>5. to # "refused"
      BY <1>6 DEF Shop!TargetOf
    <2>6. wake[p].pc # "charge"
      BY <1>6, <2>2, <2>3 DEF EvidenceOf, ChargeOf
    <2>7. \A q \in Ops : ops'[q] = ops[q] \/ CallOf(q)'
      BY <1>1, <1>5, <1>8 DEF Shop!TypeOK, CallOf
    <2>8. QED
      BY <1>2, <2>1, <2>4, <2>5, <2>6, <2>7, MovedTruly DEF providerVars, koinVars
  <1>9. QED
    BY <1>4, <1>7, <1>8

LEMMA OperationEndEvidence ==
    ASSUME GatewayInv, EvidenceInv, NEW o \in Ops, UNCHANGED wake,
           Shop!NotifyOutcome(o) \/ Shop!Die(o)
    PROVE  EvidenceInv'
  <1> DEFINE told == [ops[o] EXCEPT !.todo = Tail(ops[o].todo)]
             ended == [ops[o] EXCEPT !.pc = "done"]
             failed == [ops[o] EXCEPT !.pc = "failed"]
  <1>1. /\ Shop!TypeOK /\ ops[o] \in Shop!OpState
    BY OperationTypes DEF GatewayInv, TypeOK
  <1>2. UNCHANGED <<ledger, providerVars, koin, callbacks>>
    BY NotifyOutcomeDoes, OperationDieDoes DEF koinVars
  <1>3. \/ ops[o].pc = "notify" /\ ops' = [ops EXCEPT ![o] = told]
        \/ ops' = [ops EXCEPT ![o] = ended]
        \/ ops' = [ops EXCEPT ![o] = failed]
    <2>1. \/ ops[o].pc = "notify" /\ ops' = [ops EXCEPT ![o].todo = Tail(@)]
          \/ ops' = [ops EXCEPT ![o].pc = "done"]
          \/ ops' = [ops EXCEPT ![o].pc = "failed"]
      BY NotifyOutcomeDoes, OperationDieDoes
    <2>2. QED
      BY <1>1, <2>1 DEF Shop!TypeOK
  <1>4. /\ ops[o].pc = "notify" => told.pc = "notify"
        /\ ended.pc = "done" /\ failed.pc = "failed"
    BY <1>1 DEF Shop!OpState
  <1> HIDE DEF told, ended, failed
  <1>5. PICK w : w.pc \in {"notify", "done", "failed"} /\ ops' = [ops EXCEPT ![o] = w]
    BY <1>3, <1>4
  <1>6. ZoopKeeps /\ NewHooksAreTrue /\ UNCHANGED zoop
    BY <1>2, ZoopUnmoved DEF providerVars
  <1>7. QED
    BY <1>2, <1>5, <1>6, OperationEvidence DEF ledger

LEMMA ShopEvidence ==
    ASSUME GatewayInv, EvidenceInv, Shop!Next(Told), UNCHANGED wake
    PROVE  EvidenceInv'
  BY LoadEvidence, CallZoopEvidence, OperationMoveEvidence, OperationEndEvidence
     DEF Shop!Next

\* A webhook of Zoop is true however late it comes, so the ledger may follow it.
LEMMA DeliverZoopEvidence ==
    ASSUME GatewayInv, EvidenceInv, NEW m, Hooks!DeliverZoop(m), UNCHANGED <<wake, ops>>
    PROVE  EvidenceInv'
  <1>1. m \in hooks /\ UNCHANGED <<zoop, hooks, koinVars>>
    BY DeliverZoopDoes
  <1>2. ZoopKeeps /\ NewHooksAreTrue
    BY <1>1, ZoopUnmoved
  <1>3. CASE UNCHANGED ledger
    BY <1>1, <1>2, <1>3, LedgerRests DEF ledger, koinVars
  <1>4. CASE Ledger!Transition(m.ref, AnyStore, Hooks!ZoopStatus(m.type))
    <2>1. PICK p, to : p = m.ref /\ to = Hooks!ZoopStatus(m.type)
      OBVIOUS
    <2>2. Moved(p, to) /\ UNCHANGED charges
      BY <1>4, <2>1, TransitionMoves DEF GatewayInv, TypeOK, Ledger!Transition
    <2>3. /\ m \in Provider!Hook /\ HookOf(m) /\ p \in PaymentIds /\ ChargeOf(p)
      BY <1>1, <2>2 DEF GatewayInv, TypeOK, Provider!BothTypeOK, Provider!TypeOK,
                        EvidenceInv, Moved, PaymentInv
    <2>4. /\ zoop[p] # <<>> /\ BackedBy(zoop[p][1], to)
          /\ m.type = "transaction.failed" => zoop[p][1].status = "failed"
      BY <2>1, <2>3 DEF HookOf
    <2>5. to = "refused" => m.type = "transaction.failed"
      BY <2>1, <2>3 DEF Provider!Hook, Provider!HookTypes, Hooks!ZoopStatus
    <2>6. (to = "refused" => NotCharged(p)) /\ Backed(p, to)
      BY <2>4, <2>5 DEF NotCharged, Backed
    <2>7. wake[p].pc # "charge"
      BY <2>3, <2>4 DEF ChargeOf
    <2>8. QED
      BY <1>1, <2>2, <2>6, <2>7, MovedTruly DEF koinVars
  <1>5. QED
    BY <1>3, <1>4, DeliverZoopDoes

\* What Koin decided after a review is of a payment nobody charges.
LEMMA DeliverKoinEvidence ==
    ASSUME GatewayInv, EvidenceInv, NEW c, Hooks!DeliverKoin(c), UNCHANGED <<wake, ops>>
    PROVE  EvidenceInv'
  <1>1. c \in callbacks /\ UNCHANGED <<zoop, hooks, koinVars>>
    BY DeliverKoinDoes
  <1>2. ZoopKeeps /\ NewHooksAreTrue
    BY <1>1, ZoopUnmoved
  <1>3. CASE UNCHANGED ledger
    BY <1>1, <1>2, <1>3, LedgerRests DEF ledger, koinVars
  <1>4. CASE Ledger!Transition(c.ref, AnyStore, Hooks!KoinStatus(c.status))
    <2>1. PICK p, to : p = c.ref /\ to = Hooks!KoinStatus(c.status)
      OBVIOUS
    <2>2. Moved(p, to) /\ UNCHANGED charges
      BY <1>4, <2>1, TransitionMoves DEF GatewayInv, TypeOK, Ledger!Transition
    <2>3. p \in PaymentIds /\ koin[p].decision = c.status /\ FraudOf(p)
      BY <1>1, <2>1, <2>2 DEF EvidenceInv, Moved, GatewayInv, PaymentInv
    <2>4. c.status # "none"
      BY <1>1 DEF GatewayInv, TypeOK, Risk!TypeOK
    <2>5. ~Charging(p)
      BY <2>3, <2>4 DEF FraudOf, Cleared
    <2>6. zoop[p] = <<>> /\ wake[p].pc # "charge"
      BY <2>5 DEF Charging
    <2>7. Backed(p, to) /\ NotCharged(p)
      BY <2>1, <2>6 DEF Backed, NotCharged, Hooks!KoinStatus, Collected
    <2>8. QED
      BY <1>1, <2>2, <2>6, <2>7, MovedTruly DEF koinVars
  <1>5. QED
    BY <1>3, <1>4, DeliverKoinDoes

LEMMA HooksEvidence ==
    ASSUME GatewayInv, EvidenceInv, Hooks!Next, UNCHANGED <<wake, ops>>
    PROVE  EvidenceInv'
  <1>1. ASSUME UNCHANGED <<ledger, zoop, hooks, koin, callbacks>> PROVE EvidenceInv'
    <2>1. ZoopKeeps /\ NewHooksAreTrue
      BY <1>1, ZoopUnmoved
    <2>2. QED
      BY <1>1, <2>1, LedgerRests DEF ledger
  <1>2. ASSUME NEW p, Hooks!NotifyDenial(p) PROVE EvidenceInv'
    BY <1>1, <1>2, NotifyDenialDoes
  <1>3. ASSUME NEW m, Hooks!Swallow(m) PROVE EvidenceInv'
    BY <1>1, <1>3, SwallowDoes DEF koinVars
  <1>4. QED
    BY <1>2, <1>3, DeliverZoopEvidence, DeliverKoinEvidence DEF Hooks!Next

LEMMA OutsideWorldEvidence ==
    ASSUME GatewayInv, EvidenceInv,
           \/ \E id \in Provider!Txns : ZoopMoves(id)
           \/ \E p \in PaymentIds : KoinMoves(p)
    PROVE  EvidenceInv'
  <1>1. ASSUME NEW id \in Provider!Txns, ZoopMoves(id) PROVE EvidenceInv'
    <2>1. ZoopKeeps /\ NewHooksAreTrue
      BY <1>1, ZoopMovesKeep
    <2>2. \A q \in PaymentIds : zoop[q] = <<>> => zoop'[q] = <<>>
      BY <1>1, ZoopEffect DEF GatewayInv, TypeOK, SameCharges
    <2>3. UNCHANGED <<wake, ops, payments, charges, koin, callbacks>>
      BY <1>1 DEF ZoopMoves, ledger, koinVars
    <2>4. QED
      BY <2>1, <2>2, <2>3, LedgerRests
  <1>2. ASSUME NEW p \in PaymentIds, KoinMoves(p) PROVE EvidenceInv'
    <2>1. PICK d \in {"approved", "denied"} :
              /\ koin[p].decision = "none"
              /\ koin' = [koin EXCEPT ![p].decision = d]
              /\ callbacks' = callbacks \cup {[ref |-> p, status |-> d]}
      BY <1>2 DEF KoinMoves, Risk!Decide
    <2>2. UNCHANGED <<wake, ops, payments, charges, zoop, hooks>>
      BY <1>2 DEF KoinMoves, ledger, providerVars
    <2>3. ZoopKeeps /\ NewHooksAreTrue
      BY <2>2, ZoopUnmoved
    <2>4. /\ koin \in [PaymentIds -> Risk!Case]
          /\ callbacks \subseteq [ref: PaymentIds, status: {"approved", "denied"}]
      BY DEF GatewayInv, TypeOK, Risk!TypeOK
    <2>5. koin'[p].decision = d /\ \A q \in PaymentIds \ {p} : koin'[q] = koin[q]
      BY <2>1, <2>4 DEF Risk!Case
    <2>6. \A c \in callbacks : c.ref # p
      BY <2>1, <2>4 DEF EvidenceInv
    <2>7. \A c \in callbacks' :
              \/ c \in callbacks /\ koin'[c.ref].decision = koin[c.ref].decision
              \/ koin'[c.ref].decision = c.status
      BY <2>1, <2>4, <2>5, <2>6
    <2>8. QED
      BY <2>2, <2>3, <2>7, LedgerRests
  <1>3. QED
    BY <1>1, <1>2

LEMMA EvidenceNext == GatewayInv /\ EvidenceInv /\ [Next]_vars => EvidenceInv'
  <1> SUFFICES ASSUME GatewayInv, EvidenceInv, [Next]_vars PROVE EvidenceInv'
    OBVIOUS
  <1>1. CASE UNCHANGED vars
    <2>1. ZoopKeeps /\ NewHooksAreTrue
      BY <1>1, ZoopUnmoved DEF vars
    <2>2. QED
      BY <1>1, <2>1, LedgerRests DEF vars
  <1>2. QED
    BY <1>1, RequestEvidence, ShopEvidence, HooksEvidence, OutsideWorldEvidence
       DEF Next, Wake!Next

LEMMA EvidenceInit == Init => EvidenceInv
  <1> SUFFICES ASSUME Init PROVE EvidenceInv
    OBVIOUS
  <1>1. hooks = {} /\ callbacks = {} /\ DOMAIN payments = {}
    BY DEF Init, Provider!BothInit, Provider!Init, Risk!Init, Ledger!Init
  <1>2. PICK w : Wake!Init(w.requests) /\ Shop!Init(w.ops)
    BY DEF Init
  <1>3. \A p \in PaymentIds : wake[p].pc \in {"find", "unsent"}
    BY <1>2 DEF Wake!Init, PaymentIds
  <1>4. \A o \in Ops : ops[o].pc \in {"idle", "unsent"} /\ ops[o].action = "none"
    BY <1>2 DEF Shop!Init
  <1>5. \A p \in PaymentIds : EvidenceOf(p)
    BY <1>1, <1>3 DEF EvidenceOf, Refusing
  <1>6. \A o \in Ops : CallOf(o)
    BY <1>4 DEF CallOf
  <1>7. QED
    BY <1>1, <1>5, <1>6 DEF EvidenceInv

\* Every status, and every webhook and answer on its way to one, has its evidence at
\* the provider.
THEOREM EvidenceInvariant == Spec => []EvidenceInv
  BY EvidenceInit, EvidenceNext, GatewayInvariant, PTL DEF Spec

\* The one transaction of a payment at Zoop.
LEMMA TheTransaction ==
    ASSUME GatewayInv, NEW p \in PaymentIds
    PROVE  /\ zoop[p] # <<>> => <<p, 1>> \in Provider!Txns
           /\ \A id \in Provider!Txns : id[1] = p => zoop[p] # <<>> /\ id = <<p, 1>>
           /\ Provider!TxnOf(<<p, 1>>) = zoop[p][1]
  <1>1. /\ zoop[p] \in Seq(Provider!Txn) /\ Len(zoop[p]) \in Nat /\ Len(zoop[p]) <= MaxTxns
        /\ Len(zoop[p]) <= 1 /\ MaxTxns \in Nat
    BY LedgerConstants DEF GatewayInv, TypeOK, Provider!BothTypeOK, Provider!TypeOK,
                           PaymentInv, ChargeOf
  <1>2. \A n, i \in Nat : 1 <= i /\ i <= n /\ n <= 1 => n = 1 /\ i = 1
    OBVIOUS
  <1>3. ASSUME zoop[p] # <<>> PROVE <<p, 1>> \in Provider!Txns
    <2>1. Len(zoop[p]) # 0
      BY <1>1, <1>3
    <2>2. \A n, m \in Nat : n # 0 /\ n <= m => 1 \in 1 .. m /\ 1 <= n
      OBVIOUS
    <2>3. 1 \in 1 .. MaxTxns /\ 1 <= Len(zoop[p])
      BY <1>1, <2>1, <2>2
    <2>4. QED
      BY <2>3 DEF Provider!Txns, Provider!TxnIds
  <1>4. ASSUME NEW id \in Provider!Txns, id[1] = p PROVE zoop[p] # <<>> /\ id = <<p, 1>>
    <2>1. PICK i \in 1 .. MaxTxns : id = <<p, i>>
      BY <1>4 DEF Provider!Txns, Provider!TxnIds
    <2>2. i \in Nat /\ 1 <= i /\ i <= Len(zoop[p])
      BY <1>1, <1>4, <2>1 DEF Provider!Txns
    <2>3. i = 1 /\ Len(zoop[p]) = 1
      BY <1>1, <1>2, <2>2
    <2>4. QED
      BY <1>1, <2>1, <2>3
  <1>5. Provider!TxnOf(<<p, 1>>) = zoop[p][1]
    BY DEF Provider!TxnOf
  <1>6. QED
    BY <1>3, <1>4, <1>5

\* The ledger says captured, settled, refunded or chargeback only of a payment with a
\* transaction at Zoop that succeeded or was charged back: settled moreover only if it
\* was paid out, refunded only if some of it was.  It says cancelled or expired only if
\* the transaction was reversed or expired.  So whatever the order in which handlers,
\* operations and late or repeated webhooks come.  A chargeback told by the shop is not
\* checked with Zoop: there the transaction may merely have succeeded.
THEOREM LedgerIsBorneOut == Spec => []LedgerNotAheadOfZoop
  <1>1. GatewayInv /\ EvidenceInv => LedgerNotAheadOfZoop
    <2> SUFFICES ASSUME GatewayInv, EvidenceInv,
                        NEW p \in DOMAIN payments, payments[p].store \notin FakeStores
                 PROVE  LET Is(s) == payments[p].status = s IN
                        /\ Is("captured") \/ Is("settled") \/ Is("refunded")
                                          \/ Is("chargeback") =>
                               AtZoop(p, LAMBDA t : t.status \in {"succeeded", "charged_back"})
                        /\ Is("settled")   => AtZoop(p, LAMBDA t : t.paidOut)
                        /\ Is("refunded")  => AtZoop(p, LAMBDA t : t.refunded > 0)
                        /\ Is("cancelled") => AtZoop(p, LAMBDA t : t.status = "reversed")
                        /\ Is("expired")   => AtZoop(p, LAMBDA t : t.status = "expired")
      BY DEF LedgerNotAheadOfZoop
    <2> DEFINE id == <<p, 1>>
               t == Provider!TxnOf(id)
               s == payments[p].status
    <2>1. p \in PaymentIds /\ Real(p)
      BY LedgerTypes DEF GatewayInv, TypeOK, PaymentInv, RowOf, Real
    <2>2. Backed(p, s)
      BY <2>1 DEF EvidenceInv, EvidenceOf
    <2>3. t = zoop[p][1] /\ id[1] = p
      BY <2>1, TheTransaction
    <2>4. s \in Collected \cup {"cancelled", "expired"} =>
              id \in Provider!Txns /\ BackedBy(t, s)
      BY <2>1, <2>2, <2>3, TheTransaction DEF Backed
    <2> HIDE DEF id, t
    <2>5. /\ s \in {"captured", "settled", "refunded", "chargeback"} =>
                 id \in Provider!Txns /\ t.status \in {"succeeded", "charged_back"}
          /\ s = "settled" => id \in Provider!Txns /\ t.paidOut
          /\ s = "refunded" => id \in Provider!Txns /\ t.refunded > 0
          /\ s = "cancelled" => id \in Provider!Txns /\ t.status = "reversed"
          /\ s = "expired" => id \in Provider!Txns /\ t.status = "expired"
      BY <2>4 DEF BackedBy, Collected
    <2> HIDE DEF s
    <2>6. QED
      BY <2>3, <2>5 DEF AtZoop, t, s
  <1>2. QED
    BY <1>1, GatewayInvariant, EvidenceInvariant, PTL

\* A refused payment that is still alive at Zoop, because the answer of createCharge was
\* lost, has the row without a transaction id that says so.
THEOREM LiveRefusalsAreMarked == Spec => []RefusedButAliveIsMarked
  <1>1. GatewayInv /\ EvidenceInv => RefusedButAliveIsMarked
    <2> SUFFICES ASSUME GatewayInv, EvidenceInv, NEW p \in DOMAIN payments,
                        payments[p].status = "refused",
                        NEW id \in Provider!Txns, id[1] = p,
                        Provider!TxnOf(id).status \in
                            {"pending", "pre_authorized", "succeeded"}
                 PROVE  \E i \in DOMAIN charges[p] : charges[p][i].providerId = NoProviderId
      BY DEF RefusedButAliveIsMarked, AtZoop
    <2>1. p \in PaymentIds
      BY LedgerTypes DEF GatewayInv, TypeOK
    <2>2. zoop[p] # <<>> /\ zoop[p][1].status # "failed"
      BY <2>1, TheTransaction
    <2>3. Marked(p)
      BY <2>1, <2>2 DEF EvidenceInv, EvidenceOf, Refusing, NotCharged
    <2>4. charges[p] \in Seq(Ledger!ChargeRow) /\ charges[p] # <<>>
      BY <2>1, <2>3 DEF GatewayInv, TypeOK, Ledger!TypeOK, Marked
    <2>5. 1 \in DOMAIN charges[p]
      BY <2>4
    <2>6. QED
      BY <2>3, <2>5 DEF Marked
  <1>2. QED
    BY <1>1, GatewayInvariant, EvidenceInvariant, PTL

------------------------------------------------------------------------------
(***************************************************************************)
(* Notices.                                                                *)
(***************************************************************************)

\* The history of a payment has what a notice of this kind needs.
Bears(history, kind) ==
    \E i \in 1 .. Len(history) : history[i].to \in NoticeNeeds(kind)

\* Every notice an operation, or a webhook of Koin, has still to send is true already.
CallNotices(o) ==
    ops[o].pc = "notify" =>
        \A i \in 1 .. Len(ops[o].todo) : Bears(events[ops[o].p], ops[o].todo[i])

DenialNotices(p) == \A i \in 1 .. Len(todo[p]) : Bears(events[p], todo[p][i])

NoticeInv ==
    /\ \A r \in Requests : wake[r].pc = "notify" => Bears(events[r], "cancelled")
    /\ \A o \in Ops : CallNotices(o)
    /\ \A p \in PaymentIds : DenialNotices(p)
    /\ \A n \in notices : Bears(events[n[1]], n[2])

\* A history only grows.
HistoryGrows ==
    \A p \in PaymentIds : \A kind : Bears(events[p], kind) => Bears(events'[p], kind)

LEMMA TransitionIsHistory ==
    ASSUME Ledger!TypeOK, NEW p, NEW s, NEW to, Ledger!Transition(p, s, to)
    PROVE  /\ HistoryGrows
           /\ p \in PaymentIds
           /\ \A kind : to \in NoticeNeeds(kind) => Bears(events'[p], kind)
  <1> DEFINE e == Ledger!EventOf(p, to)
             h == events[p]
  <1>1. p \in PaymentIds /\ events' = [events EXCEPT ![p] = Append(h, e)] /\ e.to = to
    BY LedgerTypes DEF Ledger!Transition, Ledger!CanMove, Ledger!InScope, Ledger!Exists,
                       Ledger!EventOf
  <1>2. events \in [PaymentIds -> Seq(Ledger!EventRow)] /\ h \in Seq(Ledger!EventRow)
    BY <1>1 DEF Ledger!TypeOK
  <1> HIDE DEF e
  <1>3. events'[p] = Append(h, e) /\ \A q \in PaymentIds \ {p} : events'[q] = events[q]
    BY <1>1, <1>2
  <1> HIDE DEF h
  <1>4. /\ Len(Append(h, e)) = Len(h) + 1 /\ Append(h, e)[Len(h) + 1] = e
        /\ \A i \in 1 .. Len(h) : Append(h, e)[i] = h[i]
        /\ Len(h) \in Nat
    BY <1>2
  <1>5. \A n \in Nat : n + 1 \in 1 .. n + 1 /\ 1 .. n \subseteq 1 .. n + 1
    OBVIOUS
  <1>6. \A kind : Bears(h, kind) => Bears(Append(h, e), kind)
    BY <1>4, <1>5 DEF Bears
  <1>7. \A kind : to \in NoticeNeeds(kind) => Bears(Append(h, e), kind)
    BY <1>1, <1>4, <1>5 DEF Bears
  <1>8. QED
    BY <1>1, <1>3, <1>6, <1>7 DEF HistoryGrows, h

LEMMA HistoryRests ==
    ASSUME UNCHANGED events
    PROVE  HistoryGrows
  BY DEF HistoryGrows

LEMMA NoticeStep ==
    ASSUME GatewayInv, NoticeInv, HistoryGrows,
           \A r \in Requests : wake'[r].pc = "notify" =>
               wake[r].pc = "notify" \/ Bears(events'[r], "cancelled"),
           \A o \in Ops : ops'[o] = ops[o] \/ CallNotices(o)',
           \A p \in PaymentIds : todo'[p] = todo[p] \/ DenialNotices(p)',
           \A n \in notices' : n \in notices \/ Bears(events'[n[1]], n[2])
    PROVE  NoticeInv'
  <1>1. ASSUME NEW r \in Requests, wake'[r].pc = "notify"
        PROVE  Bears(events'[r], "cancelled")
    BY <1>1 DEF NoticeInv, HistoryGrows, PaymentIds
  <1>2. ASSUME NEW o \in Ops, ops'[o] = ops[o] PROVE CallNotices(o)'
    <2>1. ops[o].p \in PaymentIds /\ CallNotices(o)
      BY OperationTypes DEF GatewayInv, TypeOK, NoticeInv
    <2>2. QED
      BY <1>2, <2>1 DEF CallNotices, HistoryGrows
  <1>3. ASSUME NEW p \in PaymentIds, todo'[p] = todo[p] PROVE DenialNotices(p)'
    BY <1>3 DEF NoticeInv, DenialNotices, HistoryGrows
  <1>4. ASSUME NEW n \in notices' PROVE Bears(events'[n[1]], n[2])
    <2>1. n \in notices => n[1] \in PaymentIds
      BY DEF GatewayInv, TypeOK, Risk!TypeOK
    <2>2. QED
      BY <2>1 DEF NoticeInv, HistoryGrows
  <1>5. QED
    BY <1>1, <1>2, <1>3, <1>4 DEF NoticeInv

\* Where a step takes the request that makes it.
LEMMA RequestGoes ==
    ASSUME Wake!TypeOK, NEW r \in Requests
    PROVE  /\ \A pc : Wake!Goto(r, pc) => OnlyRequest(r) /\ wake'[r].pc = pc
           /\ \A resp : Wake!Answer(r, resp) => OnlyRequest(r) /\ wake'[r].pc = "done"
           /\ \A to, resp : Wake!GotoMove(r, to, resp) =>
                  OnlyRequest(r) /\ wake'[r].pc = "move"
  BY DEF Wake!Goto, Wake!Answer, Wake!GotoMove, OnlyRequest, Wake!TypeOK,
         Wake!RequestState

\* A request that does not go on to notify Koin sends no notice.
LEMMA QuietNotice ==
    ASSUME GatewayInv, NoticeInv, NEW r \in Requests, OnlyRequest(r),
           wake'[r].pc # "notify", UNCHANGED <<events, ops, todo>>,
           notices' \subseteq notices \cup {<<r, "cancelled">>},
           \/ notices' \subseteq notices
           \/ wake[r].pc = "notify"
    PROVE  NoticeInv'
  <1>1. \A n \in notices' : n \in notices \/ Bears(events'[n[1]], n[2])
    BY DEF NoticeInv
  <1>2. QED
    BY <1>1, HistoryRests, NoticeStep DEF OnlyRequest

LEMMA MoveNotices ==
    ASSUME GatewayInv, NoticeInv, NEW r \in Requests, Wake!Move(r),
           UNCHANGED <<ops, todo>>
    PROVE  NoticeInv'
  <1>1. Wake!TypeOK /\ Ledger!TypeOK
    BY DEF GatewayInv, TypeOK
  <1>2. UNCHANGED notices
    BY MoveDoes DEF koinVars
  <1>3. CASE Wake!Goto(r, "failed") /\ UNCHANGED ledger
    BY <1>1, <1>2, <1>3, RequestGoes, QuietNotice DEF ledger
  <1>4. CASE /\ Ledger!Transition(r, Wake!StoreOf(r), wake[r].to)
             /\ Wake!Goto(r, Wake!AfterMove(r))
    <2>1. PICK s, to : s = Wake!StoreOf(r) /\ to = wake[r].to
      OBVIOUS
    <2>2. PICK pc : pc = Wake!AfterMove(r)
      OBVIOUS
    <2>3. /\ HistoryGrows
          /\ \A kind : to \in NoticeNeeds(kind) => Bears(events'[r], kind)
      BY <1>1, <1>4, <2>1, TransitionIsHistory
    <2>4. OnlyRequest(r) /\ wake'[r].pc = pc
      BY <1>1, <1>4, <2>2, RequestGoes
    <2>5. pc = "notify" => to = "refused"
      BY <2>1, <2>2 DEF Wake!AfterMove
    <2>6. pc = "notify" => Bears(events'[r], "cancelled")
      BY <2>3, <2>5 DEF NoticeNeeds
    <2>7. QED
      BY <1>2, <2>3, <2>4, <2>6, NoticeStep DEF OnlyRequest
  <1>5. QED
    BY <1>3, <1>4, MoveDoes

LEMMA RequestNotices ==
    ASSUME GatewayInv, NoticeInv, NEW r \in Requests, Wake!Step(r) \/ Wake!Die(r),
           UNCHANGED <<ops, todo>>
    PROVE  NoticeInv'
  <1>1. Wake!TypeOK
    BY DEF GatewayInv, TypeOK
  <1>2. ASSUME \/ \E pc : pc # "notify" /\ Wake!Goto(r, pc)
               \/ \E resp : Wake!Answer(r, resp)
               \/ \E to, resp : Wake!GotoMove(r, to, resp),
               UNCHANGED events,
               \/ UNCHANGED notices
               \/ notices' \subseteq notices \cup {<<r, "cancelled">>}
                  /\ wake[r].pc = "notify"
        PROVE  NoticeInv'
    BY <1>1, <1>2, RequestGoes, QuietNotice
  <1>3. CASE Wake!FindKey(r)
    BY <1>2, <1>3, FindKeyDoes DEF ledger, koinVars
  <1>4. CASE Wake!InsertKey(r)
    BY <1>2, <1>4, InsertKeyDoes DEF ledger, koinVars
  <1>5. CASE Wake!LookUpPayment(r)
    BY <1>2, <1>5, LookUpDoes DEF ledger, koinVars
  <1>6. CASE Wake!CreatePayment(r)
    BY <1>2, <1>6, CreatePaymentDoes DEF Ledger!Create, ledger, koinVars
  <1>7. CASE Wake!PreEvaluate(r)
    BY <1>2, <1>7, PreEvaluateDoes DEF ledger
  <1>8. CASE Wake!EvaluateRisk(r)
    BY <1>2, <1>8, EvaluateDoes DEF ledger
  <1>9. CASE Wake!NotifyRefusal(r)
    BY <1>2, <1>9, NotifyRefusalDoes DEF ledger
  <1>10. CASE Wake!Charge(r)
    <2>1. UNCHANGED <<events, notices>>
      BY <1>10, ChargeDoes DEF ledger, koinVars
    <2>2. \/ Wake!Goto(r, "recordFailure")
          \/ \E x : wake' = [wake EXCEPT ![r].pc = "record", ![r].answer = x]
      BY <1>10, ChargeDoes
    <2>3. CASE \E x : wake' = [wake EXCEPT ![r].pc = "record", ![r].answer = x]
      <3>1. OnlyRequest(r) /\ wake'[r].pc = "record"
        BY <1>1, <2>3 DEF OnlyRequest, Wake!TypeOK, Wake!RequestState
      <3>2. QED
        BY <2>1, <3>1, QuietNotice
    <2>4. QED
      BY <1>2, <2>1, <2>2, <2>3
  <1>11. CASE Wake!RecordCharge(r)
    BY <1>2, <1>11, RecordChargeDoes DEF Ledger!SaveProviderCharge, koinVars
  <1>12. CASE Wake!RecordFailure(r)
    BY <1>2, <1>12, RecordFailureDoes DEF Ledger!SaveProviderCharge, koinVars
  <1>13. CASE Wake!SaveInstrument(r)
    BY <1>2, <1>13, SaveInstrumentDoes DEF Ledger!UpdateInstrument, koinVars
  <1>14. CASE Wake!SaveResponse(r)
    BY <1>2, <1>14, SaveResponseDoes DEF ledger, koinVars
  <1>15. CASE Wake!Die(r)
    BY <1>2, <1>15, DieDoes DEF ledger, koinVars
  <1>16. QED
    BY <1>3, <1>4, <1>5, <1>6, <1>7, <1>8, <1>9, <1>10, <1>11, <1>12, <1>13, <1>14,
       <1>15, MoveNotices DEF Wake!Step

\* What holds of every element of a list holds of its head and of its tail's.
LEMMA TailOfAll ==
    ASSUME NEW S, NEW t \in Seq(S), t # <<>>, NEW history,
           \A i \in 1 .. Len(t) : Bears(history, t[i])
    PROVE  /\ \A i \in 1 .. Len(Tail(t)) : Bears(history, Tail(t)[i])
           /\ Bears(history, Head(t))
  <1>1. Len(t) \in Nat /\ Len(t) # 0 /\ Len(Tail(t)) = Len(t) - 1 /\ Head(t) = t[1]
    OBVIOUS
  <1>2. \A i \in 1 .. Len(Tail(t)) : i + 1 \in 1 .. Len(t) /\ Tail(t)[i] = t[i + 1]
    OBVIOUS
  <1>3. 1 \in 1 .. Len(t)
    BY <1>1
  <1>4. QED
    BY <1>1, <1>2, <1>3

\* An operation's own step.
LEMMA OperationNotices ==
    ASSUME GatewayInv, NoticeInv, NEW o \in Ops, NEW w, ops' = [ops EXCEPT ![o] = w],
           UNCHANGED <<wake, todo>>, HistoryGrows,
           \A n \in notices' : n \in notices \/ Bears(events'[n[1]], n[2]),
           w.pc = "notify" =>
               \A i \in 1 .. Len(w.todo) : Bears(events'[w.p], w.todo[i])
    PROVE  NoticeInv'
  <1>1. ops'[o] = w /\ \A q \in Ops : q # o => ops'[q] = ops[q]
    BY DEF GatewayInv, TypeOK, Shop!TypeOK
  <1>2. CallNotices(o)'
    BY <1>1 DEF CallNotices
  <1>3. \A q \in Ops : ops'[q] = ops[q] \/ CallNotices(q)'
    BY <1>1, <1>2
  <1>4. QED
    BY <1>3, NoticeStep

\* The notices of an operation are those its transition lets it send.
LEMMA OperationMoveNotices ==
    ASSUME GatewayInv, EvidenceInv, NoticeInv, NEW o \in Ops, Shop!Move(o),
           UNCHANGED <<wake, todo>>
    PROVE  NoticeInv'
  <1>1. /\ Shop!TypeOK /\ ops[o] \in Shop!OpState /\ Ledger!TypeOK
    BY OperationTypes DEF GatewayInv, TypeOK
  <1>2. ops[o].pc = "move" /\ UNCHANGED notices
    BY OperationMoveDoes DEF koinVars
  <1>3. PICK p, to, a, t : /\ p = ops[o].p /\ to = ops[o].to /\ a = ops[o].action
                           /\ t = Shop!NoticesOf(a)
    OBVIOUS
  <1>4. PICK moved, failed :
            /\ moved = [ops[o] EXCEPT !.pc = "notify", !.todo = t]
            /\ failed = [ops[o] EXCEPT !.pc = "failed"]
    OBVIOUS
  <1>5. \/ /\ Ledger!Transition(p, Shop!StoreOf(o), to)
           /\ ops' = [ops EXCEPT ![o] = moved]
        \/ ops' = [ops EXCEPT ![o] = failed] /\ UNCHANGED ledger
    <2>1. \/ /\ Ledger!Transition(p, Shop!StoreOf(o), to)
             /\ ops' = [ops EXCEPT ![o].pc = "notify", ![o].todo = t]
          \/ ops' = [ops EXCEPT ![o].pc = "failed"] /\ UNCHANGED ledger
      BY <1>3, OperationMoveDoes
    <2>2. QED
      BY <1>1, <1>4, <2>1 DEF Shop!TypeOK
  <1>6. moved.todo = t /\ moved.p = p /\ failed.pc = "failed"
    BY <1>1, <1>3, <1>4 DEF Shop!OpState
  <1>7. to = Shop!TargetOf(a) /\ a \in Shop!Actions
    BY <1>1, <1>2, <1>3 DEF EvidenceInv, CallOf, Shop!OpState
  <1>8. \A i \in 1 .. Len(t) : to \in NoticeNeeds(t[i])
    <2>1. CASE a = "capture"
      <3>1. t = <<"collected", "finalized">> /\ to = "captured"
        BY <1>3, <1>7, <2>1 DEF Shop!NoticesOf, Shop!TargetOf
      <3>2. QED
        BY <3>1 DEF NoticeNeeds
    <2>2. CASE a = "void"
      <3>1. t = <<"cancelled">> /\ to = "cancelled"
        BY <1>3, <1>7, <2>2 DEF Shop!NoticesOf, Shop!TargetOf
      <3>2. QED
        BY <3>1 DEF NoticeNeeds
    <2>3. CASE a = "refund"
      <3>1. t = <<"refunded">> /\ to = "refunded"
        BY <1>3, <1>7, <2>3 DEF Shop!NoticesOf, Shop!TargetOf
      <3>2. QED
        BY <3>1 DEF NoticeNeeds
    <2>4. CASE a = "none"
      BY <1>3, <2>4 DEF Shop!NoticesOf
    <2>5. QED
      BY <1>7, <2>1, <2>2, <2>3, <2>4 DEF Shop!Actions
  <1>9. CASE ops' = [ops EXCEPT ![o] = failed] /\ UNCHANGED ledger
    <2>1. HistoryGrows
      BY <1>9, HistoryRests DEF ledger
    <2>2. QED
      BY <1>2, <1>6, <1>9, <2>1, OperationNotices
  <1>10. CASE /\ Ledger!Transition(p, Shop!StoreOf(o), to)
              /\ ops' = [ops EXCEPT ![o] = moved]
    <2>1. /\ HistoryGrows
          /\ \A kind : to \in NoticeNeeds(kind) => Bears(events'[p], kind)
      BY <1>1, <1>10, TransitionIsHistory
    <2>2. \A i \in 1 .. Len(moved.todo) : Bears(events'[moved.p], moved.todo[i])
      BY <1>6, <1>8, <2>1
    <2>3. QED
      BY <1>2, <1>10, <2>1, <2>2, OperationNotices
  <1>11. QED
    BY <1>5, <1>9, <1>10

\* One notice of the list is sent, or the list is done.
LEMMA NotifyOutcomeNotices ==
    ASSUME GatewayInv, NoticeInv, NEW o \in Ops, Shop!NotifyOutcome(o),
           UNCHANGED <<wake, todo>>
    PROVE  NoticeInv'
  <1>1. /\ Shop!TypeOK /\ ops[o] \in Shop!OpState /\ ops[o].todo \in Seq(Risk!Kinds)
    BY OperationTypes DEF GatewayInv, TypeOK
  <1>2. PICK p, t : p = ops[o].p /\ t = ops[o].todo
    OBVIOUS
  <1>3. PICK told, ended : /\ told = [ops[o] EXCEPT !.todo = Tail(t)]
                           /\ ended = [ops[o] EXCEPT !.pc = "done"]
    OBVIOUS
  <1>4. /\ UNCHANGED events
        /\ \A i \in 1 .. Len(t) : Bears(events[p], t[i])
    BY <1>2, NotifyOutcomeDoes DEF ledger, NoticeInv, CallNotices
  <1>5. \/ /\ t # <<>> /\ notices' \subseteq notices \cup {<<p, Head(t)>>}
           /\ ops' = [ops EXCEPT ![o] = told]
        \/ ops' = [ops EXCEPT ![o] = ended] /\ UNCHANGED notices
    <2>1. \/ /\ t # <<>> /\ notices' \subseteq notices \cup {<<p, Head(t)>>}
             /\ ops' = [ops EXCEPT ![o].todo = Tail(@)]
          \/ ops' = [ops EXCEPT ![o].pc = "done"] /\ UNCHANGED notices
      BY <1>2, NotifyOutcomeDoes DEF koinVars
    <2>2. QED
      BY <1>1, <1>2, <1>3, <2>1 DEF Shop!TypeOK
  <1>6. told.todo = Tail(t) /\ told.p = p /\ ended.pc = "done"
    BY <1>1, <1>2, <1>3 DEF Shop!OpState
  <1>7. HistoryGrows
    BY <1>4, HistoryRests
  <1>8. CASE ops' = [ops EXCEPT ![o] = ended] /\ UNCHANGED notices
    BY <1>6, <1>7, <1>8, OperationNotices
  <1>9. CASE /\ t # <<>> /\ notices' \subseteq notices \cup {<<p, Head(t)>>}
             /\ ops' = [ops EXCEPT ![o] = told]
    <2>1. /\ \A i \in 1 .. Len(Tail(t)) : Bears(events[p], Tail(t)[i])
          /\ Bears(events[p], Head(t))
      BY <1>1, <1>2, <1>4, <1>9, TailOfAll
    <2>2. \A n \in notices' : n \in notices \/ Bears(events'[n[1]], n[2])
      BY <1>4, <1>9, <2>1
    <2>3. QED
      BY <1>4, <1>6, <1>7, <1>9, <2>1, <2>2, OperationNotices
  <1>10. QED
    BY <1>5, <1>8, <1>9

\* The other steps of an operation leave it nothing to send.
LEMMA OtherOperationNotices ==
    ASSUME GatewayInv, NoticeInv, NEW o \in Ops, UNCHANGED <<wake, todo>>,
           \/ \E p : Shop!Load(o, p) \/ Shop!Chargeback(o, p)
           \/ Shop!CallZoop(o) \/ Shop!Die(o)
    PROVE  NoticeInv'
  <1>1. Shop!TypeOK /\ ops[o] \in Shop!OpState
    BY OperationTypes DEF GatewayInv, TypeOK
  <1>2. UNCHANGED <<ledger, koinVars>>
    BY LoadDoes, ChargebackDoes, CallZoopDoes, OperationDieDoes
  <1>3. HistoryGrows /\ UNCHANGED notices
    BY <1>2, HistoryRests DEF ledger, koinVars
  <1>4. /\ \A q \in Ops \ {o} : ops'[q] = ops[q]
        /\ ops'[o].pc \in {"zoop", "move", "failed"}
    <2>1. CASE \E p : Shop!Load(o, p)
      <3>1. PICK p : Shop!Load(o, p)
        BY <2>1
      <3>2. PICK i, a : i = Shop!LastCharge(p).providerId /\ a = Shop!ActionFor(o, p)
        OBVIOUS
      <3>3. \/ ops' = [ops EXCEPT ![o].pc = "zoop", ![o].p = p, ![o].id = i, ![o].action = a]
            \/ ops' = [ops EXCEPT ![o].pc = "failed", ![o].p = p]
        BY <3>1, <3>2, LoadDoes
      <3>4. QED
        BY <1>1, <3>3 DEF Shop!TypeOK, Shop!OpState
    <2>2. CASE \E p : Shop!Chargeback(o, p)
      <3>1. \E p : ops' = [ops EXCEPT ![o].pc = "move", ![o].p = p, ![o].to = "chargeback"]
        BY <2>2, ChargebackDoes
      <3>2. QED
        BY <1>1, <3>1 DEF Shop!TypeOK, Shop!OpState
    <2>3. CASE Shop!CallZoop(o)
      <3>1. PICK a, t : a = ops[o].action /\ t = Shop!TargetOf(a)
        OBVIOUS
      <3>2. \/ ops' = [ops EXCEPT ![o] = [ops[o] EXCEPT !.pc = "move", !.executed = a,
                                                       !.to = t]]
            \/ ops' = [ops EXCEPT ![o] = [ops[o] EXCEPT !.pc = "failed"]]
        BY <2>3, <3>1, CallZoopDoes
      <3>3. QED
        BY <1>1, <3>2 DEF Shop!TypeOK, Shop!OpState
    <2>4. CASE Shop!Die(o)
      BY <1>1, <2>4, OperationDieDoes DEF Shop!TypeOK, Shop!OpState
    <2>5. QED
      BY <2>1, <2>2, <2>3, <2>4
  <1>5. CallNotices(o)'
    BY <1>4 DEF CallNotices
  <1>6. \A q \in Ops : ops'[q] = ops[q] \/ CallNotices(q)'
    BY <1>4, <1>5
  <1>7. QED
    BY <1>3, <1>6, NoticeStep

LEMMA ShopNotices ==
    ASSUME GatewayInv, EvidenceInv, NoticeInv, Shop!Next(Told), UNCHANGED <<wake, todo>>
    PROVE  NoticeInv'
  BY OperationMoveNotices, NotifyOutcomeNotices, OtherOperationNotices DEF Shop!Next

\* A denial that moved the payment is in its history before Koin is told.
LEMMA DeliverKoinNotices ==
    ASSUME GatewayInv, NoticeInv, NEW c, Hooks!DeliverKoin(c), UNCHANGED <<wake, ops>>
    PROVE  NoticeInv'
  <1>1. c \in callbacks /\ UNCHANGED notices
    BY DeliverKoinDoes DEF koinVars
  <1>2. Ledger!TypeOK /\ Hooks!TypeOK
    BY DEF GatewayInv, TypeOK
  <1>3. CASE UNCHANGED <<ledger, todo>>
    <2>1. HistoryGrows
      BY <1>3, HistoryRests DEF ledger
    <2>2. QED
      BY <1>1, <1>3, <2>1, NoticeStep
  <1>4. CASE /\ Ledger!Transition(c.ref, AnyStore, Hooks!KoinStatus(c.status))
             /\ \/ todo' = todo
                \/ /\ c.status = "denied"
                   /\ todo' = [todo EXCEPT ![c.ref] = <<"not_collected", "cancelled">>]
    <2>1. PICK p, to : p = c.ref /\ to = Hooks!KoinStatus(c.status)
      OBVIOUS
    <2>2. /\ HistoryGrows /\ p \in PaymentIds
          /\ \A kind : to \in NoticeNeeds(kind) => Bears(events'[p], kind)
      BY <1>2, <1>4, <2>1, TransitionIsHistory
    <2>3. CASE todo' = todo
      BY <1>1, <2>2, <2>3, NoticeStep
    <2>4. CASE /\ c.status = "denied"
               /\ todo' = [todo EXCEPT ![c.ref] = <<"not_collected", "cancelled">>]
      <3>1. to = "refused"
        BY <2>1, <2>4 DEF Hooks!KoinStatus
      <3>2. Bears(events'[p], "not_collected") /\ Bears(events'[p], "cancelled")
        BY <2>2, <3>1 DEF NoticeNeeds
      <3>3. /\ todo'[p] = <<"not_collected", "cancelled">>
            /\ \A q \in PaymentIds \ {p} : todo'[q] = todo[q]
        BY <1>2, <2>1, <2>2, <2>4 DEF Hooks!TypeOK
      <3>4. DenialNotices(p)'
        BY <3>2, <3>3 DEF DenialNotices
      <3>5. QED
        BY <1>1, <2>2, <3>3, <3>4, NoticeStep
    <2>5. QED
      BY <1>4, <2>3, <2>4
  <1>5. QED
    BY <1>3, <1>4, DeliverKoinDoes

LEMMA HooksNotices ==
    ASSUME GatewayInv, NoticeInv, Hooks!Next, UNCHANGED <<wake, ops>>
    PROVE  NoticeInv'
  <1>1. ASSUME NEW m, Hooks!DeliverZoop(m) PROVE NoticeInv'
    <2>1. UNCHANGED <<todo, notices>>
      BY <1>1, DeliverZoopDoes DEF koinVars
    <2>2. HistoryGrows
      BY <1>1, DeliverZoopDoes, HistoryRests, TransitionIsHistory
         DEF GatewayInv, TypeOK, ledger
    <2>3. QED
      BY <2>1, <2>2, NoticeStep
  <1>2. ASSUME NEW m, Hooks!Swallow(m) PROVE NoticeInv'
    <2>1. UNCHANGED <<events, todo, notices>>
      BY <1>2, SwallowDoes DEF koinVars, ledger
    <2>2. QED
      BY <2>1, HistoryRests, NoticeStep
  <1>3. ASSUME NEW p \in PaymentIds, Hooks!NotifyDenial(p) PROVE NoticeInv'
    <2>1. PICK t : t = todo[p]
      OBVIOUS
    <2>2. /\ t # <<>> /\ UNCHANGED events
          /\ notices' \subseteq notices \cup {<<p, Head(t)>>}
          /\ todo' = [todo EXCEPT ![p] = Tail(t)]
      BY <1>3, <2>1, NotifyDenialDoes DEF ledger
    <2>3. todo \in [PaymentIds -> Seq(Hooks!Risk!Kinds)]
      BY DEF GatewayInv, TypeOK, Hooks!TypeOK
    <2>4. \A i \in 1 .. Len(t) : Bears(events[p], t[i])
      BY <2>1 DEF NoticeInv, DenialNotices
    <2>5. /\ \A i \in 1 .. Len(Tail(t)) : Bears(events[p], Tail(t)[i])
          /\ Bears(events[p], Head(t))
      BY <2>1, <2>2, <2>3, <2>4, TailOfAll
    <2>6. todo'[p] = Tail(t) /\ \A q \in PaymentIds \ {p} : todo'[q] = todo[q]
      BY <2>2, <2>3
    <2>7. DenialNotices(p)'
      BY <2>2, <2>5, <2>6 DEF DenialNotices
    <2>8. \A n \in notices' : n \in notices \/ Bears(events'[n[1]], n[2])
      BY <2>2, <2>5
    <2>9. QED
      BY <2>2, <2>6, <2>7, <2>8, HistoryRests, NoticeStep
  <1>4. QED
    BY <1>1, <1>2, <1>3, DeliverKoinNotices DEF Hooks!Next

LEMMA NoticeNext == GatewayInv /\ EvidenceInv /\ NoticeInv /\ [Next]_vars => NoticeInv'
  <1> SUFFICES ASSUME GatewayInv, EvidenceInv, NoticeInv, [Next]_vars PROVE NoticeInv'
    OBVIOUS
  <1>1. ASSUME UNCHANGED <<events, wake, ops, todo, notices>> PROVE NoticeInv'
    BY <1>1, HistoryRests, NoticeStep
  <1>2. QED
    BY <1>1, RequestNotices, ShopNotices, HooksNotices
       DEF Next, Wake!Next, ZoopMoves, KoinMoves, Risk!Decide, ledger, koinVars, vars

LEMMA NoticeInit == Init => NoticeInv
  <1> SUFFICES ASSUME Init PROVE NoticeInv
    OBVIOUS
  <1>1. notices = {} /\ \A p \in PaymentIds : todo[p] = <<>>
    BY DEF Init, Risk!Init, Hooks!Init
  <1>2. PICK w : Wake!Init(w.requests) /\ Shop!Init(w.ops)
    BY DEF Init
  <1>3. /\ \A r \in Requests : wake[r].pc \in {"find", "unsent"}
        /\ \A o \in Ops : ops[o].pc \in {"idle", "unsent"}
    BY <1>2 DEF Wake!Init, Shop!Init
  <1>4. QED
    BY <1>1, <1>3 DEF NoticeInv, CallNotices, DenialNotices

\* What was sent to Koin, or is about to be, is borne out by the payment's history.
THEOREM NoticeInvariant == Spec => []NoticeInv
  BY NoticeInit, NoticeNext, GatewayInvariant, EvidenceInvariant, PTL DEF Spec

\* Koin is told that an order was collected, refunded or cancelled only after the
\* ledger entered the status that makes it true.
THEOREM KoinIsToldTheTruth == Spec => []NoticesFollowLedger
  <1>1. NoticeInv => NoticesFollowLedger
    BY DEF NoticeInv, Bears, NoticesFollowLedger, Entered
  <1>2. QED
    BY <1>1, NoticeInvariant, PTL

==============================================================================
