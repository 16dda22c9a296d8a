-------------------------- MODULE GatewayRequirements --------------------------
(***************************************************************************)
(* What the gateway must do, and what its documents say it does, apart     *)
(* from the model of how it does it.                                       *)
(***************************************************************************)
EXTENDS Gateway

\* The payments, webhooks and retries together use the ledger only as
\* Payments.tla allows, and record at most MaxCharges = 1 charge per payment.
\* (Ledger!Spec, with the stuttering steps set apart for TLC's sake.)
LedgerSpec == Ledger!Init /\ [][ledger' # ledger => Ledger!Next]_ledger

\* The statuses a payment has been in after 'created'.
Entered(p) == {events[p][i].to : i \in 1 .. Len(events[p])}

RefusedStatuses == {"refused", "cancelled", "expired"}

------------------------------------------------------------------------------
(***************************************************************************)
(* Safety.                                                                 *)
(***************************************************************************)

\* Double-clicks and retries of one request never charge an order twice: Zoop
\* has at most one transaction for all payments of an order.
ChargedOncePerOrder ==
    \A id1, id2 \in Provider!Txns :
        /\ payments[id1[1]].store = payments[id2[1]].store
        /\ payments[id1[1]].ref = payments[id2[1]].ref
        => id1 = id2

\* A payment that Koin denied, at once or after a review, is never sent to Zoop,
\* however its callback and the handler interleave.
DeniedNeverCharged == \A p \in PaymentIds : Risk!Denied(p) => zoop[p] = <<>>

\* The ledger never runs ahead of Zoop: it says captured, settled, refunded,
\* cancelled or expired only of a payment whose transaction really went there,
\* whatever the order of operations, answers and webhooks.  A chargeback may be told
\* by the shop before Zoop has it, and is then of a transaction that succeeded.  (A
\* store served by the double has no transactions at Zoop.)
AtZoop(p, P(_)) == \E id \in Provider!Txns : id[1] = p /\ P(Provider!TxnOf(id))

LedgerNotAheadOfZoop ==
    \A p \in {q \in DOMAIN payments : payments[q].store \notin FakeStores} :
        LET Is(s) == payments[p].status = s IN
        /\ Is("captured") \/ Is("settled") \/ Is("refunded") \/ Is("chargeback") =>
               AtZoop(p, LAMBDA t : t.status \in {"succeeded", "charged_back"})
        /\ Is("settled")   => AtZoop(p, LAMBDA t : t.paidOut)
        /\ Is("refunded")  => AtZoop(p, LAMBDA t : t.refunded > 0)
        /\ Is("cancelled") => AtZoop(p, LAMBDA t : t.status = "reversed")
        /\ Is("expired")   => AtZoop(p, LAMBDA t : t.status = "expired")

\* createCharge may time out after Zoop executed it, and the handler then refuses.
\* Such a transaction is never lost sight of: whenever a refused payment is still
\* alive at Zoop, its charge row without a transaction id says so.
RefusedButAliveIsMarked ==
    \A p \in DOMAIN payments :
        /\ payments[p].status = "refused"
        /\ AtZoop(p, LAMBDA t : t.status \in {"pending", "pre_authorized", "succeeded"})
        => \E i \in DOMAIN charges[p] : charges[p][i].providerId = NoProviderId

\* What Koin is told happened in the ledger first.
NoticeNeeds(kind) ==
    CASE kind \in {"collected", "finalized"}     -> {"captured"}
      [] kind = "refunded"                       -> {"refunded"}
      [] kind \in {"cancelled", "not_collected"} -> {"cancelled", "refused"}

NoticesFollowLedger ==
    \A n \in notices : Entered(n[1]) \cap NoticeNeeds(n[2]) # {}

\* An answer given to the shop stays true: a refusal is of a payment that can
\* no longer be collected, an approval of one past every check, and the code
\* shown is the one stored.
AnswerMatchesLedger ==
    \A p \in DOMAIN payments : \A r \in RequestsOf(p) : Answered(r) =>
        LET resp == wake[r].resp IN
        /\ resp.statusId \in {2, 5} => payments[p].status \in RefusedStatuses
        /\ resp.statusId = 1 => payments[p].status \notin
               {"created", "under_review", "approved_risk"}
        /\ resp.instrument # "none" => payments[p].instrument = resp.instrument

\* A saved response is never replaced: every later replay of a request gets the
\* first answer, and the body a key was first used with keeps the key.
ReplayStep ==
    \A k \in DOMAIN keys :
        /\ k \in DOMAIN keys'
        /\ keys'[k].hash = keys[k].hash
        /\ keys[k].response # NoResponse => keys'[k].response = keys[k].response

ReplayIsStable == [][ReplayStep]_vars

------------------------------------------------------------------------------
(***************************************************************************)
(* Liveness, when nothing fails: handlers run on, a message is delivered   *)
(* at least once.                                                          *)
(***************************************************************************)
FirstDelivery(m) ==
    /\ m \notin acked
    /\ Hooks!DeliverZoop(m) \/ Hooks!DeliverKoin(m)
    /\ UNCHANGED <<keys, fake, wake, ops>>

ShopStep(o) == Shop!Continue(o) /\ UNCHANGED <<keys, wake, acked, todo>>

Fairness ==
    /\ \A r \in Requests : WF_vars(WakeStep(r))
    /\ \A o \in Ops : WF_vars(ShopStep(o))
    /\ \A m \in Provider!Hook : WF_vars(FirstDelivery(m))
    /\ \A p \in PaymentIds, s \in {"approved", "denied"} :
           WF_vars(FirstDelivery([ref |-> p, status |-> s]))

FairSpec == Spec /\ Fairness

StatusIs(p, s) == p \in DOMAIN payments /\ payments[p].status = s

\* The reason recordChargeFailure gives for itself: a payment whose charge was
\* asked of Zoop does not stay at approved_risk, be the charge accepted, refused
\* or unreachable.
ChargeLeavesApprovedRisk ==
    \A p \in PaymentIds :
        wake[p].pc \in {"record", "recordFailure"} ~> ~StatusIs(p, "approved_risk")

\* Zoop's message that the buyer paid p has not come yet.
PaidUntold(p) == [type |-> "transaction.paid", ref |-> p] \in hooks \ acked

\* A pix the buyer paid is recorded as collected once the ledger waits for it, also
\* when a retry showed the code, and the buyer paid, while the first handler had not
\* got so far.  Only a message that overtakes that handler is dropped by handleZoop.
PaidIsRecorded ==
    \A p \in PaymentIds :
        StatusIs(p, "waiting_payment") /\ PaidUntold(p)
            ~> \E s \in Collected : StatusIs(p, s)

------------------------------------------------------------------------------
(***************************************************************************)
(* What the documents say and the code does not do.                        *)
(***************************************************************************)

\* "O status refletido no pedido Wake acompanha o resultado da análise": once the
\* handler of a payment Koin denied has ended, the payment is refused.
DenialIsReflected ==
    \A p \in DOMAIN payments :
        Risk!Denied(p) /\ Wake!Ended(p) => payments[p].status = "refused"

\* An order in manual review goes on to authorization once it is approved: when
\* Koin's approval of an order under review was received, the charge has been asked
\* of Zoop.
ApprovedReviewIsCharged ==
    \A p \in DOMAIN payments :
        /\ "under_review" \in Entered(p)
        /\ koin[p].decision = "approved"
        /\ [ref |-> p, status |-> "approved"] \in acked
        /\ Wake!Ended(p)
        => zoop[p] # <<>>

\* "All mutations are idempotent. Double-clicks, network retries... never create
\* duplicate charges": a repeated cancel does not refund a second time.
RefundedOnce ==
    \A o1, o2 \in Ops :
        /\ ops[o1].executed = "refund" /\ ops[o2].executed = "refund"
        /\ ops[o1].p = ops[o2].p
        => o1 = o2

==============================================================================
