--------------------------------- MODULE Zoop ---------------------------------
(***************************************************************************)
(* Zoop, the payment processor, and the adapter in front of it             *)
(* (providers/zoop/zoop-payment.adapter.ts).  The processor is external:   *)
(* its transactions move by the calls of the gateway and by themselves     *)
(* (buyers pay, codes expire, banks contest), and every move sends a       *)
(* webhook.  It refuses a call that does not fit the transaction's status. *)
(***************************************************************************)
EXTENDS Naturals, Sequences

CONSTANTS
    PaymentIds,  \* reference_id of a transaction: our payment id
    MaxTxns      \* bound: transactions of one payment

VARIABLES
    zoop,  \* transactions at Zoop, per reference_id, oldest first
    hooks  \* webhooks sent; one may be delivered late, in any order, again

zoopVars == <<zoop, hooks>>

Methods == {"credit_card", "pix", "boleto"}

TxnStatuses == {"pending", "pre_authorized", "succeeded", "failed", "reversed",
                "charged_back", "expired"}

\* The amount is two units, so that a partial refund is one of them.
FullAmount == 2

\* capture: a card Zoop captures as soon as it authorizes it.
Txn == [method: Methods, capture: BOOLEAN, status: TxnStatuses,
        refunded: 0 .. FullAmount, paidOut: BOOLEAN]

HookTypes == {"transaction.authorized", "transaction.paid",
              "transaction.succeeded", "transaction.failed",
              "transaction.reversed", "transaction.charged_back",
              "transaction.refunded", "transaction.expired", "receivable.paid"}

Hook == [type: HookTypes, ref: PaymentIds]

\* A transaction id stands for its reference and its place.
TxnIds == PaymentIds \X (1 .. MaxTxns)

TypeOK ==
    /\ zoop \in [PaymentIds -> Seq(Txn)]
    /\ \A p \in PaymentIds : Len(zoop[p]) <= MaxTxns
    /\ hooks \subseteq Hook

Init ==
    /\ zoop = [p \in PaymentIds |-> <<>>]
    /\ hooks = {}

Txns == {id \in TxnIds : id[2] <= Len(zoop[id[1]])}

TxnOf(id) == zoop[id[1]][id[2]]

\* mapZoopStatus
MapZoopStatus(s) ==
    CASE s = "pre_authorized" -> "authorized"
      [] s = "succeeded"      -> "captured"
      [] s = "pending"        -> "waiting_payment"
      [] s \in {"failed", "reversed"} -> s
      [] OTHER                -> "unknown"

\* createBoletoCharge answers 'waiting_payment' whatever Zoop's status is.
ChargeStatus(method, s) ==
    IF method = "boleto" THEN "waiting_payment" ELSE MapZoopStatus(s)

------------------------------------------------------------------------------
(***************************************************************************)
(* Calls of the adapter, as Zoop executes them.                            *)
(***************************************************************************)

\* A card is authorized, and captured at once if asked so; a pix or a boleto waits
\* for its buyer.
FirstStatuses(method, capture) ==
    {"pending", "failed"} \cup
        (IF method # "credit_card" THEN {}
         ELSE IF capture THEN {"succeeded"} ELSE {"pre_authorized"})

FirstHooks(p, s) ==
    CASE s = "pre_authorized" -> {[type |-> "transaction.authorized", ref |-> p]}
      [] s = "succeeded"      -> {[type |-> "transaction.succeeded", ref |-> p]}
      [] s = "failed"         -> {[type |-> "transaction.failed", ref |-> p]}
      [] OTHER                -> {}

CreateCharge(p, method, capture, s) ==
    /\ s \in FirstStatuses(method, capture)
    /\ Len(zoop[p]) < MaxTxns
    /\ zoop' = [zoop EXCEPT ![p] =
                   Append(@, [method |-> method, status |-> s, refunded |-> 0,
                              capture |-> capture /\ method = "credit_card",
                              paidOut |-> FALSE])]
    /\ hooks' = hooks \cup FirstHooks(p, s)

\* A transaction goes from one of the statuses in From to s and tells it.
MoveTxn(id, From, s, type) ==
    /\ TxnOf(id).status \in From
    /\ zoop' = [zoop EXCEPT ![id[1]][id[2]].status = s]
    /\ hooks' = hooks \cup {[type |-> type, ref |-> id[1]]}

CanCapture(id) == TxnOf(id).status = "pre_authorized"

Capture(id) == MoveTxn(id, {"pre_authorized"}, "succeeded", "transaction.succeeded")

CanVoid(id) == TxnOf(id).status = "pre_authorized"

Void(id) == MoveTxn(id, {"pre_authorized"}, "reversed", "transaction.reversed")

RefundAmount(id, full) == IF full THEN FullAmount - TxnOf(id).refunded ELSE 1

CanRefund(id, full) ==
    /\ TxnOf(id).status = "succeeded"
    /\ TxnOf(id).refunded < FullAmount

Refund(id, full) ==
    /\ CanRefund(id, full)
    /\ zoop' = [zoop EXCEPT ![id[1]][id[2]].refunded = @ + RefundAmount(id, full)]
    /\ hooks' = hooks \cup {[type |-> "transaction.refunded", ref |-> id[1]]}

------------------------------------------------------------------------------
(***************************************************************************)
(* What happens at Zoop by itself.                                         *)
(***************************************************************************)

\* The buyer pays the pix or the boleto.
BuyerPays(id) ==
    /\ TxnOf(id).method # "credit_card"
    /\ MoveTxn(id, {"pending"}, "succeeded", "transaction.paid")

CodeExpires(id) ==
    /\ TxnOf(id).method # "credit_card"
    /\ MoveTxn(id, {"pending"}, "expired", "transaction.expired")

\* A card Zoop was still looking at.
CardDecided(id) ==
    /\ TxnOf(id).method = "credit_card"
    /\ \/ /\ ~TxnOf(id).capture
          /\ MoveTxn(id, {"pending"}, "pre_authorized", "transaction.authorized")
       \/ /\ TxnOf(id).capture
          /\ MoveTxn(id, {"pending"}, "succeeded", "transaction.succeeded")
       \/ MoveTxn(id, {"pending"}, "failed", "transaction.failed")

\* An authorization nobody captured lapses.
AuthorizationLapses(id) ==
    MoveTxn(id, {"pre_authorized"}, "reversed", "transaction.reversed")

PaidOut(id) ==
    /\ TxnOf(id).status = "succeeded" /\ ~TxnOf(id).paidOut
    /\ zoop' = [zoop EXCEPT ![id[1]][id[2]].paidOut = TRUE]
    /\ hooks' = hooks \cup {[type |-> "receivable.paid", ref |-> id[1]]}

ChargedBack(id) ==
    MoveTxn(id, {"succeeded"}, "charged_back", "transaction.charged_back")

==============================================================================
