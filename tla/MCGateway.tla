------------------------------ MODULE MCGateway ------------------------------
(***************************************************************************)
(* TLC instances of the gateway: the workloads, each a choice of requests  *)
(* r1, r2, r3 and operations o1, o2, o3.                                   *)
(***************************************************************************)
EXTENDS GatewayRequirements, TLC

Card(hash) == [store |-> "s1", ref |-> "order", hash |-> hash, method |-> "credit_card"]
Code(order, method) == [store |-> "s1", ref |-> order, hash |-> "h1", method |-> method]

NoOps == <<>>
OneClick == [requests |-> "r1" :> Card("h1"), ops |-> NoOps]

\* A card order clicked twice, and once with another body under the same key.
Clicks == [requests |-> "r1" :> Card("h1") @@ "r2" :> Card("h1") @@ "r3" :> Card("h2"),
           ops |-> NoOps]

\* A pix order clicked twice, and cancelled.
Codes == [requests |-> "r1" :> Code("order", "pix") @@ "r2" :> Code("order", "pix"),
          ops |-> "o1" :> "cancel"]

\* A boleto order and a card order at once.
TwoOrders == [requests |-> "r1" :> Card("h1") @@ "r2" :> Code("other order", "boleto"),
              ops |-> NoOps]

\* A card, and all the shop may do with it.
Operations == [requests |-> "r1" :> Card("h1"),
               ops |-> "o1" :> "capture" @@ "o2" :> "cancel" @@ "o3" :> "chargeback"]

MCMixed == {Clicks, Codes, TwoOrders, Operations}

MCOneClick == {OneClick}

\* A card and a pix; a pix sent again while its first request may still run.
MCCardAndPix == {[requests |-> "r1" :> Card("h1") @@ "r2" :> Code("other order", "pix"),
                  ops |-> NoOps],
                 [requests |-> "r1" :> Code("order", "pix") @@ "r2" :> Code("order", "pix"),
                  ops |-> NoOps]}

MCCancelTwice == {[requests |-> "r1" :> Card("h1"),
                   ops |-> "o1" :> "capture" @@ "o2" :> "cancel_part"
                           @@ "o3" :> "cancel_part"]}

==============================================================================
