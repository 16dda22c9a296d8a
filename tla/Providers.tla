------------------------------- MODULE Providers -------------------------------
(***************************************************************************)
(* providers/providers.service.ts: the provider behind each call of a      *)
(* handler.  A store linked to FAKE_ZOOP_SELLER_ID is served by the double *)
(* (faked is TRUE), every other one by Zoop.                               *)
(***************************************************************************)
EXTENDS Zoop

VARIABLE fake  \* the double's charges

vars == <<zoop, hooks, fake>>

Fake == INSTANCE FakeZoop

BothTypeOK == TypeOK /\ Fake!TypeOK

BothInit == Init /\ Fake!Init

\* Zoop's first status, or the double's answer; code: it has a pix QR code or a
\* boleto URL, which Zoop may leave out.
Outcomes(faked, method, capture) ==
    IF faked THEN Fake!Outcomes(method, capture)
    ELSE {o \in [status : FirstStatuses(method, capture), code : BOOLEAN] :
              o.code => o.status # "failed" /\ method # "credit_card"}

Charge(faked, p, method, capture, o) ==
    IF faked THEN Fake!Register(p, o.status) /\ UNCHANGED zoopVars
    ELSE CreateCharge(p, method, capture, o.status) /\ UNCHANGED fake

\* The ChargeResult of that charge.
ResultOf(faked, p, method, o) ==
    [id     |-> <<p, 1 + (IF faked THEN Len(fake[p]) ELSE Len(zoop[p]))>>,
     status |-> IF faked THEN o.status ELSE ChargeStatus(method, o.status),
     code   |-> o.code]

\* The call is executed; otherwise it throws.
Accepts(faked, action, id, full) ==
    CASE faked              -> Fake!Knows(id)
      [] ~faked /\ action = "capture" -> CanCapture(id)
      [] ~faked /\ action = "void"    -> CanVoid(id)
      [] ~faked /\ action = "refund"  -> CanRefund(id, full)

Execute(faked, action, id, full) ==
    IF faked
    THEN /\ CASE action = "capture" -> Fake!Capture(id)
              [] action = "void"    -> Fake!Void(id)
              [] action = "refund"  -> Fake!Refund(id)
         /\ UNCHANGED zoopVars
    ELSE /\ CASE action = "capture" -> Capture(id)
              [] action = "void"    -> Void(id)
              [] action = "refund"  -> Refund(id, full)
         /\ UNCHANGED fake

==============================================================================
