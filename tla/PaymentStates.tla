---------------------------- MODULE PaymentStates ----------------------------
(***************************************************************************)
(* The payment status machine: domain/state-machine/allowed-transitions.ts *)
(* and payment-state-machine.ts.  Pure definitions, no state.              *)
(***************************************************************************)
EXTENDS Naturals

Statuses ==
    {"created", "under_review", "approved_risk", "waiting_payment",
     "authorized", "captured", "settled", "refused", "cancelled",
     "refunded", "chargeback", "expired"}

\* ALLOWED_TRANSITIONS: every status the table lets follow a status.
AllowedTransitions == [s \in Statuses |->
    CASE s = "created"         -> {"under_review", "approved_risk",
                                   "waiting_payment", "authorized",
                                   "cancelled", "expired"}
      [] s = "under_review"    -> {"approved_risk", "refused", "expired"}
      [] s = "approved_risk"   -> {"authorized", "waiting_payment", "refused"}
      [] s = "waiting_payment" -> {"captured", "expired", "cancelled"}
      [] s = "authorized"      -> {"captured", "cancelled", "refused"}
      [] s = "captured"        -> {"settled", "refunded", "chargeback"}
      [] s = "settled"         -> {"chargeback"}
      [] OTHER                 -> {}]

\* Mutants: no validation at all; only terminal statuses refused.
Bug_NoValidation(from, to) == TRUE

Bug_OnlyTerminalChecked(from, to) == AllowedTransitions[from] # {}

\* PaymentStateMachine.canTransition; validate throws exactly when it is false.
CanTransition(from, to) == to \in AllowedTransitions[from]

\* PaymentStateMachine.isTerminal
IsTerminal(s) == AllowedTransitions[s] = {}

------------------------------------------------------------------------------
(***************************************************************************)
(* Facts about the table used by the properties and the proofs.            *)
(***************************************************************************)

\* Statuses in which the buyer's money has been collected by the provider.
Collected == {"captured", "settled", "refunded", "chargeback"}

\* Every allowed transition strictly increases the rank: the table is acyclic.
Rank == [s \in Statuses |->
    CASE s = "created"         -> 0
      [] s = "under_review"    -> 1
      [] s = "approved_risk"   -> 2
      [] s = "waiting_payment" -> 3
      [] s = "authorized"      -> 3
      [] s = "captured"        -> 4
      [] s = "settled"         -> 5
      [] OTHER                 -> 6]

==============================================================================
