----------------------------- MODULE MCPaymentsTx -----------------------------
(***************************************************************************)
(* TLC instances of PaymentsTx: concurrent callers of transition().        *)
(***************************************************************************)
EXTENDS PaymentsTx, TLC

MCSymmetry == Permutations(Callers) \cup Permutations(Stores)

==============================================================================
