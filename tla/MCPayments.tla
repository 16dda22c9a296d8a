------------------------------ MODULE MCPayments ------------------------------
(***************************************************************************)
(* TLC instance of Payments: two payments, orders in two stores.           *)
(***************************************************************************)
EXTENDS Payments, FiniteSets, TLC

CONSTANT MaxChargedPayments  \* payments that get a provider_charges row

MCSymmetry == Permutations(PaymentIds) \cup Permutations(Stores)

\* As Next, with few provider_charges rows in all.
MCNext ==
    /\ Next
    /\ Cardinality({p \in PaymentIds : charges'[p] # <<>>}) <= MaxChargedPayments

MCSpec == Init /\ [][MCNext]_vars

==============================================================================
