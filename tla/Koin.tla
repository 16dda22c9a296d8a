--------------------------------- MODULE Koin ---------------------------------
(***************************************************************************)
(* Koin, the fraud analyst, behind RiskService and KoinFraudAdapter.  It   *)
(* is external: it gives a verdict to each evaluation, decides later those *)
(* it only 'received' and calls back with the decision, maybe twice.  A    *)
(* store with no key, or with fraud analysis off, gets NoopFraudProvider.  *)
(***************************************************************************)
CONSTANTS
    PaymentIds,   \* reference_id of an evaluation
    Stores,
    FraudStores   \* stores with fraudEnabled and a Koin key

VARIABLES
    koin,       \* what Koin knows of each payment
    callbacks,  \* callbacks sent to /webhooks/koin
    notices     \* outcome notifications Koin got

vars == <<koin, callbacks, notices>>

Verdicts == {"approved", "denied", "received"}

Kinds == {"collected", "not_collected", "finalized", "cancelled", "refunded"}

\* pre and eval: the verdicts given; decision: the analyst's, after 'received'.
Case == [pre: Verdicts \cup {"none"}, eval: Verdicts \cup {"none"},
         decision: {"none", "approved", "denied"}]

TypeOK ==
    /\ koin \in [PaymentIds -> Case]
    /\ callbacks \subseteq [ref: PaymentIds, status: {"approved", "denied"}]
    /\ notices \subseteq PaymentIds \X Kinds

Init ==
    /\ koin = [p \in PaymentIds |->
                  [pre |-> "none", eval |-> "none", decision |-> "none"]]
    /\ callbacks = {}
    /\ notices = {}

\* RiskService.usesKoin
UsesKoin(s) == s \in FraudStores

\* preEvaluate()
PreEvaluate(p, v) ==
    /\ koin' = [koin EXCEPT ![p].pre = v]
    /\ UNCHANGED <<callbacks, notices>>

\* evaluate(), through getProvider: the no-op provider approves everything.
Evaluate(p, s, v) ==
    IF UsesKoin(s)
    THEN koin' = [koin EXCEPT ![p].eval = v] /\ UNCHANGED <<callbacks, notices>>
    ELSE v = "approved" /\ UNCHANGED vars

\* notify(): an error of the adapter is logged and swallowed, so the notice may
\* be lost; the no-op provider sends nothing.
Notify(p, s, kind) ==
    /\ UNCHANGED <<koin, callbacks>>
    /\ \/ UsesKoin(s) /\ notices' = notices \cup {<<p, kind>>}
       \/ UNCHANGED notices

\* The analyst ends a review.
Decide(p, d) ==
    /\ koin[p].eval = "received" /\ koin[p].decision = "none"
    /\ koin' = [koin EXCEPT ![p].decision = d]
    /\ callbacks' = callbacks \cup {[ref |-> p, status |-> d]}
    /\ UNCHANGED notices

Denied(p) == "denied" \in {koin[p].pre, koin[p].eval, koin[p].decision}

==============================================================================
