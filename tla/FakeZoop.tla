------------------------------- MODULE FakeZoop -------------------------------
(***************************************************************************)
(* providers/zoop/fake-zoop.provider.ts: the double of Zoop that serves    *)
(* the store whose zoop_seller_id is FAKE_ZOOP_SELLER_ID.  Its charges are *)
(* a Map in the memory of the process, gone when the process stops.  It    *)
(* looks at no status and sends no webhook.                                *)
(***************************************************************************)
EXTENDS Naturals, Sequences

CONSTANTS PaymentIds, MaxTxns

VARIABLE fake  \* the status of each charge, per reference_id, oldest first

FakeStatuses == {"waiting_payment", "failed", "captured", "authorized", "reversed"}

TypeOK ==
    /\ fake \in [PaymentIds -> Seq(FakeStatuses)]
    /\ \A p \in PaymentIds : Len(fake[p]) <= MaxTxns

Init == fake = [p \in PaymentIds |-> <<>>]

\* What createPix, createBoleto and createCard answer.  Of the card tokens, those
\* of DECLINE_TOKENS fail.
Outcomes(method, capture) ==
    IF method = "credit_card"
    THEN {[status |-> s, code |-> FALSE] :
              s \in {"failed", IF capture THEN "captured" ELSE "authorized"}}
    ELSE {[status |-> "waiting_payment", code |-> TRUE]}

Register(p, status) ==
    /\ Len(fake[p]) < MaxTxns
    /\ fake' = [fake EXCEPT ![p] = Append(@, status)]

\* A mutant: get() makes up the charge it does not find.
Bug_Knows(id) == TRUE

\* get() finds the charge, or throws.
Knows(id) == id[2] <= Len(fake[id[1]])

StatusOf(id) == fake[id[1]][id[2]]

Capture(id) == fake' = [fake EXCEPT ![id[1]][id[2]] = "captured"]

Void(id) == fake' = [fake EXCEPT ![id[1]][id[2]] = "reversed"]

\* refund() leaves the charge as it is, and may be asked any number of times.
Refund(id) == Knows(id) /\ UNCHANGED fake

\* The process starts again with an empty Map.
Forget == fake' = [p \in PaymentIds |-> <<>>]

==============================================================================
