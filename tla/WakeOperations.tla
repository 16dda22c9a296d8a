---------------------------- MODULE WakeOperations ----------------------------
(***************************************************************************)
(* WakeService.handleCapture, handleCancel and handleChargeback.  A handler*)
(* reads the payment once, calls Zoop on what it read, and only then asks  *)
(* the ledger for the transition: three awaits, with other handlers and    *)
(* webhooks between them.                                                  *)
(***************************************************************************)
EXTENDS PaymentStates, Sequences

CONSTANTS
    Ops,          \* calls of the capture, cancel and chargeback endpoints
    PaymentIds, Stores, Refs, FraudStores, FakeStores,
    AnyStore, NoProviderId, MaxTxns, MaxCharges,
    Faults

VARIABLES
    payments, events, outbox, charges,
    zoop, hooks, fake,
    koin, callbacks, notices,
    ops  \* the calls

ledger == <<payments, events, outbox, charges>>
providerVars == <<zoop, hooks, fake>>
koinVars == <<koin, callbacks, notices>>
vars == <<ledger, providerVars, koinVars, ops>>

ProviderIds == PaymentIds \X (1 .. MaxTxns)

Ledger == INSTANCE Payments
Provider == INSTANCE Providers
Risk == INSTANCE Koin

\* "cancel" has no value, "cancel_part" has.
OpKinds == {"capture", "cancel", "cancel_part", "chargeback"}

\* executed: what this call made Zoop do; todo: the notifications left to send.
Actions == {"none", "capture", "void", "refund"}

OpState == [kind: OpKinds, pc: {"unsent", "idle", "zoop", "move", "notify", "done", "failed"},
            p: PaymentIds, id: ProviderIds \cup {NoProviderId},
            action: Actions, executed: Actions, to: Statuses,
            todo: Seq(Risk!Kinds)]

TypeOK == ops \in [Ops -> OpState]

\* The calls of sent, a partial function to kinds, may come.
Init(sent) ==
    ops = [o \in Ops |->
              [kind |-> IF o \in DOMAIN sent THEN sent[o] ELSE "capture",
               pc |-> IF o \in DOMAIN sent THEN "idle" ELSE "unsent", p |-> CHOOSE p \in PaymentIds : TRUE,
               id |-> NoProviderId, action |-> "none", executed |-> "none",
               to |-> "created", todo |-> <<>>]]

Ended(o) == ops[o].pc \in {"done", "failed"}
StoreOf(o) == payments[ops[o].p].store

\* providerCharges.at(-1), ordered by created_at
LastCharge(p) == charges[p][Len(charges[p])]
HasCharge(p) == charges[p] # <<>> /\ LastCharge(p).providerId # NoProviderId

------------------------------------------------------------------------------
\* A mutant: every cancel is a refund.
Bug_AlwaysRefund(o, p) == IF ops[o].kind \in {"cancel", "cancel_part"} THEN "refund"
                                                                      ELSE ops[o].kind

\* handleCancel voids what is only authorized and refunds everything else.
ActionFor(o, p) ==
    CASE ops[o].kind = "capture" -> "capture"
      [] ops[o].kind \in {"cancel", "cancel_part"} ->
            IF payments[p].status = "authorized" THEN "void" ELSE "refund"
      [] OTHER -> "none"

TargetOf(action) ==
    CASE action = "capture" -> "captured"
      [] action = "void"    -> "cancelled"
      [] action = "refund"  -> "refunded"
      [] OTHER              -> "chargeback"

\* A mutant: a void is told as a refund.
Bug_VoidToldAsRefund(action) ==
    CASE action = "capture"           -> <<"collected", "finalized">>
      [] action \in {"void", "refund"} -> <<"refunded">>
      [] OTHER                        -> <<>>

NoticesOf(action) ==
    CASE action = "capture" -> <<"collected", "finalized">>
      [] action = "void"    -> <<"cancelled">>
      [] action = "refund"  -> <<"refunded">>
      [] OTHER              -> <<>>

\* findById: the payment and its last charge, or an error.
Load(o, p) ==
    /\ ops[o].pc = "idle" /\ ops[o].kind # "chargeback"
    /\ ops' = IF Ledger!Exists(p) /\ HasCharge(p)
              THEN [ops EXCEPT ![o].pc = "zoop", ![o].p = p,
                               ![o].id = LastCharge(p).providerId,
                               ![o].action = ActionFor(o, p)]
              ELSE [ops EXCEPT ![o].pc = "failed", ![o].p = p]
    /\ UNCHANGED <<ledger, providerVars, koinVars>>

\* handleChargeback goes straight to the transition.
Chargeback(o, p) ==
    /\ ops[o].pc = "idle" /\ ops[o].kind = "chargeback"
    /\ Ledger!Exists(p)
    /\ ops' = [ops EXCEPT ![o].pc = "move", ![o].p = p, ![o].to = "chargeback"]
    /\ UNCHANGED <<ledger, providerVars, koinVars>>

Full(o) == ops[o].kind = "cancel"
Faked(o) == StoreOf(o) \in FakeStores

\* provider.capture, void or refund: it is executed, or refused and it throws.
CallZoop(o) ==
    LET action == ops[o].action  id == ops[o].id IN
    /\ ops[o].pc = "zoop"
    /\ IF Provider!Accepts(Faked(o), action, id, Full(o))
       THEN /\ Provider!Execute(Faked(o), action, id, Full(o))
            /\ ops' = [ops EXCEPT ![o].pc = "move", ![o].executed = action,
                                  ![o].to = TargetOf(action)]
       ELSE ops' = [ops EXCEPT ![o].pc = "failed"] /\ UNCHANGED providerVars
    /\ UNCHANGED <<ledger, koinVars>>

\* transition(), scoped to the store of the caller's credentials; with no one
\* to notify the handler answers.
Move(o) ==
    LET p == ops[o].p  to == ops[o].to IN
    /\ ops[o].pc = "move"
    /\ IF Ledger!CanMove(p, StoreOf(o), to)
       THEN /\ Ledger!Transition(p, StoreOf(o), to)
            /\ ops' = [ops EXCEPT ![o].pc = "notify",
                                  ![o].todo = NoticesOf(ops[o].action)]
       ELSE ops' = [ops EXCEPT ![o].pc = "failed"] /\ UNCHANGED ledger
    /\ UNCHANGED <<providerVars, koinVars>>

\* The notifications one by one, then the answer.
NotifyOutcome(o) ==
    /\ ops[o].pc = "notify"
    /\ IF ops[o].todo # <<>>
       THEN /\ Risk!Notify(ops[o].p, StoreOf(o), Head(ops[o].todo))
            /\ ops' = [ops EXCEPT ![o].todo = Tail(@)]
       ELSE ops' = [ops EXCEPT ![o].pc = "done"] /\ UNCHANGED koinVars
    /\ UNCHANGED <<ledger, providerVars>>

\* The process stops or an await throws; Zoop may have executed a call whose
\* answer never came.
Die(o) ==
    /\ Faults
    /\ ops[o].pc \in {"zoop", "move", "notify"}
    /\ ops' = [ops EXCEPT ![o].pc = "failed"]
    /\ UNCHANGED <<ledger, providerVars, koinVars>>

\* The endpoints act on payments the shop was told of.
Next(Told) ==
    \E o \in Ops :
        \/ \E p \in Told : Load(o, p) \/ Chargeback(o, p)
        \/ CallZoop(o) \/ Move(o) \/ NotifyOutcome(o)
        \/ Die(o)

Continue(o) == CallZoop(o) \/ Move(o) \/ NotifyOutcome(o)

==============================================================================
