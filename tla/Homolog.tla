-------------------------------- MODULE Homolog --------------------------------
(***************************************************************************)
(* homolog/homolog.service.ts: the harness that shows the connector to     *)
(* Wake.  A run drives the handlers of the gateway through twelve          *)
(* scenarios, for a store of its own that the double of Zoop serves.  The  *)
(* double keeps its charges in memory, the ledger its payments on disk:    *)
(* the process may stop at any moment, and with it runs and handlers.      *)
(***************************************************************************)
EXTENDS PaymentStates, Sequences

CONSTANTS
    Runs,          \* calls of POST /homolog/run
    RunIds,        \* runIds: the first ten characters of a ULID, its millisecond
    LateCalls,     \* kinds of later calls on the payments of a run
    Store,         \* STORE_SLUG
    AnyStore, NoProviderId, NoResponse,
    MaxKeys,       \* bound: keys handed out
    Sessions       \* what one behaviour has: [runs, ids, late, keys, plan]

VARIABLES
    payments, events, outbox, charges, keys, zoop, hooks, fake, koin,
    callbacks, notices, wake, ops, acked, todo,
    issued,  \* how many keys the store was given, 0 before it is created
    run,
    session

------------------------------------------------------------------------------
(***************************************************************************)
(* The scripts.  A call is named by its run, its scenario and its place.   *)
(***************************************************************************)
Pay(method, token) == [call |-> "pay", method |-> method, token |-> token]
Ask(kind) == [call |-> kind, method |-> "none", token |-> "none"]

Approved == Pay("credit_card", "tok_approved")
Declined == Pay("credit_card", "tok_declined")

\* In the order runScenarios has them.
AllScenarios == <<"cartao_pf_completo", "cartao_pj_completo", "cartao_tokenizado",
          "cartao_com_juros", "cartao_recusado", "troca_pagamento", "pix_pedido",
          "boleto_pedido", "estorno_total", "estorno_parcial",
          "cancelamento_pos_autorizacao", "chargeback_pedido">>

Scenarios == {AllScenarios[i] : i \in DOMAIN AllScenarios}

CardScenarios == {"cartao_pf_completo", "cartao_pj_completo", "cartao_tokenizado",
                  "cartao_com_juros"}

\* A mutant: the refund scenarios forget the capture.
Bug_NoCapture(s) ==
    CASE s \in CardScenarios        -> <<Approved, Ask("capture")>>
      [] s = "cartao_recusado"      -> <<Declined>>
      [] s = "troca_pagamento"      -> <<Declined, Pay("boleto", "none")>>
      [] s = "pix_pedido"           -> <<Pay("pix", "none")>>
      [] s = "boleto_pedido"        -> <<Pay("boleto", "none")>>
      [] s = "estorno_total"        -> <<Approved, Ask("cancel")>>
      [] s = "estorno_parcial"      -> <<Approved, Ask("cancel_part")>>
      [] s = "cancelamento_pos_autorizacao" -> <<Approved, Ask("cancel")>>
      [] s = "chargeback_pedido"    -> <<Approved, Ask("capture"), Ask("chargeback")>>

Script(s) ==
    CASE s \in CardScenarios        -> <<Approved, Ask("capture")>>
      [] s = "cartao_recusado"      -> <<Declined>>
      [] s = "troca_pagamento"      -> <<Declined, Pay("boleto", "none")>>
      [] s = "pix_pedido"           -> <<Pay("pix", "none")>>
      [] s = "boleto_pedido"        -> <<Pay("boleto", "none")>>
      [] s = "estorno_total"        -> <<Approved, Ask("capture"), Ask("cancel")>>
      [] s = "estorno_parcial"      -> <<Approved, Ask("capture"), Ask("cancel_part")>>
      [] s = "cancelamento_pos_autorizacao" -> <<Approved, Ask("cancel")>>
      [] s = "chargeback_pedido"    -> <<Approved, Ask("capture"), Ask("chargeback")>>

CallNames == {c \in Runs \X Scenarios \X (1 .. 3) : c[3] <= Len(Script(c[2]))}
CallAt(c) == Script(c[2])[c[3]]

Requests == {c \in CallNames : CallAt(c).call = "pay"}
LateOps == {"late"} \X LateCalls \X {1}
Ops == (CallNames \ Requests) \cup LateOps

Gw == INSTANCE Gateway WITH
    Stores <- {Store}, FraudStores <- {}, FakeStores <- {Store},
    Refs <- RunIds \X Scenarios \X (1 .. 3), Hashes <- {"body"}, MaxTxns <- 1, Faults <- FALSE,
    Workloads <- {[requests |-> <<>>, ops |-> <<>>]}

ASSUME RunsAreNamed == Runs # {} /\ "late" \notin Runs
ASSUME LateCallsAreKinds == LateCalls \subseteq {"capture", "cancel", "cancel_part"}
ASSUME NoProviderIdIsNull == NoProviderId \notin Gw!ProviderIds
ASSUME SomeKey == MaxKeys \in Nat \ {0}
\* runScenarios runs each scenario once.
ASSUME SessionsAreRuns ==
    \A s \in Sessions :
        /\ s.runs \subseteq Runs
        /\ s.ids \in [Runs -> RunIds]
        /\ s.keys \in 0 .. MaxKeys
        /\ s.plan \in Seq(Scenarios) /\ s.plan # <<>>
        /\ \A i, j \in DOMAIN s.plan : s.plan[i] = s.plan[j] => i = j

ledger == <<payments, events, outbox, charges>>
providerVars == <<zoop, hooks, fake>>
koinVars == <<koin, callbacks, notices>>
gateway == <<ledger, keys, providerVars, koinVars, wake, ops, acked, todo>>
vars == <<gateway, issued, run, session>>

------------------------------------------------------------------------------
Report == [ok : BOOLEAN, finalStatus : Statuses \cup {"none"}]

\* pc "issue": the next call is to be made, "wait": it is running.
RunState == [pc : {"new", "issue", "wait", "ended", "dead"}, key : 0 .. MaxKeys,
             step : 1 .. 4, reports : Seq(Report)]

TypeOK ==
    /\ Gw!TypeOK
    /\ issued \in 0 .. MaxKeys
    /\ run \in [Runs -> RunState]
    /\ session \in Sessions

Init ==
    /\ Gw!Init
    /\ issued = 0
    /\ run = [u \in Runs |-> [pc |-> "new", key |-> 0, step |-> 1, reports |-> <<>>]]
    /\ session \in Sessions

\* The array of a run, or in a small session a part of it.
Plan == session.plan

Scenario(u) == Plan[Len(run[u].reports) + 1]
Current(u) == <<u, Scenario(u), run[u].step>>
AtFinish(u) == run[u].step > Len(Script(Scenario(u)))

\* ulid().slice(0, 10): runs of one millisecond have one runId.
RunId(u) == session.ids[u]

\* A mutant: pedido without the runId.
Bug_NoRunId(c) == <<CHOOSE m \in RunIds : TRUE, c[2], c[3]>>

\* `HOMOLOG-${runId}` and the id that names the scenario.
RefOf(c) == <<RunId(c[1]), c[2], c[3]>>

\* The transacao the scenario works on, of its last payment.
LastPay(u, s) == <<u, s, IF s = "troca_pagamento" THEN 2 ELSE 1>>
Transacao(u, s) == Gw!Ledger!FindByExternalRef(Store, RefOf(LastPay(u, s)))

\* resolveByWakeHeaders, as every call and finish begin: the last key is the one.
Resolves(u) == run[u].key = issued

------------------------------------------------------------------------------
(***************************************************************************)
(* The store and its keys.                                                 *)
(***************************************************************************)

\* bootstrapStore: a store that exists is returned without a key.
Bootstrap == issued = 0 /\ issued' = 1 /\ UNCHANGED <<gateway, run, session>>

\* rotateKey fails before the store is there.
RotateKey ==
    /\ issued \in 1 .. session.keys - 1
    /\ issued' = issued + 1
    /\ UNCHANGED <<gateway, run, session>>

------------------------------------------------------------------------------
(***************************************************************************)
(* runScenarios.                                                           *)
(***************************************************************************)

AtStart(u) == run[u].pc = "issue" /\ run[u].step = 1 /\ run[u].reports = <<>>

\* With a key the caller was given.  Runs of one millisecond start before one of
\* them makes its first call.
StartRun(u) ==
    /\ u \in session.runs /\ run[u].pc = "new"
    /\ \A v \in Runs : RunId(v) = RunId(u) => run[v].pc = "new" \/ AtStart(v)
    /\ \E k \in 1 .. issued :
          run' = [run EXCEPT ![u].pc = "issue", ![u].key = k]
    /\ UNCHANGED <<gateway, issued, session>>

\* A scenario ends; what it throws is caught and the next one runs.
EndScenario(u, report) ==
    run' = [run EXCEPT ![u] =
               [@ EXCEPT !.pc = IF Len(run[u].reports) + 1 < Len(Plan) THEN "issue" ELSE "ended",
                         !.step = 1, !.reports = Append(run[u].reports, report)]]

Failed == [ok |-> FALSE, finalStatus |-> "none"]

Goto(u, pc, step) == run' = [run EXCEPT ![u].pc = pc, ![u].step = step]

BodyOf(c) == [store |-> Store, ref |-> RefOf(c), hash |-> "body",
              method |-> CallAt(c).method]

\* The handler of the next call starts, or throws at once.
Issue(u) ==
    LET c == Current(u) IN
    /\ run[u].pc = "issue" /\ ~AtFinish(u)
    /\ IF Resolves(u)
       THEN /\ IF c \in Requests
               THEN /\ wake' = [wake EXCEPT ![c].pc = "find", ![c].body = BodyOf(c)]
                    /\ UNCHANGED ops
               ELSE /\ ops' = [ops EXCEPT ![c].pc = "idle", ![c].kind = CallAt(c).call]
                    /\ UNCHANGED wake
            /\ Goto(u, "wait", run[u].step)
       ELSE EndScenario(u, Failed) /\ UNCHANGED <<wake, ops>>
    /\ UNCHANGED <<ledger, keys, providerVars, koinVars, acked, todo,
                   issued, session>>

\* A card scenario captures only what was approved.
Skips(u, c) ==
    /\ c \in Requests /\ c[2] \in CardScenarios
    /\ wake[c].resp.statusId # 1

Returned(u) ==
    LET c == Current(u)
        pc == IF c \in Requests THEN wake[c].pc ELSE ops[c].pc IN
    /\ run[u].pc = "wait"
    /\ \/ pc = "done" /\ Goto(u, "issue", run[u].step + (IF Skips(u, c) THEN 2 ELSE 1))
       \/ pc = "failed" /\ EndScenario(u, Failed)
    /\ UNCHANGED <<gateway, issued, session>>

\* finish: ok is TRUE whatever status the ledger has.
Finish(u) ==
    /\ run[u].pc = "issue" /\ AtFinish(u)
    /\ IF Resolves(u)
       THEN \E p \in Transacao(u, Scenario(u)) :
               EndScenario(u, [ok |-> TRUE, finalStatus |-> payments[p].status])
       ELSE EndScenario(u, Failed)
    /\ UNCHANGED <<gateway, issued, session>>

------------------------------------------------------------------------------
(***************************************************************************)
(* The handlers the calls run, and the process.                            *)
(***************************************************************************)
Rest == <<acked, todo, issued, run, session>>

\* The double declines the tokens of DECLINE_TOKENS and no other.
TokenDecides(c) ==
    wake[c].pc = "charge" =>
        (wake'[c].answer.status = "failed" <=> CallAt(c).token = "tok_declined")

PayStep(c) ==
    /\ Gw!Wake!Step(c)
    /\ TokenDecides(c)
    /\ UNCHANGED <<ops, Rest>>

OpStep(c) ==
    /\ \/ \E p \in Transacao(c[1], c[2]) : Gw!Shop!Load(c, p) \/ Gw!Shop!Chargeback(c, p)
       \/ Gw!Shop!Continue(c)
    /\ UNCHANGED <<keys, wake, Rest>>

\* Later, someone captures or cancels a payment of a run that is over.
CallLate(o) ==
    /\ o[2] \in session.late /\ ops[o].pc = "unsent"
    /\ \E u \in session.runs : run[u].pc \in {"ended", "dead"}
    /\ ops' = [ops EXCEPT ![o].pc = "idle", ![o].kind = o[2]]
    /\ UNCHANGED <<ledger, keys, providerVars, koinVars, wake, Rest>>

LateStep(o) ==
    /\ \/ \E p \in DOMAIN payments :
             run[p[1]].pc \in {"ended", "dead"} /\ Gw!Shop!Load(o, p)
       \/ Gw!Shop!Continue(o)
    /\ UNCHANGED <<keys, wake, Rest>>

\* The process stops and starts again: the double has forgotten everything.
Restart ==
    /\ Gw!Provider!Fake!Forget
    /\ wake' = [r \in Requests |->
                   IF Gw!Wake!Ended(r) \/ Gw!Wake!At(r, "unsent") THEN wake[r]
                   ELSE [wake[r] EXCEPT !.pc = "failed"]]
    /\ ops' = [o \in Ops |->
                   IF Gw!Shop!Ended(o) \/ ops[o].pc = "unsent" THEN ops[o]
                   ELSE [ops[o] EXCEPT !.pc = "failed"]]
    /\ run' = [u \in Runs |-> IF run[u].pc \in {"issue", "wait"}
                              THEN [run[u] EXCEPT !.pc = "dead"] ELSE run[u]]
    /\ UNCHANGED <<ledger, keys, zoop, hooks, koinVars, acked, todo, issued, session>>

Next ==
    \/ Bootstrap \/ RotateKey \/ Restart
    \/ \E u \in Runs : StartRun(u) \/ Issue(u) \/ Returned(u) \/ Finish(u)
    \/ \E c \in Requests : PayStep(c)
    \/ \E c \in CallNames \ Requests : OpStep(c)
    \/ \E o \in LateOps : CallLate(o) \/ LateStep(o)

Spec == Init /\ [][Next]_vars

------------------------------------------------------------------------------
(***************************************************************************)
(* Properties.                                                             *)
(***************************************************************************)
Expected(s) ==
    CASE s \in CardScenarios -> "captured"
      [] s = "cartao_recusado" -> "refused"
      [] s \in {"troca_pagamento", "pix_pedido", "boleto_pedido"} -> "waiting_payment"
      [] s \in {"estorno_total", "estorno_parcial"} -> "refunded"
      [] s = "cancelamento_pos_autorizacao" -> "cancelled"
      [] s = "chargeback_pedido" -> "chargeback"

\* No other run drew the runId of u.
HasOwnId(u) == \A v \in Runs : RunId(v) = RunId(u) => v = u

OkIsTrue(u) ==
    \A i \in DOMAIN run[u].reports :
        run[u].reports[i].ok => run[u].reports[i].finalStatus = Expected(Plan[i])

\* A report that says ok shows what its row of the checklist asks for, though finish
\* says ok of any status, and other runs and restarts go on meanwhile: of a run whose
\* runId is its own, whatever runs with one runId do to each other beside it.
ReportIsTrue == \A u \in Runs : HasOwnId(u) => OkIsTrue(u)

\* No scenario fails because of another one, another run or an earlier life of the
\* process: of the runs with a runId of their own, only one whose key was rotated
\* away reports a failure.
OnlyALostKeyFails ==
    \A u \in Runs : HasOwnId(u) =>
        \A i \in DOMAIN run[u].reports : ~run[u].reports[i].ok => ~Resolves(u)

\* The double checks no status.  What the scenarios of a run with a runId of its own
\* ask of it, Zoop would do as well: what passes here is not refused there.
DoubleIsAskedAsZoop ==
    \A o \in CallNames \ Requests :
        HasOwnId(o[1]) /\ ops[o].pc = "zoop" /\ Gw!Provider!Fake!Knows(ops[o].id) =>
            Gw!Provider!Fake!StatusOf(ops[o].id) =
                IF ops[o].action = "refund" THEN "captured" ELSE "authorized"

\* A payment whose charge the double forgot is stuck: capture and cancel leave it as
\* it was, so the ledger never tells of money moved on a charge nobody has.
Lost(p) == Gw!Shop!HasCharge(p) /\ fake[p] = <<>>

LostStep ==
    \A p \in DOMAIN payments :
        Lost(p) => payments'[p].status \in {payments[p].status, "chargeback"}

LostChargeStays == [][LostStep]_vars

==============================================================================
