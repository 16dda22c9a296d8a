----------------------------- MODULE HomologProofs -----------------------------
(***************************************************************************)
(* Theorems about the harness, for any number of runs at once, any order   *)
(* of the scenarios, keys rotated and processes restarted at any moment,   *)
(* as long as no two runs start in one millisecond: its reports are true,  *)
(* and the ledger never tells of money moved on a charge the double has    *)
(* lost.                                                                   *)
(***************************************************************************)
EXTENDS Homolog, TLAPS

------------------------------------------------------------------------------
(***************************************************************************)
(* What each call of a script is to achieve.                               *)
(***************************************************************************)
PaymentOf(c) == IF c \in Requests THEN c ELSE LastPay(c[1], c[2])

\* The status of its payment after each call of a script.
Goals(s) ==
    CASE s \in CardScenarios                    -> <<"authorized", "captured">>
      [] s = "cartao_recusado"                  -> <<"refused">>
      [] s = "troca_pagamento"                  -> <<"refused", "waiting_payment">>
      [] s \in {"pix_pedido", "boleto_pedido"}  -> <<"waiting_payment">>
      [] s \in {"estorno_total", "estorno_parcial"} ->
                                            <<"authorized", "captured", "refunded">>
      [] s = "cancelamento_pos_autorizacao"     -> <<"authorized", "cancelled">>
      [] s = "chargeback_pedido"          -> <<"authorized", "captured", "chargeback">>

Goal(c) == Goals(c[2])[c[3]]

\* What the double has of a payment in a status.
FakeOf(status) ==
    CASE status = "refused"                                  -> "failed"
      [] status = "cancelled"                                -> "reversed"
      [] status \in {"captured", "refunded", "chargeback"}   -> "captured"
      [] status \in {"authorized", "waiting_payment"}        -> status

------------------------------------------------------------------------------
(***************************************************************************)
(* The invariant.                                                          *)
(***************************************************************************)
NotCreated == {"unsent", "find", "insert", "create"}

\* A payment has the reference of the request that made it, no trace before it exists,
\* and one charge at most.
RowOf(p) ==
    /\ wake[p].pc # "unsent" => wake[p].body = BodyOf(p)
    /\ wake[p].pc \in NotCreated => p \notin DOMAIN payments
    /\ <<Store, RefOf(p)>> \in DOMAIN keys => wake[p].pc \notin {"unsent", "find", "insert"}
    /\ p \in DOMAIN payments => payments[p].store = Store /\ payments[p].ref = RefOf(p)
    /\ p \notin DOMAIN payments => charges[p] = <<>> /\ fake[p] = <<>>
    /\ charges[p] # <<>> => Len(charges[p]) = 1 /\ charges[p][1].providerId = <<p, 1>>

Uncharged(p) == charges[p] = <<>> /\ fake[p] = <<>>
Charged(p, status) == charges[p] # <<>> /\ fake[p] = <<status>>
Is(p, status) == p \in DOMAIN payments /\ payments[p].status = status

\* The call has achieved what it is to, in the ledger and at the double.
Achieved(c) ==
    Is(PaymentOf(c), Goal(c)) /\ Charged(PaymentOf(c), FakeOf(Goal(c)))

\* A payment its scenario is making.
PayOf(c) ==
    LET w == wake[c]  pc == w.pc IN
    /\ pc \in {"find", "insert", "create", "evaluate", "move", "charge", "record",
               "instrument", "save", "done"}
    /\ pc = "evaluate" => Is(c, "created") /\ Uncharged(c)
    /\ pc = "charge" => Is(c, "approved_risk") /\ Uncharged(c)
    /\ pc = "record" =>
           /\ Is(c, "approved_risk") /\ charges[c] = <<>> /\ fake[c] = <<FakeOf(Goal(c))>>
           /\ w.answer = [id |-> <<c, 1>>, status |-> FakeOf(Goal(c)),
                          code |-> Goal(c) = "waiting_payment"]
    /\ pc = "instrument" =>
           /\ Is(c, "approved_risk") /\ Charged(c, FakeOf(Goal(c)))
           /\ Goal(c) = "waiting_payment"
    /\ pc = "move" =>
           \/ w.to = "approved_risk" /\ Is(c, "created") /\ Uncharged(c)
           \/ /\ w.to = Goal(c) /\ Is(c, "approved_risk") /\ Charged(c, FakeOf(Goal(c)))
              /\ w.resp # Gw!Wake!Say(5)
              /\ Goal(c) = "authorized" => w.resp.statusId = 1
    /\ pc \in {"save", "done"} =>
           Achieved(c) /\ (Goal(c) = "authorized" => w.resp.statusId = 1)

Before(o) == <<o[1], o[2], o[3] - 1>>

\* A call on the payment its scenario has made.
OpOf(o) ==
    LET w == ops[o]  pc == w.pc  p == PaymentOf(o) IN
    /\ pc \in {"idle", "zoop", "move", "notify", "done"}
    /\ w.kind = CallAt(o).call
    /\ pc \in {"idle", "zoop"} => Achieved(Before(o))
    /\ pc # "idle" => w.p = p
    /\ pc = "zoop" => /\ w.kind # "chargeback" /\ w.id = <<p, 1>>
                      /\ w.action = Gw!Shop!ActionFor(o, p)
    /\ pc = "move" =>
           /\ w.to = Goal(o)
           /\ Is(p, Goal(Before(o))) /\ Charged(p, FakeOf(Goal(o)))
    /\ pc \in {"notify", "done"} => Achieved(o)

CallsOf(u) == {c \in CallNames : c[1] = u}
Pc(c) == IF c \in Requests THEN wake[c].pc ELSE ops[c].pc
Reached(u) == {Plan[i] : i \in 1 .. Len(run[u].reports) + 1}

\* The calls a run has yet to make.
Ahead(u, c) ==
    \/ c[2] \notin Reached(u)
    \/ c[2] = Scenario(u) /\ c[3] > run[u].step
    \/ c = Current(u) /\ run[u].pc = "issue"

Alive(u) == run[u].pc \in {"issue", "wait"}

RunOf(u) ==
    /\ run[u].key <= issued
    /\ run[u].pc = "new" => run[u].reports = <<>> /\ run[u].step = 1
    /\ Alive(u) => /\ Len(run[u].reports) < Len(Plan)
                   /\ run[u].step <= Len(Script(Scenario(u))) + 1
    /\ \A c \in CallsOf(u) :
           /\ run[u].pc = "new" \/ (Alive(u) /\ Ahead(u, c)) => Pc(c) = "unsent"
           /\ Pc(c) \notin {"unsent", "done", "failed"} => run[u].pc = "wait" /\ c = Current(u)
    /\ run[u].pc = "issue" /\ run[u].step > 1 => Achieved(Before(Current(u)))
    /\ run[u].pc = "wait" =>
           /\ Current(u) \in CallNames
           /\ IF Current(u) \in Requests THEN PayOf(Current(u)) ELSE OpOf(Current(u))
    /\ \A i \in DOMAIN run[u].reports :
           IF run[u].reports[i].ok THEN run[u].reports[i].finalStatus = Expected(Plan[i])
                                   ELSE run[u].key < issued

\* Whoever captures or cancels later works on a run that is over, and moves a charge
\* the double has.
LateOf(o) ==
    LET w == ops[o] IN
    /\ w.pc \in {"zoop", "move", "notify"} =>
           /\ w.p \in DOMAIN payments /\ run[w.p[1]].pc \in {"ended", "dead"}
           /\ w.action \in {"capture", "void", "refund"}
    /\ w.pc = "zoop" => w.id = <<w.p, 1>>
    /\ w.pc = "move" => fake[w.p] # <<>>

\* No two runs start in one millisecond: those of one runId share their payments.
OwnIds == \A u \in Runs : HasOwnId(u)

HomologInv ==
    /\ TypeOK /\ OwnIds
    /\ \A p \in Requests : RowOf(p)
    /\ \A u \in Runs : RunOf(u)
    /\ \A o \in LateOps : LateOf(o)

------------------------------------------------------------------------------
(***************************************************************************)
(* The scripts.                                                            *)
(***************************************************************************)
LEMMA ScenarioNames ==
    Scenarios = CardScenarios \cup
                {"cartao_recusado", "troca_pagamento", "pix_pedido", "boleto_pedido",
                 "estorno_total", "estorno_parcial", "cancelamento_pos_autorizacao",
                 "chargeback_pedido"}
  <1>1. DOMAIN AllScenarios = 1 .. 12
    BY DEF AllScenarios
  <1>2. \A i \in 1 .. 12 : \/ i = 1 \/ i = 2 \/ i = 3 \/ i = 4 \/ i = 5 \/ i = 6 \/ i = 7
                           \/ i = 8 \/ i = 9 \/ i = 10 \/ i = 11 \/ i = 12
    OBVIOUS
  <1>3. /\ AllScenarios[1] = "cartao_pf_completo" /\ AllScenarios[2] = "cartao_pj_completo"
        /\ AllScenarios[3] = "cartao_tokenizado" /\ AllScenarios[4] = "cartao_com_juros"
        /\ AllScenarios[5] = "cartao_recusado" /\ AllScenarios[6] = "troca_pagamento"
        /\ AllScenarios[7] = "pix_pedido" /\ AllScenarios[8] = "boleto_pedido"
        /\ AllScenarios[9] = "estorno_total" /\ AllScenarios[10] = "estorno_parcial"
        /\ AllScenarios[11] = "cancelamento_pos_autorizacao"
        /\ AllScenarios[12] = "chargeback_pedido"
    BY DEF AllScenarios
  <1>4. \A i \in 1 .. 12 : AllScenarios[i] \in CardScenarios \cup
                {"cartao_recusado", "troca_pagamento", "pix_pedido", "boleto_pedido",
                 "estorno_total", "estorno_parcial", "cancelamento_pos_autorizacao",
                 "chargeback_pedido"}
    BY <1>2, <1>3 DEF CardScenarios
  <1>5. /\ 1 \in 1 .. 12 /\ 2 \in 1 .. 12 /\ 3 \in 1 .. 12 /\ 4 \in 1 .. 12 /\ 5 \in 1 .. 12
        /\ 6 \in 1 .. 12 /\ 7 \in 1 .. 12 /\ 8 \in 1 .. 12 /\ 9 \in 1 .. 12
        /\ 10 \in 1 .. 12 /\ 11 \in 1 .. 12 /\ 12 \in 1 .. 12
    OBVIOUS
  <1>6. \A s \in CardScenarios \cup
                {"cartao_recusado", "troca_pagamento", "pix_pedido", "boleto_pedido",
                 "estorno_total", "estorno_parcial", "cancelamento_pos_autorizacao",
                 "chargeback_pedido"} : \E i \in 1 .. 12 : s = AllScenarios[i]
    BY <1>3, <1>5 DEF CardScenarios
  <1>7. QED
    BY <1>1, <1>4, <1>6 DEF Scenarios

\* Each script, and what its calls are to achieve.
Shape(s, script, goals) == Script(s) = script /\ Goals(s) = goals

LEMMA Shapes ==
    ASSUME NEW s \in Scenarios
    PROVE  \/ /\ s \in CardScenarios /\ s # "troca_pagamento"
              /\ Shape(s, <<Approved, Ask("capture")>>, <<"authorized", "captured">>)
              /\ Expected(s) = "captured"
           \/ /\ s = "cartao_recusado" /\ s \notin CardScenarios
              /\ Shape(s, <<Declined>>, <<"refused">>) /\ Expected(s) = "refused"
           \/ /\ s = "troca_pagamento" /\ s \notin CardScenarios
              /\ Shape(s, <<Declined, Pay("boleto", "none")>>, <<"refused", "waiting_payment">>)
              /\ Expected(s) = "waiting_payment"
           \/ /\ s \notin CardScenarios \cup {"troca_pagamento"}
              /\ \/ Shape(s, <<Pay("pix", "none")>>, <<"waiting_payment">>)
                 \/ Shape(s, <<Pay("boleto", "none")>>, <<"waiting_payment">>)
              /\ Expected(s) = "waiting_payment"
           \/ /\ s \notin CardScenarios \cup {"troca_pagamento"}
              /\ \E kind \in {"cancel", "cancel_part"} :
                    Shape(s, <<Approved, Ask("capture"), Ask(kind)>>,
                             <<"authorized", "captured", "refunded">>)
              /\ Expected(s) = "refunded"
           \/ /\ s \notin CardScenarios \cup {"troca_pagamento"}
              /\ Shape(s, <<Approved, Ask("cancel")>>, <<"authorized", "cancelled">>)
              /\ Expected(s) = "cancelled"
           \/ /\ s \notin CardScenarios \cup {"troca_pagamento"}
              /\ Shape(s, <<Approved, Ask("capture"), Ask("chargeback")>>,
                          <<"authorized", "captured", "chargeback">>)
              /\ Expected(s) = "chargeback"
  <1>1. CASE s \in CardScenarios
    BY <1>1 DEF Shape, Script, Goals, Expected, CardScenarios
  <1>2. CASE s = "cartao_recusado"
    BY <1>2 DEF Shape, Script, Goals, Expected, CardScenarios
  <1>3. CASE s = "troca_pagamento"
    BY <1>3 DEF Shape, Script, Goals, Expected, CardScenarios
  <1>4. CASE s = "pix_pedido" \/ s = "boleto_pedido"
    BY <1>4 DEF Shape, Script, Goals, Expected, CardScenarios
  <1>5. CASE s = "estorno_total"
    BY <1>5 DEF Shape, Script, Goals, Expected, CardScenarios
  <1>6. CASE s = "estorno_parcial"
    BY <1>6 DEF Shape, Script, Goals, Expected, CardScenarios
  <1>7. CASE s = "cancelamento_pos_autorizacao"
    BY <1>7 DEF Shape, Script, Goals, Expected, CardScenarios
  <1>8. CASE s = "chargeback_pedido"
    BY <1>8 DEF Shape, Script, Goals, Expected, CardScenarios
  <1>9. QED
    BY <1>1, <1>2, <1>3, <1>4, <1>5, <1>6, <1>7, <1>8, ScenarioNames

\* A call is at a place of its script.
LEMMA CallParts ==
    ASSUME NEW c \in CallNames
    PROVE  /\ c = <<c[1], c[2], c[3]>> /\ c[1] \in Runs /\ c[2] \in Scenarios
           /\ c[3] \in 1 .. 3 /\ c[3] <= Len(Script(c[2])) /\ CallAt(c) = Script(c[2])[c[3]]
  BY DEF CallNames, CallAt

LEMMA IsCall ==
    ASSUME NEW u \in Runs, NEW s \in Scenarios, NEW k \in Nat, k >= 1, k <= Len(Script(s))
    PROVE  <<u, s, k>> \in CallNames
  <1>1. Len(Script(s)) \in 1 .. 3
    BY Shapes DEF Shape
  <1>2. PICK n \in 1 .. 3 : n = Len(Script(s))
    BY <1>1
  <1>3. k \in 1 .. 3
    <2>1. k <= n
      BY <1>2
    <2>2. QED
      BY <2>1
  <1>4. QED
    BY <1>3 DEF CallNames

\* The last payment of a scenario is one of its calls.
LEMMA LastPayIsPay ==
    ASSUME NEW u \in Runs, NEW s \in Scenarios
    PROVE  LastPay(u, s) \in Requests
  <1>1. CASE s = "troca_pagamento"
    <2>1. 2 <= Len(Script(s)) /\ Script(s)[2].call = "pay"
      BY <1>1, Shapes DEF Shape, Pay
    <2>2. <<u, s, 2>> \in CallNames
      BY <2>1, IsCall
    <2>3. QED
      BY <1>1, <2>1, <2>2 DEF Requests, CallAt, LastPay
  <1>2. CASE s # "troca_pagamento"
    <2>1. 1 <= Len(Script(s)) /\ Script(s)[1].call = "pay"
      BY <1>2, Shapes DEF Shape, Approved, Declined, Pay
    <2>2. <<u, s, 1>> \in CallNames
      BY <2>1, IsCall
    <2>3. QED
      BY <1>2, <2>1, <2>2 DEF Requests, CallAt, LastPay
  <1>3. QED
    BY <1>1, <1>2

LEMMA PaymentOfCall ==
    ASSUME NEW c \in CallNames
    PROVE  PaymentOf(c) \in Requests /\ PaymentOf(c)[1] = c[1]
  BY CallParts, LastPayIsPay DEF PaymentOf, LastPay

\* What a payment asks of the double, and what it comes to.
LEMMA Payment ==
    ASSUME NEW c \in Requests
    PROVE  /\ c \in CallNames /\ CallAt(c).method \in {"credit_card", "pix", "boleto"}
           /\ Goal(c) \in {"authorized", "refused", "waiting_payment"}
           /\ Goal(c) = "waiting_payment" <=> CallAt(c).method # "credit_card"
           /\ Goal(c) = "refused" <=> CallAt(c).token = "tok_declined"
           /\ c[2] \in CardScenarios => Goal(c) = "authorized"
           /\ PaymentOf(c) = c
  <1>1. c \in CallNames /\ CallAt(c).call = "pay"
    BY DEF Requests
  <1>2. c[2] \in Scenarios /\ c[3] \in 1 .. 3 /\ c[3] <= Len(Script(c[2]))
        /\ CallAt(c) = Script(c[2])[c[3]]
    BY <1>1, CallParts
  <1>3. PICK k \in 1 .. 3 : k = c[3]
    BY <1>2
  <1>4. k = 1 \/ k = 2 \/ k = 3
    OBVIOUS
  <1>5. QED
    BY <1>1, <1>2, <1>3, <1>4, Shapes
    DEF Shape, Approved, Declined, Pay, Ask, Goal, PaymentOf

\* A later call: where it finds the payment, and where it takes it.
LEMMA Operation ==
    ASSUME NEW o \in CallNames \ Requests
    PROVE  /\ Before(o) \in CallNames /\ PaymentOf(Before(o)) = PaymentOf(o) /\ o[3] > 1
           /\ PaymentOf(o) = LastPay(o[1], o[2])
           /\ \/ /\ CallAt(o).call = "capture"
                 /\ Goal(Before(o)) = "authorized" /\ Goal(o) = "captured"
              \/ /\ CallAt(o).call \in {"cancel", "cancel_part"}
                 /\ Goal(Before(o)) = "authorized" /\ Goal(o) = "cancelled"
              \/ /\ CallAt(o).call \in {"cancel", "cancel_part"}
                 /\ Goal(Before(o)) = "captured" /\ Goal(o) = "refunded"
              \/ /\ CallAt(o).call = "chargeback"
                 /\ Goal(Before(o)) = "captured" /\ Goal(o) = "chargeback"
  <1>1. o \in CallNames /\ CallAt(o).call # "pay"
    BY DEF Requests
  <1>2. /\ o = <<o[1], o[2], o[3]>> /\ o[1] \in Runs
        /\ o[2] \in Scenarios /\ o[3] \in 1 .. 3 /\ o[3] <= Len(Script(o[2]))
        /\ CallAt(o) = Script(o[2])[o[3]]
    BY <1>1, CallParts
  <1>3. PICK k \in 1 .. 3, s \in Scenarios : k = o[3] /\ s = o[2]
    BY <1>2
  <1>4. k = 1 \/ k = 2 \/ k = 3
    OBVIOUS
  <1>5. /\ k > 1 /\ s # "troca_pagamento"
        /\ \/ /\ Script(s)[k].call = "capture"
              /\ Goals(s)[k - 1] = "authorized" /\ Goals(s)[k] = "captured"
           \/ /\ Script(s)[k].call \in {"cancel", "cancel_part"}
              /\ Goals(s)[k - 1] = "authorized" /\ Goals(s)[k] = "cancelled"
           \/ /\ Script(s)[k].call \in {"cancel", "cancel_part"}
              /\ Goals(s)[k - 1] = "captured" /\ Goals(s)[k] = "refunded"
           \/ /\ Script(s)[k].call = "chargeback"
              /\ Goals(s)[k - 1] = "captured" /\ Goals(s)[k] = "chargeback"
    BY <1>1, <1>2, <1>3, <1>4, Shapes DEF Shape, Approved, Declined, Pay, Ask
  <1>6. Before(o) = <<o[1], s, k - 1>> /\ Before(o) \in CallNames
    <2>1. k - 1 \in Nat /\ k - 1 >= 1 /\ k - 1 <= Len(Script(s))
      <3>1. Len(Script(s)) \in Nat /\ k <= Len(Script(s))
        BY <1>2, <1>3, Shapes DEF Shape
      <3>2. QED
        BY <1>5, <3>1
    <2>2. QED
      BY <1>2, <1>3, <2>1, IsCall DEF Before
  <1>7. PaymentOf(o) = LastPay(o[1], s)
    BY <1>3 DEF PaymentOf
  <1>8. PaymentOf(Before(o)) = LastPay(o[1], s)
    <2>1. CASE Before(o) \in Requests
      <3>1. k - 1 = 1
        <4>1. Script(s)[k - 1].call = "pay"
          BY <1>6, <2>1 DEF Requests, CallAt
        <4>2. QED
          BY <1>4, <1>5, <1>2, <1>3, <4>1, Shapes DEF Shape, Approved, Declined, Pay, Ask
      <3>2. QED
        BY <1>5, <1>6, <2>1, <3>1 DEF PaymentOf, LastPay
    <2>2. CASE Before(o) \notin Requests
      BY <1>6, <2>2 DEF PaymentOf
    <2>3. QED
      BY <2>1, <2>2
  <1>9. QED
    BY <1>3, <1>5, <1>2, <1>6, <1>7, <1>8 DEF Goal

\* The last call of a scenario.
LEMMA LastCall ==
    ASSUME NEW u \in Runs, NEW s \in Scenarios
    PROVE  LET c == <<u, s, Len(Script(s))>> IN
           /\ Len(Script(s)) \in 1 .. 3 /\ c \in CallNames
           /\ PaymentOf(c) = LastPay(u, s) /\ Goal(c) = Expected(s)
  <1>1. Len(Script(s)) \in 1 .. 3 /\ Goals(s)[Len(Script(s))] = Expected(s)
    BY Shapes DEF Shape
  <1>2. PICK k \in 1 .. 3 : k = Len(Script(s))
    BY <1>1
  <1>3. <<u, s, k>> \in CallNames
    BY <1>2, IsCall
  <1>4. CASE <<u, s, k>> \in Requests
    <2>1. Script(s)[k].call = "pay"
      BY <1>4 DEF Requests, CallAt
    <2>2. k = IF s = "troca_pagamento" THEN 2 ELSE 1
      <3>1. k = 1 \/ k = 2 \/ k = 3
        OBVIOUS
      <3>2. CASE s = "troca_pagamento"
        BY <1>2, <3>2, Shapes DEF Shape
      <3>3. CASE s # "troca_pagamento"
        <4>1. Len(Script(s)) = 2 => Script(s)[2].call \in {"capture", "cancel"}
          BY <3>3, Shapes DEF Shape, Approved, Ask
        <4>2. Len(Script(s)) = 3 =>
                 Script(s)[3].call \in {"cancel", "cancel_part", "chargeback"}
          BY <3>3, Shapes DEF Shape, Approved, Ask
        <4>3. k # 2 /\ k # 3
          BY <1>2, <2>1, <4>1, <4>2
        <4>4. QED
          BY <3>1, <3>3, <4>3
      <3>4. QED
        BY <3>2, <3>3
    <2>3. QED
      BY <1>1, <1>2, <1>3, <1>4, <2>2 DEF PaymentOf, LastPay, Goal
  <1>5. CASE <<u, s, k>> \notin Requests
    BY <1>1, <1>2, <1>3, <1>5 DEF PaymentOf, Goal
  <1>6. QED
    BY <1>4, <1>5, <1>2

LEMMA IsRef ==
    ASSUME session \in Sessions, NEW c \in CallNames
    PROVE  RefOf(c) \in RunIds \X Scenarios \X (1 .. 3)
  <1>1. session.ids \in [Runs -> RunIds]
    BY SessionsAreRuns
  <1>2. QED
    BY <1>1, CallParts DEF RefOf, RunId

\* A run with a runId of its own has references of its own.
LEMMA RefsDiffer ==
    ASSUME OwnIds, NEW c \in CallNames, NEW d \in CallNames, RefOf(d) = RefOf(c)
    PROVE  d = c
  <1>1. RunId(d[1]) = RunId(c[1]) /\ d[2] = c[2] /\ d[3] = c[3]
    BY DEF RefOf
  <1>2. /\ c = <<c[1], c[2], c[3]>> /\ c[1] \in Runs
        /\ d = <<d[1], d[2], d[3]>> /\ d[1] \in Runs
    BY CallParts
  <1>3. d[1] = c[1]
    BY <1>1, <1>2 DEF OwnIds, HasOwnId
  <1>4. QED
    BY <1>1, <1>2, <1>3

LEMMA OwnIdsRest ==
    ASSUME OwnIds, UNCHANGED session
    PROVE  OwnIds'
  BY DEF OwnIds, HasOwnId, RunId

------------------------------------------------------------------------------
(***************************************************************************)
(* What a step leaves alone stays as the invariant has it.                 *)
(***************************************************************************)
Idle == UNCHANGED <<zoop, hooks, koin, callbacks, notices, acked, todo>>

\* Zoop, Koin and the webhooks rest: the double serves the store, and no fraud analysis.
LEMMA TypeStep ==
    ASSUME TypeOK, Idle, UNCHANGED session,
           Gw!Ledger!TypeOK' \/ UNCHANGED ledger,
           Gw!Provider!Fake!TypeOK' \/ UNCHANGED fake,
           Gw!Keys!TypeOK' \/ UNCHANGED keys,
           Gw!Wake!TypeOK' \/ UNCHANGED wake,
           Gw!Shop!TypeOK' \/ UNCHANGED ops,
           issued' \in 0 .. MaxKeys \/ UNCHANGED issued,
           run' \in [Runs -> RunState] \/ UNCHANGED run
    PROVE  TypeOK'
  <1>1. Gw!Ledger!TypeOK'
    BY DEF TypeOK, Gw!TypeOK, Gw!Ledger!TypeOK, ledger
  <1>2. Gw!Provider!BothTypeOK'
    BY DEF TypeOK, Gw!TypeOK, Gw!Provider!BothTypeOK, Gw!Provider!TypeOK,
           Gw!Provider!Fake!TypeOK, Idle
  <1>3. Gw!Risk!TypeOK'
    BY DEF TypeOK, Gw!TypeOK, Gw!Risk!TypeOK, Idle
  <1>4. Gw!Keys!TypeOK'
    BY DEF TypeOK, Gw!TypeOK, Gw!Keys!TypeOK
  <1>5. Gw!Wake!TypeOK' /\ Gw!Shop!TypeOK'
    BY DEF TypeOK, Gw!TypeOK, Gw!Wake!TypeOK, Gw!Shop!TypeOK
  <1>6. Gw!Hooks!TypeOK'
    BY DEF TypeOK, Gw!TypeOK, Gw!Hooks!TypeOK, Idle
  <1>7. QED
    BY <1>1, <1>2, <1>3, <1>4, <1>5, <1>6 DEF TypeOK, Gw!TypeOK

\* What the ledger, the double, the keys and the handler have of a payment.
Same(p) ==
    /\ wake'[p] = wake[p] /\ charges'[p] = charges[p] /\ fake'[p] = fake[p]
    /\ p \in DOMAIN payments' <=> p \in DOMAIN payments
    /\ p \in DOMAIN payments => payments'[p] = payments[p]
    /\ <<Store, RefOf(p)>> \in DOMAIN keys' <=> <<Store, RefOf(p)>> \in DOMAIN keys

LEMMA RowRests ==
    ASSUME NEW p, RowOf(p), Same(p), UNCHANGED session
    PROVE  RowOf(p)'
  BY DEF RowOf, Same, BodyOf, RefOf, RunId

LEMMA AchievedRests ==
    ASSUME NEW c, Achieved(c), Same(PaymentOf(c))
    PROVE  Achieved(c)'
  BY DEF Achieved, Same, Is, Charged

LEMMA PayRests ==
    ASSUME NEW c \in Requests, PayOf(c), Same(c)
    PROVE  PayOf(c)'
  <1>1. Achieved(c) => Achieved(c)'
    BY AchievedRests, Payment
  <1>2. QED
    BY <1>1 DEF PayOf, Same, Is, Charged, Uncharged

LEMMA OpRests ==
    ASSUME NEW o \in CallNames \ Requests, OpOf(o), ops'[o] = ops[o], Same(PaymentOf(o))
    PROVE  OpOf(o)'
  <1>1. PaymentOf(Before(o)) = PaymentOf(o)
    BY Operation
  <1>2. /\ Achieved(o) => Achieved(o)'
        /\ Achieved(Before(o)) => Achieved(Before(o))' /\ Is(PaymentOf(o), Goal(Before(o)))
    BY <1>1, AchievedRests DEF Achieved
  <1>3. ops[o].pc = "zoop" =>
            Gw!Shop!ActionFor(o, PaymentOf(o))' = Gw!Shop!ActionFor(o, PaymentOf(o))
    BY <1>2 DEF OpOf, Is, Same, Gw!Shop!ActionFor
  <1>4. QED
    BY <1>1, <1>2, <1>3 DEF OpOf, Same, Is, Charged

LEMMA PlaceOf ==
    ASSUME TypeOK, NEW u \in Runs
    PROVE  /\ run[u] \in RunState /\ Len(run[u].reports) \in Nat
           /\ session \in Sessions /\ Plan \in Seq(Scenarios)
           /\ \A i, j \in DOMAIN Plan : Plan[i] = Plan[j] => i = j
           /\ Len(run[u].reports) < Len(Plan) => Scenario(u) \in Scenarios
  <1>1. run[u] \in RunState /\ session \in Sessions
    BY DEF TypeOK
  <1>2. Len(run[u].reports) \in Nat
    BY <1>1 DEF RunState
  <1>3. Plan \in Seq(Scenarios) /\ \A i, j \in DOMAIN Plan : Plan[i] = Plan[j] => i = j
    BY <1>1, SessionsAreRuns DEF Plan
  <1>4. Len(run[u].reports) < Len(Plan) => Scenario(u) \in Scenarios
    BY <1>2, <1>3 DEF Scenario
  <1>5. QED
    BY <1>1, <1>2, <1>3, <1>4

\* A run nobody works for.
LEMMA RunRests ==
    ASSUME TypeOK, NEW u \in Runs, RunOf(u), run'[u] = run[u], UNCHANGED session,
           issued' \in Nat, issued' >= issued,
           \A p \in Requests : p[1] = u => Same(p),
           \A o \in CallNames \ Requests : o[1] = u => ops'[o] = ops[o]
    PROVE  RunOf(u)'
  <1>1. Scenario(u)' = Scenario(u) /\ Current(u)' = Current(u) /\ Reached(u)' = Reached(u)
        /\ Plan' = Plan
    BY DEF Scenario, Current, Reached, Plan
  <1>2. \A c \in CallsOf(u) : Pc(c)' = Pc(c) /\ (Ahead(u, c)' <=> Ahead(u, c))
    BY <1>1 DEF CallsOf, Pc, Same, Ahead
  <1>3. ASSUME run[u].pc = "wait"
        PROVE  (IF Current(u) \in Requests THEN PayOf(Current(u)) ELSE OpOf(Current(u)))'
    <2>1. PICK c \in CallNames : c = Current(u)
      BY <1>3 DEF RunOf
    <2>2. c[1] = u /\ PaymentOf(c) \in Requests /\ PaymentOf(c)[1] = u
      BY <2>1, PaymentOfCall DEF Current
    <2>3. Current(u)' = c
      BY <1>1, <2>1
    <2>4. CASE c \in Requests
      <3>1. PayOf(c)'
        BY <1>3, <2>1, <2>2, <2>4, PayRests DEF RunOf
      <3>2. QED
        BY <2>3, <2>4, <3>1
    <2>5. CASE c \notin Requests
      <3>1. OpOf(c)'
        BY <1>3, <2>1, <2>2, <2>5, OpRests DEF RunOf
      <3>2. QED
        BY <2>3, <2>5, <3>1
    <2>6. QED
      BY <2>4, <2>5
  <1>4. run[u].pc = "issue" /\ run[u].step > 1 => Achieved(Before(Current(u)))'
    <2> SUFFICES ASSUME run[u].pc = "issue", run[u].step > 1
                 PROVE  Achieved(Before(Current(u)))'
      OBVIOUS
    <2>1. Achieved(Before(Current(u))) /\ Len(run[u].reports) < Len(Plan)
          /\ run[u].step <= Len(Script(Scenario(u))) + 1
      BY DEF RunOf, Alive
    <2>2. PICK k \in 1 .. 4, s \in Scenarios : k = run[u].step /\ s = Scenario(u)
      BY <2>1, PlaceOf DEF RunState
    <2>3. Before(Current(u)) = <<u, s, k - 1>>
      BY <2>2 DEF Before, Current
    <2>4. <<u, s, k - 1>> \in CallNames
      <3>1. PICK n \in 1 .. 3 : n = Len(Script(s))
        BY LastCall
      <3>2. k - 1 \in Nat /\ k - 1 >= 1 /\ k - 1 <= n
        BY <2>1, <2>2, <3>1
      <3>3. QED
        BY <3>1, <3>2, IsCall
    <2>5. PICK c \in CallNames : c = Before(Current(u)) /\ c[1] = u
      BY <2>3, <2>4
    <2>6. Same(PaymentOf(c))
      BY <2>5, PaymentOfCall
    <2>7. Achieved(c)'
      BY <2>1, <2>5, <2>6, AchievedRests
    <2>8. Before(Current(u))' = c
      BY <1>1, <2>5 DEF Before
    <2>9. QED
      BY <2>7, <2>8
  <1>5. run[u].key \in Nat /\ issued \in Nat
    BY SomeKey DEF TypeOK, RunState
  <1>6. \A i \in DOMAIN run[u].reports :
           IF run[u].reports[i].ok THEN run[u].reports[i].finalStatus = Expected(Plan[i])
                                   ELSE run[u].key < issued'
    BY <1>5 DEF RunOf
  <1>7. QED
    BY <1>1, <1>2, <1>3, <1>4, <1>5, <1>6 DEF RunOf, Alive

\* Whoever is at work is the call its run waits for.
LEMMA Busy ==
    ASSUME HomologInv, NEW c \in CallNames, Pc(c) \notin {"unsent", "done", "failed"}
    PROVE  /\ run[c[1]].pc = "wait" /\ c = Current(c[1]) /\ c[1] \in Runs
           /\ IF c \in Requests THEN PayOf(c) ELSE OpOf(c)
  <1>1. PICK u \in Runs : u = c[1]
    BY CallParts
  <1>2. RunOf(u) /\ c \in CallsOf(u)
    BY <1>1 DEF HomologInv, CallsOf
  <1>3. run[u].pc = "wait" /\ c = Current(u)
    BY <1>2 DEF RunOf
  <1>4. IF Current(u) \in Requests THEN PayOf(Current(u)) ELSE OpOf(Current(u))
    BY <1>2, <1>3 DEF RunOf
  <1>5. QED
    BY <1>1, <1>3, <1>4

\* A step of a call leaves alone what is not the call's.
Lone(c) ==
    /\ \A p \in Requests \ {PaymentOf(c)} : Same(p)
    /\ \A o \in Ops \ {c} : ops'[o] = ops[o]
    /\ c \notin Requests => wake'[PaymentOf(c)] = wake[PaymentOf(c)]

LEMMA LateIsNoCall == LateOps \cap CallNames = {}
  BY CallParts, RunsAreNamed DEF LateOps

LEMMA WorkStep ==
    ASSUME HomologInv, TypeOK', NEW c \in CallNames, run[c[1]].pc = "wait",
           c = Current(c[1]), UNCHANGED <<issued, run, session>>, Lone(c),
           RowOf(PaymentOf(c))',
           (c \in Requests /\ PayOf(c)') \/ (c \notin Requests /\ OpOf(c)')
    PROVE  HomologInv'
  <1>1. PICK u \in Runs : u = c[1]
    BY CallParts
  <1>2. PaymentOf(c) \in Requests /\ PaymentOf(c)[1] = u
    BY <1>1, PaymentOfCall
  <1>3. \A p \in Requests : RowOf(p)'
    BY RowRests DEF HomologInv, Lone
  <1>4. TypeOK /\ RunOf(u)
    BY DEF HomologInv
  <1>5. \A o \in CallNames \ Requests : o # c => ops'[o] = ops[o]
    BY DEF Lone, Ops
  <1>6. ASSUME NEW v \in Runs, v # u
        PROVE  RunOf(v)'
    <2>1. RunOf(v) /\ TypeOK
      BY DEF HomologInv
    <2>2. issued' \in Nat /\ issued' >= issued
      BY <2>1, SomeKey DEF TypeOK
    <2>3. \A p \in Requests : p[1] = v => Same(p)
      BY <1>2, <1>6 DEF Lone
    <2>4. \A o \in CallNames \ Requests : o[1] = v => ops'[o] = ops[o]
      BY <1>1, <1>5, <1>6
    <2>5. QED
      BY <2>1, <2>2, <2>3, <2>4, RunRests
  <1>7. RunOf(u)'
    <2>1. Scenario(u)' = Scenario(u) /\ Current(u)' = Current(u) /\ Reached(u)' = Reached(u)
          /\ Plan' = Plan
      BY DEF Scenario, Current, Reached, Plan
    <2>2. \A d \in CallsOf(u) : d # c => Pc(d)' = Pc(d)
      <3> SUFFICES ASSUME NEW d \in CallNames, d # c
                   PROVE  Pc(d)' = Pc(d)
        BY DEF CallsOf
      <3>1. CASE d \in Requests
        <4>1. d = PaymentOf(c) => c \notin Requests
          BY Payment
        <4>2. wake'[d] = wake[d]
          BY <3>1, <4>1 DEF Lone, Same
        <4>3. QED
          BY <3>1, <4>2 DEF Pc
      <3>2. CASE d \notin Requests
        BY <1>5, <3>2 DEF Pc
      <3>3. QED
        BY <3>1, <3>2
    <2>3. \A d : Ahead(u, d)' <=> Ahead(u, d)
      BY <2>1 DEF Ahead
    <2>4. ~Ahead(u, c)
      <3>1. PICK n \in Nat : n = Len(run[u].reports)
        BY <1>4, PlaceOf
      <3>2. Scenario(u) \in Reached(u)
        <4>1. n + 1 \in 1 .. n + 1
          OBVIOUS
        <4>2. QED
          BY <3>1, <4>1 DEF Scenario, Reached
      <3>3. c[2] = Scenario(u) /\ c[3] = run[u].step /\ run[u].step \in Nat
        BY <1>1, <1>4, PlaceOf DEF Current, RunState
      <3>4. QED
        BY <1>1, <3>2, <3>3 DEF Ahead
    <2>5. Current(u)' = c
      BY <1>1, <2>1
    <2>6. (IF Current(u) \in Requests THEN PayOf(Current(u)) ELSE OpOf(Current(u)))'
      BY <2>5
    <2>7. \A d \in CallsOf(u) :
             /\ run'[u].pc = "new" \/ (Alive(u)' /\ Ahead(u, d)') => Pc(d)' = "unsent"
             /\ Pc(d)' \notin {"unsent", "done", "failed"} =>
                    run'[u].pc = "wait" /\ d = Current(u)'
      <3> TAKE d \in CallsOf(u)
      <3>1. CASE d = c
        BY <1>1, <2>3, <2>4, <2>5, <3>1
      <3>2. CASE d # c
        BY <1>1, <1>4, <2>1, <2>2, <2>3, <3>2 DEF RunOf, Alive
      <3>3. QED
        BY <3>1, <3>2
    <2>8. QED
      BY <1>1, <1>4, <2>1, <2>5, <2>6, <2>7 DEF RunOf, Alive
  <1>8. ASSUME NEW o \in LateOps
        PROVE  LateOf(o)'
    <2>1. LateOf(o) /\ ops'[o] = ops[o]
      BY LateIsNoCall DEF HomologInv, Lone, Ops
    <2>2. ops[o].pc \in {"zoop", "move", "notify"} => Same(ops[o].p)
      <3>1. ops[o].p \in Requests
        BY DEF HomologInv, TypeOK, Gw!TypeOK, Gw!Shop!TypeOK, Gw!Shop!OpState,
               Gw!PaymentIds, Ops
      <3>2. ops[o].pc \in {"zoop", "move", "notify"} => ops[o].p # PaymentOf(c)
        BY <1>1, <1>2, <2>1 DEF LateOf
      <3>3. QED
        BY <3>1, <3>2 DEF Lone
    <2>3. QED
      BY <2>1, <2>2 DEF LateOf, Same
  <1>9. QED
    BY <1>3, <1>6, <1>7, <1>8, OwnIdsRest DEF HomologInv

------------------------------------------------------------------------------
(***************************************************************************)
(* The operations of the ledger.                                           *)
(***************************************************************************)
LEMMA AllowedMoves ==
    LET Scripted == {<<"created", "approved_risk">>, <<"approved_risk", "refused">>,
                     <<"approved_risk", "authorized">>,
                     <<"approved_risk", "waiting_payment">>,
                     <<"authorized", "captured">>, <<"authorized", "cancelled">>,
                     <<"captured", "refunded">>, <<"captured", "chargeback">>} IN
    \A m \in Scripted : /\ Gw!Wake!Ledger!CanTransition(m[1], m[2])
                        /\ Gw!Shop!Ledger!CanTransition(m[1], m[2])
  BY DEF Gw!Wake!Ledger!CanTransition, Gw!Shop!Ledger!CanTransition,
         Gw!Wake!Ledger!AllowedTransitions, Gw!Shop!Ledger!AllowedTransitions,
         Gw!Wake!Ledger!Statuses, Gw!Shop!Ledger!Statuses

LEMMA RowTypes ==
    ASSUME TypeOK, NEW p \in DOMAIN payments
    PROVE  /\ p \in Requests /\ payments[p] \in Gw!Ledger!PaymentRow
           /\ payments[p].status \in Statuses /\ payments[p].store \in {Store}
  BY DEF TypeOK, Gw!TypeOK, Gw!Ledger!TypeOK, Gw!Ledger!PaymentRow, Gw!Ledger!Statuses,
         Statuses, Gw!PaymentIds

\* transition(), for whichever handler.
LEMMA TransitionDoes ==
    ASSUME TypeOK, NEW p \in DOMAIN payments, NEW to \in Statuses,
           payments' = [payments EXCEPT ![p].status = to],
           events' = [events EXCEPT ![p] = Append(@, Gw!Ledger!EventOf(p, to))],
           outbox' = [outbox EXCEPT ![p] =
                         Append(@, [store |-> payments[p].store, type |-> to])],
           UNCHANGED charges
    PROVE  /\ Gw!Ledger!TypeOK' /\ DOMAIN payments' = DOMAIN payments
           /\ payments'[p].status = to /\ payments'[p].store = payments[p].store
           /\ payments'[p].ref = payments[p].ref
           /\ \A q \in DOMAIN payments \ {p} : payments'[q] = payments[q]
  <1>1. /\ p \in Requests /\ payments[p] \in Gw!Ledger!PaymentRow
        /\ to \in Gw!Ledger!Statuses /\ payments[p].status \in Gw!Ledger!Statuses
        /\ payments[p].store \in {Store}
    BY RowTypes DEF Gw!Ledger!Statuses, Statuses
  <1>2. /\ payments \in [DOMAIN payments -> Gw!Ledger!PaymentRow]
        /\ DOMAIN payments \subseteq Gw!PaymentIds
        /\ events \in [Gw!PaymentIds -> Seq(Gw!Ledger!EventRow)]
        /\ outbox \in [Gw!PaymentIds -> Seq(Gw!Ledger!OutboxRow)]
        /\ charges \in [Gw!PaymentIds -> Seq(Gw!Ledger!ChargeRow)]
    BY DEF TypeOK, Gw!TypeOK, Gw!Ledger!TypeOK
  <1> DEFINE row == [payments[p] EXCEPT !.status = to]
  <1>3. /\ row \in Gw!Ledger!PaymentRow /\ row.status = to
        /\ row.store = payments[p].store /\ row.ref = payments[p].ref
    BY <1>1 DEF Gw!Ledger!PaymentRow
  <1>4. payments' = [payments EXCEPT ![p] = row]
    OBVIOUS
  <1> HIDE DEF row
  <1>5. /\ DOMAIN payments' = DOMAIN payments /\ payments'[p] = row
        /\ \A q \in DOMAIN payments \ {p} : payments'[q] = payments[q]
    BY <1>2, <1>4
  <1>6. payments' \in [DOMAIN payments -> Gw!Ledger!PaymentRow]
    BY <1>2, <1>3, <1>4
  <1>7. Gw!Ledger!EventOf(p, to) \in Gw!Ledger!EventRow
    BY <1>1 DEF Gw!Ledger!EventOf, Gw!Ledger!EventRow
  <1>8. events' \in [Gw!PaymentIds -> Seq(Gw!Ledger!EventRow)]
    BY <1>1, <1>2, <1>7 DEF Gw!PaymentIds
  <1>9. [store |-> payments[p].store, type |-> to] \in Gw!Ledger!OutboxRow
    BY <1>1 DEF Gw!Ledger!OutboxRow
  <1>10. outbox' \in [Gw!PaymentIds -> Seq(Gw!Ledger!OutboxRow)]
    BY <1>1, <1>2, <1>9 DEF Gw!PaymentIds
  <1>11. charges' \in [Gw!PaymentIds -> Seq(Gw!Ledger!ChargeRow)]
    BY <1>2
  <1>12. Gw!Ledger!TypeOK'
    BY <1>2, <1>5, <1>6, <1>8, <1>10, <1>11 DEF Gw!Ledger!TypeOK
  <1>13. QED
    BY <1>3, <1>5, <1>12

\* The payments of a status it can leave are moved, and no other.
LEMMA WakeTransition ==
    ASSUME TypeOK, NEW c \in Requests, NEW to \in Statuses,
           Gw!Wake!Ledger!Transition(c, Store, to)
    PROVE  /\ c \in DOMAIN payments /\ Gw!Ledger!TypeOK'
           /\ DOMAIN payments' = DOMAIN payments /\ payments'[c].status = to
           /\ payments'[c].store = payments[c].store /\ payments'[c].ref = payments[c].ref
           /\ \A q \in DOMAIN payments \ {c} : payments'[q] = payments[q]
           /\ UNCHANGED charges
  <1>1. c \in DOMAIN payments
    BY DEF Gw!Wake!Ledger!Transition, Gw!Wake!Ledger!CanMove, Gw!Wake!Ledger!InScope,
           Gw!Wake!Ledger!Exists
  <1>2. /\ payments' = [payments EXCEPT ![c].status = to]
        /\ events' = [events EXCEPT ![c] = Append(@, Gw!Ledger!EventOf(c, to))]
        /\ outbox' = [outbox EXCEPT ![c] =
                         Append(@, [store |-> payments[c].store, type |-> to])]
        /\ UNCHANGED charges
    BY DEF Gw!Wake!Ledger!Transition, Gw!Wake!Ledger!EventOf, Gw!Ledger!EventOf
  <1>3. QED
    BY <1>1, <1>2, TransitionDoes

LEMMA ShopTransition ==
    ASSUME TypeOK, NEW p, NEW s, NEW to \in Statuses,
           Gw!Shop!Ledger!Transition(p, s, to)
    PROVE  /\ p \in DOMAIN payments /\ Gw!Ledger!TypeOK'
           /\ DOMAIN payments' = DOMAIN payments /\ payments'[p].status = to
           /\ payments'[p].store = payments[p].store /\ payments'[p].ref = payments[p].ref
           /\ \A q \in DOMAIN payments \ {p} : payments'[q] = payments[q]
           /\ UNCHANGED charges
  <1>1. p \in DOMAIN payments
    BY DEF Gw!Shop!Ledger!Transition, Gw!Shop!Ledger!CanMove, Gw!Shop!Ledger!InScope,
           Gw!Shop!Ledger!Exists
  <1>2. /\ payments' = [payments EXCEPT ![p].status = to]
        /\ events' = [events EXCEPT ![p] = Append(@, Gw!Ledger!EventOf(p, to))]
        /\ outbox' = [outbox EXCEPT ![p] =
                         Append(@, [store |-> payments[p].store, type |-> to])]
        /\ UNCHANGED charges
    BY DEF Gw!Shop!Ledger!Transition, Gw!Shop!Ledger!EventOf, Gw!Ledger!EventOf
  <1>3. QED
    BY <1>1, <1>2, TransitionDoes

------------------------------------------------------------------------------
(***************************************************************************)
(* Steps of a payment.                                                     *)
(***************************************************************************)
OnlyRequest(c) ==
    /\ wake'[c].body = wake[c].body
    /\ \A q \in Requests \ {c} : wake'[q] = wake[q]

LEMMA GotoDoes ==
    ASSUME TypeOK, NEW c \in Requests, NEW pc \in Gw!Wake!Pcs, Gw!Wake!Goto(c, pc)
    PROVE  /\ Gw!Wake!TypeOK' /\ OnlyRequest(c)
           /\ wake'[c].pc = pc /\ wake'[c].resp = wake[c].resp
           /\ wake'[c].answer = wake[c].answer
  <1>1. wake \in [Requests -> Gw!Wake!RequestState]
    BY DEF TypeOK, Gw!TypeOK, Gw!Wake!TypeOK
  <1> DEFINE w == [wake[c] EXCEPT !.pc = pc]
  <1>2. /\ w \in Gw!Wake!RequestState /\ w.pc = pc /\ w.resp = wake[c].resp
        /\ w.answer = wake[c].answer /\ w.body = wake[c].body
    BY <1>1 DEF Gw!Wake!RequestState
  <1>3. wake' = [wake EXCEPT ![c] = w]
    BY DEF Gw!Wake!Goto
  <1> HIDE DEF w
  <1>4. QED
    BY <1>1, <1>2, <1>3 DEF Gw!Wake!TypeOK, OnlyRequest

LEMMA GotoMoveDoes ==
    ASSUME TypeOK, NEW c \in Requests, NEW to \in Statuses,
           NEW resp \in Gw!Wake!Response \cup {NoResponse}, Gw!Wake!GotoMove(c, to, resp)
    PROVE  /\ Gw!Wake!TypeOK' /\ OnlyRequest(c)
           /\ wake'[c].pc = "move" /\ wake'[c].to = to /\ wake'[c].resp = resp
  <1>1. wake \in [Requests -> Gw!Wake!RequestState] /\ to \in Gw!Wake!Statuses
    BY DEF TypeOK, Gw!TypeOK, Gw!Wake!TypeOK, Gw!Wake!Statuses, Statuses
  <1> DEFINE w == [wake[c] EXCEPT !.pc = "move", !.to = to, !.resp = resp]
  <1>2. /\ w \in Gw!Wake!RequestState /\ w.pc = "move" /\ w.to = to /\ w.resp = resp
        /\ w.body = wake[c].body
    BY <1>1 DEF Gw!Wake!RequestState, Gw!Wake!Pcs
  <1>3. wake' = [wake EXCEPT ![c] = w]
    BY <1>1 DEF Gw!Wake!GotoMove
  <1> HIDE DEF w
  <1>4. QED
    BY <1>1, <1>2, <1>3 DEF Gw!Wake!TypeOK, OnlyRequest

\* What a payment at work knows of itself: it is of the double's store, which has no
\* fraud analysis.
LEMMA AtWork ==
    ASSUME HomologInv, NEW c \in Requests, wake[c].pc \notin {"unsent", "done", "failed"}
    PROVE  /\ TypeOK /\ RowOf(c) /\ PayOf(c) /\ c \in CallNames /\ PaymentOf(c) = c
           /\ run[c[1]].pc = "wait" /\ c = Current(c[1])
           /\ wake[c] \in Gw!Wake!RequestState /\ wake[c].body = BodyOf(c)
           /\ Gw!Wake!StoreOf(c) = Store /\ Gw!Wake!RefOf(c) = RefOf(c)
           /\ Gw!Wake!MethodOf(c) = CallAt(c).method /\ Gw!Wake!Faked(c)
           /\ \A s : ~Gw!Wake!Risk!UsesKoin(s)
  <1>1. /\ TypeOK /\ RowOf(c) /\ c \in CallNames /\ PaymentOf(c) = c
        /\ wake[c] \in Gw!Wake!RequestState
    BY Payment DEF HomologInv, TypeOK, Gw!TypeOK, Gw!Wake!TypeOK
  <1>2. run[c[1]].pc = "wait" /\ c = Current(c[1]) /\ PayOf(c)
    BY <1>1, Busy DEF Pc
  <1>3. wake[c].body = BodyOf(c)
    BY <1>1 DEF RowOf
  <1>4. /\ Gw!Wake!StoreOf(c) = Store /\ Gw!Wake!RefOf(c) = RefOf(c)
        /\ Gw!Wake!MethodOf(c) = CallAt(c).method /\ Gw!Wake!Faked(c)
    BY <1>3 DEF Gw!Wake!StoreOf, Gw!Wake!RefOf, Gw!Wake!MethodOf, Gw!Wake!Faked, BodyOf
  <1>5. \A s : ~Gw!Wake!Risk!UsesKoin(s)
    BY DEF Gw!Wake!Risk!UsesKoin
  <1>6. QED
    BY <1>1, <1>2, <1>3, <1>4, <1>5

\* What a step of a payment leaves to show.
LEMMA Working ==
    ASSUME HomologInv, NEW c \in Requests, wake[c].pc \notin {"unsent", "done", "failed"},
           Idle, UNCHANGED <<ops, issued, run, session>>, Gw!Wake!TypeOK', OnlyRequest(c),
           Gw!Ledger!TypeOK' \/ UNCHANGED ledger,
           Gw!Provider!Fake!TypeOK' \/ UNCHANGED fake,
           Gw!Keys!TypeOK' \/ UNCHANGED keys,
           \A q \in Requests \ {c} :
               /\ charges'[q] = charges[q] /\ fake'[q] = fake[q]
               /\ q \in DOMAIN payments' <=> q \in DOMAIN payments
               /\ q \in DOMAIN payments => payments'[q] = payments[q]
               /\ <<Store, RefOf(q)>> \in DOMAIN keys' <=> <<Store, RefOf(q)>> \in DOMAIN keys,
           RowOf(c)', PayOf(c)'
    PROVE  HomologInv'
  <1>1. TypeOK'
    BY TypeStep DEF HomologInv
  <1>2. PaymentOf(c) = c /\ c \in CallNames
    BY Payment
  <1>3. Lone(c)
    BY <1>2 DEF Lone, Same, OnlyRequest
  <1>4. QED
    BY <1>1, <1>2, <1>3, AtWork, WorkStep

LEMMA FindKeyKeeps ==
    ASSUME HomologInv, NEW c \in Requests, Gw!Wake!FindKey(c), UNCHANGED <<ops, Rest>>
    PROVE  HomologInv'
  <1>1. wake[c].pc = "find" /\ UNCHANGED <<ledger, keys, providerVars, koinVars>>
    BY DEF Gw!Wake!FindKey, Gw!Wake!At, Gw!Wake!ledger, Gw!Wake!providerVars,
           Gw!Wake!koinVars, ledger, providerVars, koinVars
  <1>2. /\ TypeOK /\ RowOf(c) /\ Gw!Wake!StoreOf(c) = Store /\ Gw!Wake!RefOf(c) = RefOf(c)
    BY <1>1, AtWork
  <1>3. <<Store, RefOf(c)>> \notin DOMAIN keys
    BY <1>1, <1>2 DEF RowOf
  <1>4. Gw!Wake!Goto(c, "insert")
    BY <1>2, <1>3 DEF Gw!Wake!FindKey, Gw!Wake!Keys!Known
  <1>5. Gw!Wake!TypeOK' /\ OnlyRequest(c) /\ wake'[c].pc = "insert"
    BY <1>2, <1>4, GotoDoes DEF Gw!Wake!Pcs
  <1>6. RowOf(c)'
    BY <1>1, <1>2, <1>3, <1>5
    DEF RowOf, OnlyRequest, NotCreated, BodyOf, RefOf, RunId, Rest, ledger, providerVars
  <1>7. PayOf(c)'
    BY <1>5 DEF PayOf
  <1>8. QED
    BY <1>1, <1>5, <1>6, <1>7, Working DEF Rest, Idle, ledger, providerVars, koinVars

LEMMA InsertKeyKeeps ==
    ASSUME HomologInv, NEW c \in Requests, Gw!Wake!InsertKey(c), UNCHANGED <<ops, Rest>>
    PROVE  HomologInv'
  <1>1. wake[c].pc = "insert" /\ UNCHANGED <<ledger, providerVars, koinVars>>
    BY DEF Gw!Wake!InsertKey, Gw!Wake!At, Gw!Wake!ledger, Gw!Wake!providerVars,
           Gw!Wake!koinVars, ledger, providerVars, koinVars
  <1>2. /\ TypeOK /\ RowOf(c) /\ Gw!Wake!StoreOf(c) = Store /\ Gw!Wake!RefOf(c) = RefOf(c)
        /\ wake[c].body = BodyOf(c)
    BY <1>1, AtWork
  <1>3. <<Store, RefOf(c)>> \notin DOMAIN keys
    BY <1>1, <1>2 DEF RowOf
  <1>4. /\ Gw!Wake!Goto(c, "create")
        /\ keys' = [x \in DOMAIN keys \cup {<<Store, RefOf(c)>>} |->
                       IF x = <<Store, RefOf(c)>>
                       THEN [hash |-> wake[c].body.hash, response |-> NoResponse]
                       ELSE keys[x]]
    BY <1>2, <1>3 DEF Gw!Wake!InsertKey, Gw!Wake!Keys!CanInsert, Gw!Wake!Keys!Known,
                      Gw!Wake!Keys!Insert
  <1>5. Gw!Wake!TypeOK' /\ OnlyRequest(c) /\ wake'[c].pc = "create"
    BY <1>2, <1>4, GotoDoes DEF Gw!Wake!Pcs
  <1>6. RowOf(c)'
    BY <1>1, <1>2, <1>5
    DEF RowOf, OnlyRequest, NotCreated, BodyOf, RefOf, RunId, Rest, ledger, providerVars
  <1>7. PayOf(c)'
    BY <1>5 DEF PayOf
  <1>8. [hash |-> wake[c].body.hash, response |-> NoResponse] \in Gw!Keys!KeyRow
    BY <1>2 DEF Gw!Keys!KeyRow, BodyOf
  <1>9. Gw!Keys!TypeOK'
    <2>1. RefOf(c) \in RunIds \X Scenarios \X (1 .. 3)
      BY <1>2, Payment, IsRef DEF TypeOK
    <2>2. QED
      BY <1>2, <1>4, <1>8, <2>1 DEF TypeOK, Gw!TypeOK, Gw!Keys!TypeOK
  <1>10. \A q \in Requests \ {c} :
            <<Store, RefOf(q)>> \in DOMAIN keys' <=> <<Store, RefOf(q)>> \in DOMAIN keys
    BY <1>4, Payment, RefsDiffer DEF HomologInv
  <1>11. QED
    BY <1>1, <1>5, <1>6, <1>7, <1>9, <1>10, Working
    DEF Rest, Idle, ledger, providerVars, koinVars

LEMMA CreateKeeps ==
    ASSUME HomologInv, NEW c \in Requests, Gw!Wake!CreatePayment(c), UNCHANGED <<ops, Rest>>
    PROVE  HomologInv'
  <1>1. wake[c].pc = "create" /\ UNCHANGED <<keys, providerVars, koinVars>>
    BY DEF Gw!Wake!CreatePayment, Gw!Wake!At, Gw!Wake!providerVars,
           Gw!Wake!koinVars, providerVars, koinVars
  <1>2. /\ TypeOK /\ RowOf(c) /\ Gw!Wake!StoreOf(c) = Store /\ Gw!Wake!RefOf(c) = RefOf(c)
        /\ \A s : ~Gw!Wake!Risk!UsesKoin(s)
    BY <1>1, AtWork
  <1>3. c \notin DOMAIN payments /\ charges[c] = <<>> /\ fake[c] = <<>>
    BY <1>1, <1>2 DEF RowOf, NotCreated
  <1>4. Gw!Wake!Ledger!CanCreate(Store, RefOf(c))
    <2>1. \A p \in DOMAIN payments : p \in Requests /\ payments[p].ref = RefOf(p)
      BY <1>2, RowTypes DEF HomologInv, RowOf
    <2>2. \A p \in DOMAIN payments : payments[p].ref # RefOf(c)
      BY <1>3, <2>1, Payment, RefsDiffer DEF HomologInv
    <2>3. QED
      BY <2>2 DEF Gw!Wake!Ledger!CanCreate, Gw!Wake!Ledger!FindByExternalRef
  <1> DEFINE row == [store |-> Store, ref |-> RefOf(c), status |-> "created", instrument |-> "none"]
  <1>5. /\ Gw!Wake!Goto(c, "evaluate") /\ UNCHANGED <<events, outbox, charges>>
        /\ payments' = [q \in DOMAIN payments \cup {c} |->
                           IF q = c THEN row ELSE payments[q]]
    BY <1>2, <1>4 DEF Gw!Wake!CreatePayment, Gw!Wake!PreEvaluates, Gw!Wake!Ledger!Create,
                      Gw!Wake!Ledger!InitialStatus
  <1>6. row \in Gw!Ledger!PaymentRow /\ row.store = Store
        /\ row.ref = RefOf(c) /\ row.status = "created"
    BY <1>2, Payment, IsRef
    DEF TypeOK, Gw!Ledger!PaymentRow, Gw!Ledger!Statuses, Gw!Ledger!Instruments
  <1> HIDE DEF row
  <1>7. Gw!Ledger!TypeOK'
    BY <1>2, <1>5, <1>6 DEF TypeOK, Gw!TypeOK, Gw!Ledger!TypeOK, Gw!PaymentIds
  <1>8. Gw!Wake!TypeOK' /\ OnlyRequest(c) /\ wake'[c].pc = "evaluate"
    BY <1>2, <1>5, GotoDoes DEF Gw!Wake!Pcs
  <1>9. /\ c \in DOMAIN payments' /\ payments'[c] = row
        /\ \A q \in DOMAIN payments : payments'[q] = payments[q]
        /\ \A q \in Requests \ {c} : q \in DOMAIN payments' <=> q \in DOMAIN payments
    BY <1>3, <1>5
  <1>10. RowOf(c)'
    BY <1>1, <1>2, <1>3, <1>5, <1>6, <1>8, <1>9
    DEF RowOf, OnlyRequest, NotCreated, BodyOf, RefOf, RunId, Rest, providerVars
  <1>11. PayOf(c)'
    BY <1>1, <1>3, <1>5, <1>6, <1>8, <1>9 DEF PayOf, Is, Uncharged, providerVars
  <1>12. QED
    BY <1>1, <1>5, <1>7, <1>8, <1>9, <1>10, <1>11, Working
    DEF Rest, Idle, providerVars, koinVars

LEMMA EvaluateKeeps ==
    ASSUME HomologInv, NEW c \in Requests, Gw!Wake!EvaluateRisk(c), UNCHANGED <<ops, Rest>>
    PROVE  HomologInv'
  <1>1. wake[c].pc = "evaluate" /\ UNCHANGED <<ledger, keys, providerVars>>
    BY DEF Gw!Wake!EvaluateRisk, Gw!Wake!At, Gw!Wake!ledger, Gw!Wake!providerVars,
           ledger, providerVars
  <1>2. /\ TypeOK /\ RowOf(c) /\ PayOf(c) /\ \A s : ~Gw!Wake!Risk!UsesKoin(s)
    BY <1>1, AtWork
  <1>3. UNCHANGED <<koin, callbacks, notices>> /\ Gw!Wake!StatusAfter("approved") = "approved_risk"
        /\ Gw!Wake!GotoMove(c, "approved_risk", NoResponse)
    BY <1>2 DEF Gw!Wake!EvaluateRisk, Gw!Wake!Risk!Evaluate, Gw!Wake!Risk!vars,
                Gw!Wake!StatusAfter
  <1>4. Gw!Wake!TypeOK' /\ OnlyRequest(c) /\ wake'[c].pc = "move"
        /\ wake'[c].to = "approved_risk"
    BY <1>2, <1>3, GotoMoveDoes DEF Statuses
  <1>5. RowOf(c)'
    BY <1>1, <1>2, <1>4
    DEF RowOf, OnlyRequest, NotCreated, BodyOf, RefOf, RunId, Rest, ledger, providerVars
  <1>6. PayOf(c)'
    BY <1>1, <1>2, <1>4 DEF PayOf, Is, Uncharged, ledger, providerVars
  <1>7. QED
    BY <1>1, <1>3, <1>4, <1>5, <1>6, Working DEF Rest, Idle, ledger, providerVars

LEMMA MoveKeeps ==
    ASSUME HomologInv, NEW c \in Requests, Gw!Wake!Move(c), UNCHANGED <<ops, Rest>>
    PROVE  HomologInv'
  <1> DEFINE to == wake[c].to  goal == Goal(c)
  <1>1. wake[c].pc = "move" /\ UNCHANGED <<keys, providerVars, koinVars>>
    BY DEF Gw!Wake!Move, Gw!Wake!At, Gw!Wake!providerVars, Gw!Wake!koinVars,
           providerVars, koinVars
  <1>2. /\ TypeOK /\ RowOf(c) /\ PayOf(c) /\ Gw!Wake!StoreOf(c) = Store /\ PaymentOf(c) = c
        /\ wake[c].body = BodyOf(c)
    BY <1>1, AtWork
  <1>3. goal \in {"authorized", "refused", "waiting_payment"}
    BY Payment
  <1>4. \/ to = "approved_risk" /\ Is(c, "created") /\ Uncharged(c)
        \/ /\ to = goal /\ Is(c, "approved_risk") /\ Charged(c, FakeOf(goal))
           /\ wake[c].resp # Gw!Wake!Say(5)
           /\ goal = "authorized" => wake[c].resp.statusId = 1
    BY <1>1, <1>2 DEF PayOf
  <1> HIDE DEF to, goal
  <1>5. to \in Statuses /\ c \in DOMAIN payments /\ payments[c].store = Store
    BY <1>2, <1>3, <1>4 DEF Statuses, Is, RowOf
  <1>6. Gw!Wake!Ledger!CanTransition(payments[c].status, to)
    BY <1>3, <1>4, AllowedMoves DEF Is
  <1>7. Gw!Wake!Ledger!Transition(c, Store, to) /\ Gw!Wake!Goto(c, Gw!Wake!AfterMove(c))
    BY <1>2, <1>5, <1>6 DEF Gw!Wake!Move, Gw!Wake!Ledger!CanMove, Gw!Wake!Ledger!InScope,
                            Gw!Wake!Ledger!Exists, to
  <1>8. Gw!Wake!AfterMove(c) = IF to = "approved_risk" THEN "charge" ELSE "save"
    BY <1>3, <1>4 DEF Gw!Wake!AfterMove, to
  <1>9. /\ Gw!Wake!TypeOK' /\ OnlyRequest(c) /\ wake'[c].resp = wake[c].resp
        /\ wake'[c].pc = IF to = "approved_risk" THEN "charge" ELSE "save"
    BY <1>2, <1>7, <1>8, GotoDoes DEF Gw!Wake!Pcs
  <1>10. /\ Gw!Ledger!TypeOK' /\ DOMAIN payments' = DOMAIN payments
         /\ payments'[c].status = to /\ payments'[c].store = payments[c].store
         /\ payments'[c].ref = payments[c].ref /\ UNCHANGED charges
         /\ \A q \in DOMAIN payments \ {c} : payments'[q] = payments[q]
    BY <1>2, <1>5, <1>7, WakeTransition
  <1>11. RowOf(c)'
    BY <1>1, <1>2, <1>5, <1>9, <1>10
    DEF RowOf, OnlyRequest, NotCreated, BodyOf, RefOf, RunId, Rest, providerVars
  <1>12. PayOf(c)'
    <2>1. CASE to = "approved_risk"
      BY <1>1, <1>3, <1>4, <1>5, <1>9, <1>10, <2>1
      DEF PayOf, Is, Uncharged, Charged, providerVars
    <2>2. CASE to # "approved_risk"
      <3>1. /\ to = goal /\ fake'[c] = <<FakeOf(goal)>> /\ charges'[c] # <<>>
            /\ (goal = "authorized" => wake'[c].resp.statusId = 1)
            /\ wake'[c].pc = "save"
        BY <1>1, <1>4, <1>9, <1>10, <2>2 DEF Charged, providerVars
      <3>2. Achieved(c)'
        BY <1>2, <1>5, <1>10, <3>1 DEF Achieved, Is, Charged, goal
      <3>3. QED
        BY <3>1, <3>2 DEF PayOf, goal
    <2>3. QED
      BY <2>1, <2>2
  <1>13. QED
    BY <1>1, <1>9, <1>10, <1>11, <1>12, Working
    DEF Rest, Idle, providerVars, koinVars

\* The double answers what the scenario asks of it.
LEMMA ChargeKeeps ==
    ASSUME HomologInv, NEW c \in Requests, Gw!Wake!Charge(c), TokenDecides(c),
           UNCHANGED <<ops, Rest>>
    PROVE  HomologInv'
  <1> DEFINE method == CallAt(c).method  goal == Goal(c)
             answer == [id |-> <<c, 1>>, status |-> FakeOf(goal),
                        code |-> goal = "waiting_payment"]
  <1>1. wake[c].pc = "charge" /\ UNCHANGED <<ledger, keys, koinVars>>
    BY DEF Gw!Wake!Charge, Gw!Wake!At, Gw!Wake!ledger, Gw!Wake!koinVars, ledger, koinVars
  <1>2. /\ TypeOK /\ RowOf(c) /\ PayOf(c) /\ Gw!Wake!MethodOf(c) = method
        /\ Gw!Wake!Faked(c) /\ wake[c] \in Gw!Wake!RequestState
    BY <1>1, AtWork
  <1>3. Is(c, "approved_risk") /\ charges[c] = <<>> /\ fake[c] = <<>>
    BY <1>1, <1>2 DEF PayOf, Uncharged
  <1>4. PICK o \in Gw!Wake!Provider!Outcomes(TRUE, method, method # "credit_card") :
            /\ Gw!Wake!Provider!Charge(TRUE, c, method, method # "credit_card", o)
            /\ wake' = [wake EXCEPT ![c].pc = "record",
                   ![c].answer = Gw!Wake!Provider!ResultOf(TRUE, c, method, o)]
    <2>1. Gw!Wake!Faked(c) = TRUE
      BY <1>2 DEF Gw!Wake!Faked
    <2>2. QED
      BY <1>2, <2>1 DEF Gw!Wake!Charge
  <1>5. /\ goal \in {"authorized", "refused", "waiting_payment"}
        /\ method \in {"credit_card", "pix", "boleto"}
        /\ goal = "waiting_payment" <=> method # "credit_card"
        /\ goal = "refused" <=> CallAt(c).token = "tok_declined"
    BY Payment
  <1> HIDE DEF method, goal
  <1>6. /\ method = "credit_card" =>
               o.status \in {"failed", "authorized"} /\ o.code = FALSE
        /\ method # "credit_card" => o.status = "waiting_payment" /\ o.code = TRUE
    <2>1. o \in Gw!Wake!Provider!Fake!Outcomes(method, method # "credit_card")
      BY <1>4 DEF Gw!Wake!Provider!Outcomes
    <2>2. CASE method = "credit_card"
      <3>1. PICK s \in {"failed", "authorized"} : o = [status |-> s, code |-> FALSE]
        BY <2>1, <2>2 DEF Gw!Wake!Provider!Fake!Outcomes
      <3>2. o.status = s /\ o.code = FALSE
        BY <3>1
      <3>3. QED
        BY <2>2, <3>2
    <2>3. CASE method # "credit_card"
      <3>1. o = [status |-> "waiting_payment", code |-> TRUE]
        BY <2>1, <2>3 DEF Gw!Wake!Provider!Fake!Outcomes
      <3>2. o.status = "waiting_payment" /\ o.code = TRUE
        BY <3>1
      <3>3. QED
        BY <2>3, <3>2
    <2>4. QED
      BY <2>2, <2>3
  <1>7. PICK x : x = Gw!Wake!Provider!ResultOf(TRUE, c, method, o)
    OBVIOUS
  <1>8. x = [id |-> <<c, 1>>, status |-> o.status, code |-> o.code]
    <2>1. 1 + Len(fake[c]) = 1
      BY <1>3
    <2>2. QED
      BY <1>7, <2>1 DEF Gw!Wake!Provider!ResultOf
  <1>9. wake' = [wake EXCEPT ![c].pc = "record", ![c].answer = x]
    BY <1>4, <1>7
  <1>10. wake \in [Requests -> Gw!Wake!RequestState]
    BY <1>2 DEF TypeOK, Gw!TypeOK, Gw!Wake!TypeOK
  <1>11. x \in Gw!Wake!ChargeResult
    <2>1. o.status \in Gw!Wake!Ledger!ChargeStatuses /\ o.code \in BOOLEAN
      BY <1>6 DEF Gw!Wake!Ledger!ChargeStatuses
    <2>2. <<c, 1>> \in Gw!Wake!ProviderIds
      BY DEF Gw!Wake!ProviderIds, Gw!Wake!PaymentIds
    <2>3. QED
      BY <1>8, <2>1, <2>2 DEF Gw!Wake!ChargeResult
  <1> DEFINE w == [wake[c] EXCEPT !.pc = "record", !.answer = x]
  <1>12. /\ w \in Gw!Wake!RequestState /\ w.pc = "record" /\ w.answer = x
         /\ w.body = wake[c].body
    BY <1>2, <1>11 DEF Gw!Wake!RequestState, Gw!Wake!Pcs
  <1>13. wake' = [wake EXCEPT ![c] = w]
    BY <1>9, <1>10
  <1> HIDE DEF w
  <1>14. /\ Gw!Wake!TypeOK' /\ OnlyRequest(c) /\ wake'[c].pc = "record"
         /\ wake'[c].answer = x
    BY <1>10, <1>12, <1>13 DEF Gw!Wake!TypeOK, OnlyRequest
  <1>15. o.status = FakeOf(goal) /\ o.code = (goal = "waiting_payment")
    <2>1. x.status = o.status
      BY <1>8
    <2>2. o.status = "failed" <=> CallAt(c).token = "tok_declined"
      BY <1>1, <1>14, <2>1 DEF TokenDecides
    <2>3. o.status = FakeOf(goal)
      BY <1>5, <1>6, <2>2 DEF FakeOf
    <2>4. o.code = (goal = "waiting_payment")
      BY <1>5, <1>6
    <2>5. QED
      BY <2>3, <2>4
  <1>16. x = answer
    BY <1>8, <1>15
  <1> HIDE DEF answer
  <1>17. UNCHANGED <<zoop, hooks>> /\ fake' = [fake EXCEPT ![c] = Append(fake[c], o.status)]
    BY <1>4 DEF Gw!Wake!Provider!Charge, Gw!Wake!Provider!Fake!Register,
                Gw!Wake!Provider!zoopVars
  <1>18. fake \in [Requests -> Seq(Gw!Provider!Fake!FakeStatuses)]
         /\ \A p \in Requests : Len(fake[p]) <= 1
    BY <1>2 DEF TypeOK, Gw!TypeOK, Gw!Provider!BothTypeOK, Gw!Provider!Fake!TypeOK,
                Gw!PaymentIds
  <1>19. /\ fake'[c] = <<o.status>> /\ \A q \in Requests \ {c} : fake'[q] = fake[q]
         /\ DOMAIN fake' = Requests
    BY <1>3, <1>17, <1>18
  <1>20. Gw!Provider!Fake!TypeOK'
    <2>1. <<o.status>> \in Seq(Gw!Provider!Fake!FakeStatuses) /\ Len(<<o.status>>) = 1
      BY <1>6 DEF Gw!Provider!Fake!FakeStatuses
    <2>2. fake' = [fake EXCEPT ![c] = <<o.status>>]
      BY <1>3, <1>17
    <2>3. fake' \in [Requests -> Seq(Gw!Provider!Fake!FakeStatuses)]
      BY <1>18, <2>1, <2>2
    <2>4. \A p \in Requests : Len(fake'[p]) <= 1
      <3>1. PICK seq : seq = <<o.status>> /\ Len(seq) = 1
        BY <2>1
      <3>2. Len(fake'[c]) <= 1
        BY <1>19, <3>1
      <3>3. QED
        BY <1>18, <1>19, <3>2
    <2>5. QED
      BY <2>3, <2>4 DEF Gw!Provider!Fake!TypeOK, Gw!PaymentIds
  <1>21. RowOf(c)'
    BY <1>1, <1>2, <1>3, <1>14
    DEF RowOf, OnlyRequest, NotCreated, BodyOf, RefOf, RunId, Rest, ledger, Is
  <1>22. PayOf(c)'
    <2>1. Is(c, "approved_risk")' /\ charges'[c] = <<>> /\ fake'[c] = <<FakeOf(Goal(c))>>
      BY <1>1, <1>3, <1>15, <1>19 DEF Is, ledger, goal
    <2>2. wake'[c].answer = [id |-> <<c, 1>>, status |-> FakeOf(Goal(c)),
                             code |-> Goal(c) = "waiting_payment"]
      BY <1>14, <1>16 DEF answer, goal
    <2>3. QED
      BY <1>14, <2>1, <2>2 DEF PayOf
  <1>23. QED
    BY <1>1, <1>14, <1>17, <1>19, <1>20, <1>21, <1>22, Working
    DEF Rest, Idle, ledger, koinVars

\* One row for the charge the double made.
LEMMA RecordKeeps ==
    ASSUME HomologInv, NEW c \in Requests, Gw!Wake!RecordCharge(c), UNCHANGED <<ops, Rest>>
    PROVE  HomologInv'
  <1> DEFINE goal == Goal(c)
  <1>1. wake[c].pc = "record" /\ UNCHANGED <<keys, providerVars, koinVars>>
    BY DEF Gw!Wake!RecordCharge, Gw!Wake!At, Gw!Wake!providerVars, Gw!Wake!koinVars,
           providerVars, koinVars
  <1>2. /\ TypeOK /\ RowOf(c) /\ PayOf(c)
    BY <1>1, AtWork
  <1>3. PICK x : x = wake[c].answer
    OBVIOUS
  <1>4. /\ Is(c, "approved_risk") /\ charges[c] = <<>> /\ fake[c] = <<FakeOf(goal)>>
        /\ x = [id |-> <<c, 1>>, status |-> FakeOf(goal), code |-> goal = "waiting_payment"]
    BY <1>1, <1>2, <1>3 DEF PayOf
  <1>5. goal \in {"authorized", "refused", "waiting_payment"}
    BY Payment
  <1> HIDE DEF goal
  <1>6. /\ x.id = <<c, 1>> /\ x.status = FakeOf(goal)
        /\ x.code <=> goal = "waiting_payment"
    BY <1>4
  <1> DEFINE row == [providerId |-> x.id, status |-> x.status]
  <1>7. /\ charges' = [charges EXCEPT ![c] = Append(@, row)]
        /\ UNCHANGED <<payments, events, outbox>>
    BY <1>3 DEF Gw!Wake!RecordCharge, Gw!Wake!Ledger!SaveProviderCharge
  <1>8. row.providerId = <<c, 1>> /\ row \in Gw!Ledger!ChargeRow
    <2>1. <<c, 1>> \in Gw!ProviderIds
      BY DEF Gw!ProviderIds, Gw!PaymentIds
    <2>2. x.status \in Gw!Ledger!ChargeStatuses
      BY <1>5, <1>6 DEF FakeOf, Gw!Ledger!ChargeStatuses
    <2>3. QED
      BY <1>6, <2>1, <2>2 DEF Gw!Ledger!ChargeRow
  <1> HIDE DEF row
  <1>9. charges \in [Requests -> Seq(Gw!Ledger!ChargeRow)]
    BY <1>2 DEF TypeOK, Gw!TypeOK, Gw!Ledger!TypeOK, Gw!PaymentIds
  <1>10. /\ charges'[c] = <<row>> /\ \A q \in Requests \ {c} : charges'[q] = charges[q]
         /\ charges' \in [Requests -> Seq(Gw!Ledger!ChargeRow)]
    BY <1>4, <1>7, <1>8, <1>9
  <1>11. Gw!Ledger!TypeOK'
    BY <1>2, <1>7, <1>10 DEF TypeOK, Gw!TypeOK, Gw!Ledger!TypeOK, Gw!PaymentIds
  <1>12. /\ charges'[c] # <<>> /\ Len(charges'[c]) = 1
         /\ charges'[c][1].providerId = <<c, 1>>
    BY <1>8, <1>10
  <1>13. \/ /\ goal \in {"authorized", "refused"}
            /\ \E resp \in {Gw!Wake!Say(1), Gw!Wake!Say(2)} :
                  /\ Gw!Wake!GotoMove(c, goal, resp)
                  /\ goal = "authorized" => resp = Gw!Wake!Say(1)
         \/ goal = "waiting_payment" /\ Gw!Wake!Goto(c, "instrument")
    <2>1. CASE goal = "refused"
      BY <1>3, <1>6, <2>1 DEF Gw!Wake!RecordCharge, FakeOf
    <2>2. CASE goal = "waiting_payment"
      BY <1>3, <1>6, <2>2 DEF Gw!Wake!RecordCharge, FakeOf
    <2>3. CASE goal = "authorized"
      <3>1. x.status # "failed" /\ ~x.code
        BY <1>6, <2>3 DEF FakeOf
      <3>2. QED
        BY <1>3, <2>3, <3>1 DEF Gw!Wake!RecordCharge
    <2>4. QED
      BY <1>5, <2>1, <2>2, <2>3
  <1>14. /\ Gw!Wake!Say(1) \in Gw!Wake!Response /\ Gw!Wake!Say(2) \in Gw!Wake!Response
         /\ Gw!Wake!Say(1).statusId = 1
         /\ Gw!Wake!Say(1) # Gw!Wake!Say(5) /\ Gw!Wake!Say(2) # Gw!Wake!Say(5)
    BY DEF Gw!Wake!Say, Gw!Wake!Response
  <1>15. /\ Gw!Wake!TypeOK' /\ OnlyRequest(c)
         /\ \/ /\ goal = "waiting_payment" /\ wake'[c].pc = "instrument"
            \/ /\ wake'[c].pc = "move" /\ wake'[c].to = goal
               /\ wake'[c].resp # Gw!Wake!Say(5)
               /\ goal = "authorized" => wake'[c].resp.statusId = 1
    <2>1. CASE goal = "waiting_payment"
      BY <1>2, <1>13, <2>1, GotoDoes DEF Gw!Wake!Pcs
    <2>2. CASE goal # "waiting_payment"
      <3>1. PICK resp \in {Gw!Wake!Say(1), Gw!Wake!Say(2)} :
                /\ Gw!Wake!GotoMove(c, goal, resp)
                /\ goal = "authorized" => resp = Gw!Wake!Say(1)
        BY <1>13, <2>2
      <3>2. resp \in Gw!Wake!Response \cup {NoResponse} /\ resp # Gw!Wake!Say(5)
        BY <1>14, <3>1
      <3>3. goal \in Statuses
        BY <1>5 DEF Statuses
      <3>4. /\ Gw!Wake!TypeOK' /\ OnlyRequest(c) /\ wake'[c].pc = "move"
            /\ wake'[c].to = goal /\ wake'[c].resp = resp
        BY <1>2, <3>1, <3>2, <3>3, GotoMoveDoes
      <3>5. QED
        BY <1>14, <3>1, <3>2, <3>4
    <2>3. QED
      BY <2>1, <2>2
  <1>16. RowOf(c)'
    BY <1>1, <1>2, <1>4, <1>7, <1>12, <1>15
    DEF RowOf, OnlyRequest, NotCreated, BodyOf, RefOf, RunId, Rest, providerVars, Is
  <1>17. PayOf(c)'
    <2>1. Is(c, "approved_risk")' /\ Charged(c, FakeOf(Goal(c)))'
      BY <1>1, <1>4, <1>7, <1>12 DEF Is, Charged, providerVars, goal
    <2>2. QED
      BY <1>15, <2>1 DEF PayOf, goal
  <1>18. QED
    BY <1>1, <1>7, <1>10, <1>11, <1>15, <1>16, <1>17, Working
    DEF Rest, Idle, providerVars, koinVars

LEMMA InstrumentKeeps ==
    ASSUME HomologInv, NEW c \in Requests, Gw!Wake!SaveInstrument(c), UNCHANGED <<ops, Rest>>
    PROVE  HomologInv'
  <1> DEFINE method == CallAt(c).method
             resp == [statusId |-> 7, instrument |-> method]
  <1>1. wake[c].pc = "instrument" /\ UNCHANGED <<keys, providerVars, koinVars>>
    BY DEF Gw!Wake!SaveInstrument, Gw!Wake!At, Gw!Wake!providerVars, Gw!Wake!koinVars,
           providerVars, koinVars
  <1>2. /\ TypeOK /\ RowOf(c) /\ PayOf(c) /\ Gw!Wake!MethodOf(c) = method
    BY <1>1, AtWork
  <1>3. /\ Is(c, "approved_risk") /\ Charged(c, FakeOf(Goal(c)))
        /\ Goal(c) = "waiting_payment"
    BY <1>1, <1>2 DEF PayOf
  <1>4. method \in {"pix", "boleto"}
    BY <1>3, Payment
  <1> HIDE DEF method
  <1>5. /\ payments' = [payments EXCEPT ![c].instrument = method]
        /\ UNCHANGED <<events, outbox, charges>>
        /\ Gw!Wake!GotoMove(c, "waiting_payment", resp)
    BY <1>2 DEF Gw!Wake!SaveInstrument, Gw!Wake!Ledger!UpdateInstrument
  <1>6. /\ resp \in Gw!Wake!Response \cup {NoResponse} /\ resp.statusId = 7
        /\ resp # Gw!Wake!Say(5)
    BY <1>4 DEF Gw!Wake!Response, Gw!Wake!Say
  <1> HIDE DEF resp
  <1>7. /\ Gw!Wake!TypeOK' /\ OnlyRequest(c) /\ wake'[c].pc = "move"
        /\ wake'[c].to = "waiting_payment" /\ wake'[c].resp = resp
    BY <1>2, <1>5, <1>6, GotoMoveDoes DEF Statuses
  <1>8. c \in DOMAIN payments /\ payments[c] \in Gw!Ledger!PaymentRow
    BY <1>2, <1>3, RowTypes DEF Is
  <1> DEFINE row == [payments[c] EXCEPT !.instrument = method]
  <1>9. /\ row \in Gw!Ledger!PaymentRow /\ row.status = payments[c].status
        /\ row.store = payments[c].store /\ row.ref = payments[c].ref
    BY <1>4, <1>8 DEF Gw!Ledger!PaymentRow, Gw!Ledger!Instruments
  <1>10. payments' = [payments EXCEPT ![c] = row]
    BY <1>5
  <1> HIDE DEF row
  <1>11. /\ Gw!Ledger!TypeOK' /\ DOMAIN payments' = DOMAIN payments /\ payments'[c] = row
         /\ \A q \in DOMAIN payments \ {c} : payments'[q] = payments[q]
    BY <1>2, <1>5, <1>8, <1>9, <1>10 DEF TypeOK, Gw!TypeOK, Gw!Ledger!TypeOK
  <1>12. RowOf(c)'
    BY <1>1, <1>2, <1>5, <1>7, <1>8, <1>9, <1>11
    DEF RowOf, OnlyRequest, NotCreated, BodyOf, RefOf, RunId, Rest, providerVars
  <1>13. PayOf(c)'
    <2>1. Is(c, "approved_risk")' /\ Charged(c, FakeOf(Goal(c)))'
      BY <1>1, <1>3, <1>5, <1>8, <1>9, <1>11 DEF Is, Charged, providerVars
    <2>2. QED
      BY <1>3, <1>6, <1>7, <2>1 DEF PayOf
  <1>14. QED
    BY <1>1, <1>5, <1>7, <1>11, <1>12, <1>13, Working
    DEF Rest, Idle, providerVars, koinVars

LEMMA SaveKeeps ==
    ASSUME HomologInv, NEW c \in Requests, Gw!Wake!SaveResponse(c), UNCHANGED <<ops, Rest>>
    PROVE  HomologInv'
  <1>1. wake[c].pc = "save" /\ UNCHANGED <<ledger, providerVars, koinVars>>
    BY DEF Gw!Wake!SaveResponse, Gw!Wake!At, Gw!Wake!ledger, Gw!Wake!providerVars,
           Gw!Wake!koinVars, ledger, providerVars, koinVars
  <1>2. /\ TypeOK /\ RowOf(c) /\ PayOf(c) /\ Gw!Wake!StoreOf(c) = Store
        /\ Gw!Wake!RefOf(c) = RefOf(c) /\ wake[c] \in Gw!Wake!RequestState /\ PaymentOf(c) = c
    BY <1>1, AtWork
  <1>3. /\ keys' = [keys EXCEPT ![<<Store, RefOf(c)>>].response = wake[c].resp]
        /\ Gw!Wake!Goto(c, "done")
    BY <1>2 DEF Gw!Wake!SaveResponse, Gw!Wake!Keys!SaveResponse
  <1>4. DOMAIN keys' = DOMAIN keys
    BY <1>3
  <1>5. Gw!Keys!TypeOK'
    <2>1. keys \in [DOMAIN keys -> Gw!Keys!KeyRow]
      BY <1>2 DEF TypeOK, Gw!TypeOK, Gw!Keys!TypeOK
    <2>2. wake[c].resp \in Gw!Wake!Response \cup {NoResponse}
      BY <1>2 DEF Gw!Wake!RequestState
    <2>3. keys' \in [DOMAIN keys -> Gw!Keys!KeyRow]
      BY <1>3, <2>1, <2>2 DEF Gw!Keys!KeyRow
    <2>4. QED
      BY <1>2, <1>4, <2>3 DEF TypeOK, Gw!TypeOK, Gw!Keys!TypeOK
  <1>6. /\ Gw!Wake!TypeOK' /\ OnlyRequest(c) /\ wake'[c].pc = "done"
        /\ wake'[c].resp = wake[c].resp
    BY <1>2, <1>3, GotoDoes DEF Gw!Wake!Pcs
  <1>7. RowOf(c)'
    BY <1>1, <1>2, <1>4, <1>6
    DEF RowOf, OnlyRequest, NotCreated, BodyOf, RefOf, RunId, Rest, ledger, providerVars
  <1>8. PayOf(c)'
    <2>1. Achieved(c) /\ (Goal(c) = "authorized" => wake[c].resp.statusId = 1)
      BY <1>1, <1>2 DEF PayOf
    <2>2. Achieved(c)'
      BY <1>1, <2>1 DEF Achieved, Is, Charged, ledger, providerVars
    <2>3. QED
      BY <1>6, <2>1, <2>2 DEF PayOf
  <1>9. QED
    BY <1>1, <1>4, <1>5, <1>6, <1>7, <1>8, Working
    DEF Rest, Idle, ledger, providerVars, koinVars

\* No key of a payment is found, none is denied and no charge fails: the other steps
\* of the handler are never taken here.
LEMMA PayStepKeeps ==
    ASSUME HomologInv, NEW c \in Requests, PayStep(c)
    PROVE  HomologInv'
  <1>1. Gw!Wake!Step(c) /\ TokenDecides(c) /\ UNCHANGED <<ops, Rest>>
    BY DEF PayStep
  <1>2. wake[c].pc \notin {"lookup", "preEvaluate", "notify", "recordFailure"}
    BY AtWork DEF PayOf
  <1>3. ~(\/ Gw!Wake!LookUpPayment(c) \/ Gw!Wake!PreEvaluate(c)
          \/ Gw!Wake!NotifyRefusal(c) \/ Gw!Wake!RecordFailure(c))
    BY <1>2 DEF Gw!Wake!LookUpPayment, Gw!Wake!PreEvaluate, Gw!Wake!NotifyRefusal,
                Gw!Wake!RecordFailure, Gw!Wake!At
  <1>4. QED
    BY <1>1, <1>3, FindKeyKeeps, InsertKeyKeeps, CreateKeeps, EvaluateKeeps, MoveKeeps,
       ChargeKeeps, RecordKeeps, InstrumentKeeps, SaveKeeps DEF Gw!Wake!Step

------------------------------------------------------------------------------
(***************************************************************************)
(* What captures, cancels and chargebacks do, of a scenario or later.      *)
(***************************************************************************)
OnlyOp(o) ==
    /\ Gw!Shop!TypeOK' /\ ops'[o].kind = ops[o].kind
    /\ \A x \in Ops \ {o} : ops'[x] = ops[x]

LEMMA OpTypes ==
    ASSUME TypeOK, NEW o \in Ops
    PROVE  ops \in [Ops -> Gw!Shop!OpState] /\ ops[o] \in Gw!Shop!OpState
           /\ ops[o].p \in Requests
  BY DEF TypeOK, Gw!TypeOK, Gw!Shop!TypeOK, Gw!Shop!OpState, Gw!PaymentIds

LEMMA OpBecomes ==
    ASSUME TypeOK, NEW o \in Ops, NEW w \in Gw!Shop!OpState, w.kind = ops[o].kind,
           ops' = [ops EXCEPT ![o] = w]
    PROVE  OnlyOp(o) /\ ops'[o] = w
  BY OpTypes DEF OnlyOp, Gw!Shop!TypeOK

LEMMA LoadDoes ==
    ASSUME TypeOK, NEW o \in Ops, NEW p \in Requests, RowOf(p), Gw!Shop!Load(o, p)
    PROVE  /\ ops[o].pc = "idle" /\ ops[o].kind # "chargeback"
           /\ UNCHANGED <<ledger, providerVars, koinVars>> /\ OnlyOp(o) /\ ops'[o].p = p
           /\ Gw!Shop!ActionFor(o, p) \in {"capture", "void", "refund"}
           /\ IF p \in DOMAIN payments /\ charges[p] # <<>>
              THEN /\ ops'[o].pc = "zoop" /\ ops'[o].id = <<p, 1>>
                   /\ ops'[o].action = Gw!Shop!ActionFor(o, p)
              ELSE ops'[o].pc = "failed"
  <1>1. /\ ops[o].pc = "idle" /\ ops[o].kind # "chargeback"
        /\ UNCHANGED <<ledger, providerVars, koinVars>>
    BY DEF Gw!Shop!Load, Gw!Shop!ledger, Gw!Shop!providerVars, Gw!Shop!koinVars,
           ledger, providerVars, koinVars
  <1>2. ops \in [Ops -> Gw!Shop!OpState] /\ ops[o] \in Gw!Shop!OpState
    BY OpTypes
  <1>3. ops[o].kind \in {"capture", "cancel", "cancel_part"}
    BY <1>1, <1>2 DEF Gw!Shop!OpState, Gw!Shop!OpKinds
  <1>4. Gw!Shop!ActionFor(o, p) \in {"capture", "void", "refund"}
    BY <1>3 DEF Gw!Shop!ActionFor
  <1>5. p \in Gw!PaymentIds /\ <<p, 1>> \in Gw!Shop!ProviderIds
        /\ <<p, 1>> \in Gw!ProviderIds
    BY DEF Gw!PaymentIds, Gw!ProviderIds, Gw!Shop!ProviderIds
  <1>6. CASE p \in DOMAIN payments /\ charges[p] # <<>>
    <2>1. Gw!Shop!LastCharge(p).providerId = <<p, 1>>
      BY <1>6 DEF Gw!Shop!LastCharge, RowOf
    <2>2. Gw!Shop!HasCharge(p) /\ Gw!Shop!Ledger!Exists(p)
      BY <1>5, <1>6, <2>1, NoProviderIdIsNull DEF Gw!Shop!HasCharge, Gw!Shop!Ledger!Exists
    <2> DEFINE w == [ops[o] EXCEPT !.pc = "zoop", !.p = p, !.id = <<p, 1>>,
                                   !.action = Gw!Shop!ActionFor(o, p)]
    <2>3. /\ w \in Gw!Shop!OpState /\ w.kind = ops[o].kind /\ w.pc = "zoop" /\ w.p = p
          /\ w.id = <<p, 1>> /\ w.action = Gw!Shop!ActionFor(o, p)
      BY <1>2, <1>4, <1>5 DEF Gw!Shop!OpState, Gw!Shop!Actions
    <2>4. ops' = [ops EXCEPT ![o] = w]
      BY <1>2, <2>1, <2>2 DEF Gw!Shop!Load
    <2> HIDE DEF w
    <2>5. QED
      BY <1>1, <1>4, <1>6, <2>3, <2>4, OpBecomes
  <1>7. CASE ~(p \in DOMAIN payments /\ charges[p] # <<>>)
    <2>1. ~(Gw!Shop!Ledger!Exists(p) /\ Gw!Shop!HasCharge(p))
      BY <1>7 DEF Gw!Shop!HasCharge, Gw!Shop!Ledger!Exists
    <2> DEFINE w == [ops[o] EXCEPT !.pc = "failed", !.p = p]
    <2>2. w \in Gw!Shop!OpState /\ w.kind = ops[o].kind /\ w.pc = "failed" /\ w.p = p
      BY <1>2, <1>5 DEF Gw!Shop!OpState
    <2>3. ops' = [ops EXCEPT ![o] = w]
      BY <1>2, <2>1 DEF Gw!Shop!Load
    <2> HIDE DEF w
    <2>4. QED
      BY <1>1, <1>4, <1>7, <2>2, <2>3, OpBecomes
  <1>8. QED
    BY <1>6, <1>7

LEMMA ChargebackDoes ==
    ASSUME TypeOK, NEW o \in Ops, NEW p \in Requests, Gw!Shop!Chargeback(o, p)
    PROVE  /\ ops[o].pc = "idle" /\ ops[o].kind = "chargeback"
           /\ UNCHANGED <<ledger, providerVars, koinVars>> /\ OnlyOp(o)
           /\ ops'[o].pc = "move" /\ ops'[o].p = p /\ ops'[o].to = "chargeback"
  <1>1. /\ ops[o].pc = "idle" /\ ops[o].kind = "chargeback"
        /\ UNCHANGED <<ledger, providerVars, koinVars>>
    BY DEF Gw!Shop!Chargeback, Gw!Shop!ledger, Gw!Shop!providerVars, Gw!Shop!koinVars,
           ledger, providerVars, koinVars
  <1>2. ops \in [Ops -> Gw!Shop!OpState] /\ ops[o] \in Gw!Shop!OpState
    BY OpTypes
  <1> DEFINE w == [ops[o] EXCEPT !.pc = "move", !.p = p, !.to = "chargeback"]
  <1>3. /\ w \in Gw!Shop!OpState /\ w.kind = ops[o].kind /\ w.pc = "move" /\ w.p = p
        /\ w.to = "chargeback"
    BY <1>2 DEF Gw!Shop!OpState, Gw!Shop!Statuses, Gw!PaymentIds
  <1>4. ops' = [ops EXCEPT ![o] = w]
    BY <1>2 DEF Gw!Shop!Chargeback
  <1> HIDE DEF w
  <1>5. QED
    BY <1>1, <1>3, <1>4, OpBecomes

\* The double executes what it has, whatever its status.
LEMMA CallZoopDoes ==
    ASSUME HomologInv, NEW o \in Ops, Gw!Shop!CallZoop(o), ops[o].p \in DOMAIN payments,
           ops[o].id = <<ops[o].p, 1>>, ops[o].action \in {"capture", "void", "refund"}
    PROVE  LET p == ops[o].p  action == ops[o].action IN
           /\ ops[o].pc = "zoop" /\ UNCHANGED <<ledger, zoop, hooks, koinVars>>
           /\ OnlyOp(o) /\ ops'[o].p = p /\ ops'[o].action = action
           /\ Gw!Provider!Fake!TypeOK' /\ \A q \in Requests \ {p} : fake'[q] = fake[q]
           /\ IF fake[p] # <<>>
              THEN /\ ops'[o].pc = "move" /\ ops'[o].to = Gw!Shop!TargetOf(action)
                   /\ fake'[p] = CASE action = "capture" -> <<"captured">>
                                   [] action = "void"    -> <<"reversed">>
                                   [] action = "refund"  -> fake[p]
              ELSE ops'[o].pc = "failed" /\ UNCHANGED fake
  <1>1. TypeOK /\ ops[o].pc = "zoop" /\ UNCHANGED <<ledger, koinVars>>
    BY DEF Gw!Shop!CallZoop, Gw!Shop!ledger, Gw!Shop!koinVars, ledger, koinVars, HomologInv
  <1>2. ops \in [Ops -> Gw!Shop!OpState] /\ ops[o] \in Gw!Shop!OpState
        /\ ops[o].p \in Requests
    BY <1>1, OpTypes
  <1>3. PICK p \in Requests, a \in {"capture", "void", "refund"} :
            p = ops[o].p /\ a = ops[o].action
    BY <1>2
  <1>4. Gw!Shop!Faked(o) = TRUE
    BY <1>1, RowTypes DEF Gw!Shop!Faked, Gw!Shop!StoreOf
  <1>5. /\ fake \in [Requests -> Seq(Gw!Provider!Fake!FakeStatuses)]
        /\ \A q \in Requests : Len(fake[q]) <= 1
    BY <1>1 DEF TypeOK, Gw!TypeOK, Gw!Provider!BothTypeOK, Gw!Provider!Fake!TypeOK,
                Gw!PaymentIds
  <1>6. CASE fake[p] # <<>>
    <2>1. PICK h : fake[p] = <<h>>
      BY <1>5, <1>6
    <2>2. Gw!Shop!Provider!Accepts(TRUE, a, <<p, 1>>, Gw!Shop!Full(o))
      <3>1. 1 <= Len(fake[p])
        BY <1>5, <1>6
      <3>2. QED
        BY <3>1 DEF Gw!Shop!Provider!Accepts, Gw!Shop!Provider!Fake!Knows
    <2>3. /\ Gw!Shop!Provider!Execute(TRUE, a, <<p, 1>>, Gw!Shop!Full(o))
          /\ ops' = [ops EXCEPT ![o].pc = "move", ![o].executed = a,
                                ![o].to = Gw!Shop!TargetOf(a)]
      BY <1>3, <1>4, <2>2 DEF Gw!Shop!CallZoop
    <2>4. UNCHANGED <<zoop, hooks>>
      BY <2>3 DEF Gw!Shop!Provider!Execute, Gw!Shop!Provider!zoopVars
    <2> DEFINE h2 == CASE a = "capture" -> "captured" [] a = "void" -> "reversed"
                       [] a = "refund" -> h
    <2>5. fake' = [fake EXCEPT ![p] = <<h2>>]
      <3>1. CASE a = "capture"
        <4>1. fake' = [fake EXCEPT ![p][1] = "captured"]
          BY <2>3, <3>1 DEF Gw!Shop!Provider!Execute, Gw!Shop!Provider!Fake!Capture
        <4>2. [fake[p] EXCEPT ![1] = "captured"] = <<"captured">>
          BY <2>1
        <4>3. QED
          BY <3>1, <4>1, <4>2
      <3>2. CASE a = "void"
        <4>1. fake' = [fake EXCEPT ![p][1] = "reversed"]
          BY <2>3, <3>2 DEF Gw!Shop!Provider!Execute, Gw!Shop!Provider!Fake!Void
        <4>2. [fake[p] EXCEPT ![1] = "reversed"] = <<"reversed">>
          BY <2>1
        <4>3. QED
          BY <3>2, <4>1, <4>2
      <3>3. CASE a = "refund"
        BY <1>5, <2>1, <2>3, <3>3
        DEF Gw!Shop!Provider!Execute, Gw!Shop!Provider!Fake!Refund
      <3>4. QED
        BY <3>1, <3>2, <3>3
    <2>6. h2 \in Gw!Provider!Fake!FakeStatuses
      <3>1. h \in Gw!Provider!Fake!FakeStatuses
        <4>1. <<h>> \in Seq(Gw!Provider!Fake!FakeStatuses)
          BY <1>5, <2>1
        <4>2. QED
          BY <4>1
      <3>2. QED
        BY <3>1 DEF Gw!Provider!Fake!FakeStatuses
    <2>7. fake'[p] = CASE a = "capture" -> <<"captured">> [] a = "void" -> <<"reversed">>
                       [] a = "refund" -> fake[p]
      BY <1>5, <2>1, <2>5
    <2> HIDE DEF h2
    <2>8. Gw!Provider!Fake!TypeOK' /\ \A q \in Requests \ {p} : fake'[q] = fake[q]
      <3>1. <<h2>> \in Seq(Gw!Provider!Fake!FakeStatuses) /\ Len(<<h2>>) = 1
        BY <2>6
      <3>2. PICK g : g = <<h2>> /\ Len(g) = 1
        BY <3>1
      <3>3. fake' = [fake EXCEPT ![p] = g] /\ g \in Seq(Gw!Provider!Fake!FakeStatuses)
        BY <2>5, <3>1, <3>2
      <3>4. fake' \in [Requests -> Seq(Gw!Provider!Fake!FakeStatuses)] /\ fake'[p] = g
            /\ \A q \in Requests \ {p} : fake'[q] = fake[q]
        BY <1>5, <3>3
      <3>5. \A q \in Requests : Len(fake'[q]) <= 1
        <4>1. Len(fake'[p]) <= 1
          BY <3>2, <3>4
        <4>2. QED
          BY <1>5, <3>4, <4>1
      <3>6. QED
        BY <3>4, <3>5 DEF Gw!Provider!Fake!TypeOK, Gw!PaymentIds
    <2> DEFINE w == [ops[o] EXCEPT !.pc = "move", !.executed = a,
                                   !.to = Gw!Shop!TargetOf(a)]
    <2>9. /\ w \in Gw!Shop!OpState /\ w.kind = ops[o].kind /\ w.pc = "move" /\ w.p = p
          /\ w.action = a /\ w.to = Gw!Shop!TargetOf(a)
      <3>1. Gw!Shop!TargetOf(a) \in Gw!Shop!Statuses
        BY DEF Gw!Shop!TargetOf, Gw!Shop!Statuses
      <3>2. QED
        BY <1>2, <1>3, <3>1 DEF Gw!Shop!OpState, Gw!Shop!Actions
    <2>10. ops' = [ops EXCEPT ![o] = w]
      BY <1>2, <2>3
    <2> HIDE DEF w
    <2>11. OnlyOp(o) /\ ops'[o] = w
      BY <1>1, <2>9, <2>10, OpBecomes
    <2>12. QED
      BY <1>1, <1>3, <1>6, <2>4, <2>7, <2>8, <2>9, <2>11
  <1>7. CASE fake[p] = <<>>
    <2>1. ~Gw!Shop!Provider!Accepts(TRUE, a, <<p, 1>>, Gw!Shop!Full(o))
      BY <1>7 DEF Gw!Shop!Provider!Accepts, Gw!Shop!Provider!Fake!Knows
    <2>2. ops' = [ops EXCEPT ![o].pc = "failed"] /\ UNCHANGED <<zoop, hooks, fake>>
      BY <1>3, <1>4, <2>1 DEF Gw!Shop!CallZoop, Gw!Shop!providerVars
    <2> DEFINE w == [ops[o] EXCEPT !.pc = "failed"]
    <2>3. /\ w \in Gw!Shop!OpState /\ w.kind = ops[o].kind /\ w.pc = "failed" /\ w.p = p
          /\ w.action = a
      BY <1>2, <1>3 DEF Gw!Shop!OpState
    <2>4. ops' = [ops EXCEPT ![o] = w]
      BY <2>2
    <2> HIDE DEF w
    <2>5. OnlyOp(o) /\ ops'[o] = w
      BY <1>1, <2>3, <2>4, OpBecomes
    <2>6. Gw!Provider!Fake!TypeOK'
      BY <1>1, <2>2 DEF TypeOK, Gw!TypeOK, Gw!Provider!BothTypeOK, Gw!Provider!Fake!TypeOK
    <2>7. QED
      BY <1>1, <1>3, <1>7, <2>2, <2>3, <2>5, <2>6
  <1>8. QED
    BY <1>6, <1>7

LEMMA OpMoveDoes ==
    ASSUME TypeOK, NEW o \in Ops, Gw!Shop!Move(o)
    PROVE  LET p == ops[o].p  to == ops[o].to IN
           /\ ops[o].pc = "move" /\ UNCHANGED <<providerVars, koinVars, charges>>
           /\ OnlyOp(o) /\ ops'[o].p = p /\ ops'[o].action = ops[o].action
           /\ Gw!Ledger!TypeOK'
           /\ DOMAIN payments' = DOMAIN payments
           /\ \A q \in DOMAIN payments \ {p} : payments'[q] = payments[q]
           /\ p \in DOMAIN payments => /\ payments'[p].store = payments[p].store
                                       /\ payments'[p].ref = payments[p].ref
           /\ \/ /\ p \in DOMAIN payments /\ payments'[p].status = to
                 /\ Gw!Shop!Ledger!CanTransition(payments[p].status, to)
                 /\ ops'[o].pc = "notify"
              \/ /\ ~(/\ p \in DOMAIN payments
                      /\ Gw!Shop!Ledger!CanTransition(payments[p].status, to))
                 /\ UNCHANGED payments /\ ops'[o].pc = "failed"
  <1>1. /\ ops[o].pc = "move" /\ UNCHANGED <<providerVars, koinVars>>
    BY DEF Gw!Shop!Move, Gw!Shop!providerVars, Gw!Shop!koinVars, providerVars, koinVars
  <1>2. ops \in [Ops -> Gw!Shop!OpState] /\ ops[o] \in Gw!Shop!OpState
        /\ ops[o].p \in Requests
    BY OpTypes
  <1>3. PICK p \in Requests, to \in Statuses : p = ops[o].p /\ to = ops[o].to
    BY <1>2 DEF Gw!Shop!OpState, Gw!Shop!Statuses, Statuses
  <1>4. CASE Gw!Shop!Ledger!CanMove(p, Gw!Shop!StoreOf(o), to)
    <2>1. /\ Gw!Shop!Ledger!Transition(p, Gw!Shop!StoreOf(o), to)
          /\ ops' = [ops EXCEPT ![o].pc = "notify",
                                ![o].todo = Gw!Shop!NoticesOf(ops[o].action)]
      BY <1>3, <1>4 DEF Gw!Shop!Move
    <2>2. Gw!Shop!Ledger!CanTransition(payments[p].status, to)
      BY <1>4 DEF Gw!Shop!Ledger!CanMove
    <2>3. /\ p \in DOMAIN payments /\ Gw!Ledger!TypeOK'
          /\ DOMAIN payments' = DOMAIN payments /\ payments'[p].status = to
          /\ payments'[p].store = payments[p].store /\ payments'[p].ref = payments[p].ref
          /\ \A q \in DOMAIN payments \ {p} : payments'[q] = payments[q]
          /\ UNCHANGED charges
      BY <2>1, ShopTransition
    <2>4. Gw!Shop!NoticesOf(ops[o].action) \in Seq(Gw!Shop!Risk!Kinds)
      <3>1. /\ <<"collected", "finalized">> \in Seq(Gw!Shop!Risk!Kinds)
            /\ <<"cancelled">> \in Seq(Gw!Shop!Risk!Kinds)
            /\ <<"refunded">> \in Seq(Gw!Shop!Risk!Kinds)
            /\ <<>> \in Seq(Gw!Shop!Risk!Kinds)
        BY DEF Gw!Shop!Risk!Kinds
      <3>2. QED
        BY <3>1 DEF Gw!Shop!NoticesOf
    <2> DEFINE w == [ops[o] EXCEPT !.pc = "notify",
                                   !.todo = Gw!Shop!NoticesOf(ops[o].action)]
    <2>5. /\ w \in Gw!Shop!OpState /\ w.kind = ops[o].kind /\ w.pc = "notify" /\ w.p = p
          /\ w.action = ops[o].action
      BY <1>2, <1>3, <2>4 DEF Gw!Shop!OpState
    <2>6. ops' = [ops EXCEPT ![o] = w]
      BY <1>2, <2>1
    <2> HIDE DEF w
    <2>7. OnlyOp(o) /\ ops'[o] = w
      BY <2>5, <2>6, OpBecomes
    <2>8. QED
      BY <1>1, <1>3, <2>2, <2>3, <2>5, <2>7
  <1>5. CASE ~Gw!Shop!Ledger!CanMove(p, Gw!Shop!StoreOf(o), to)
    <2>1. ops' = [ops EXCEPT ![o].pc = "failed"] /\ UNCHANGED <<payments, events, outbox, charges>>
      BY <1>3, <1>5 DEF Gw!Shop!Move, Gw!Shop!ledger
    <2>2. ~(p \in DOMAIN payments /\ Gw!Shop!Ledger!CanTransition(payments[p].status, to))
      BY <1>3, <1>5 DEF Gw!Shop!Ledger!CanMove, Gw!Shop!Ledger!InScope,
                        Gw!Shop!Ledger!Exists, Gw!Shop!StoreOf
    <2> DEFINE w == [ops[o] EXCEPT !.pc = "failed"]
    <2>3. /\ w \in Gw!Shop!OpState /\ w.kind = ops[o].kind /\ w.pc = "failed" /\ w.p = p
          /\ w.action = ops[o].action
      BY <1>2, <1>3 DEF Gw!Shop!OpState
    <2>4. ops' = [ops EXCEPT ![o] = w]
      BY <2>1
    <2> HIDE DEF w
    <2>5. OnlyOp(o) /\ ops'[o] = w
      BY <2>3, <2>4, OpBecomes
    <2>6. Gw!Ledger!TypeOK'
      BY <2>1 DEF TypeOK, Gw!TypeOK, Gw!Ledger!TypeOK
    <2>7. QED
      BY <1>1, <1>3, <2>1, <2>2, <2>3, <2>5, <2>6
  <1>6. QED
    BY <1>4, <1>5

\* Nobody is notified.
LEMMA NotifyDoes ==
    ASSUME TypeOK, NEW o \in Ops, Gw!Shop!NotifyOutcome(o)
    PROVE  /\ ops[o].pc = "notify" /\ UNCHANGED <<ledger, providerVars, koinVars>>
           /\ OnlyOp(o) /\ ops'[o].p = ops[o].p /\ ops'[o].action = ops[o].action
           /\ ops'[o].pc \in {"notify", "done"}
  <1>1. ops[o].pc = "notify" /\ UNCHANGED <<ledger, providerVars>>
    BY DEF Gw!Shop!NotifyOutcome, Gw!Shop!ledger, Gw!Shop!providerVars, ledger, providerVars
  <1>2. ops \in [Ops -> Gw!Shop!OpState] /\ ops[o] \in Gw!Shop!OpState
    BY OpTypes
  <1>3. CASE ops[o].todo # <<>>
    <2>1. UNCHANGED koinVars /\ ops' = [ops EXCEPT ![o].todo = Tail(ops[o].todo)]
      BY <1>1, <1>3 DEF Gw!Shop!NotifyOutcome, Gw!Shop!Risk!Notify, Gw!Shop!Risk!UsesKoin,
                        koinVars
    <2>2. ops[o].todo \in Seq(Gw!Shop!Risk!Kinds)
      BY <1>2 DEF Gw!Shop!OpState
    <2>3. Tail(ops[o].todo) \in Seq(Gw!Shop!Risk!Kinds)
      BY <1>3, <2>2
    <2> DEFINE w == [ops[o] EXCEPT !.todo = Tail(ops[o].todo)]
    <2>4. /\ w \in Gw!Shop!OpState /\ w.kind = ops[o].kind /\ w.pc = "notify"
          /\ w.p = ops[o].p /\ w.action = ops[o].action
      BY <1>1, <1>2, <2>3 DEF Gw!Shop!OpState
    <2>5. ops' = [ops EXCEPT ![o] = w]
      BY <2>1
    <2> HIDE DEF w
    <2>6. OnlyOp(o) /\ ops'[o] = w
      BY <2>4, <2>5, OpBecomes
    <2>7. QED
      BY <1>1, <2>1, <2>4, <2>6
  <1>4. CASE ops[o].todo = <<>>
    <2>1. UNCHANGED koinVars /\ ops' = [ops EXCEPT ![o].pc = "done"]
      BY <1>1, <1>4 DEF Gw!Shop!NotifyOutcome, Gw!Shop!koinVars, koinVars
    <2> DEFINE w == [ops[o] EXCEPT !.pc = "done"]
    <2>2. /\ w \in Gw!Shop!OpState /\ w.kind = ops[o].kind /\ w.pc = "done"
          /\ w.p = ops[o].p /\ w.action = ops[o].action
      BY <1>2 DEF Gw!Shop!OpState
    <2>3. ops' = [ops EXCEPT ![o] = w]
      BY <2>1
    <2> HIDE DEF w
    <2>4. OnlyOp(o) /\ ops'[o] = w
      BY <2>2, <2>3, OpBecomes
    <2>5. QED
      BY <1>1, <2>1, <2>2, <2>4
  <1>5. QED
    BY <1>3, <1>4

------------------------------------------------------------------------------
(***************************************************************************)
(* Steps of a later call of a scenario.                                    *)
(***************************************************************************)
LEMMA OpAtWork ==
    ASSUME HomologInv, NEW o \in CallNames \ Requests,
           ops[o].pc \notin {"unsent", "done", "failed"}
    PROVE  /\ TypeOK /\ o \in Ops /\ o \in CallNames /\ run[o[1]].pc = "wait"
           /\ o = Current(o[1]) /\ OpOf(o) /\ PaymentOf(o) \in Requests
           /\ RowOf(PaymentOf(o))
           /\ \A p \in Transacao(o[1], o[2]) : p \in DOMAIN payments /\ p = PaymentOf(o)
  <1>1. /\ TypeOK /\ o \in Ops /\ o \in CallNames /\ PaymentOf(o) \in Requests
        /\ RowOf(PaymentOf(o))
    BY PaymentOfCall DEF HomologInv, Ops
  <1>2. run[o[1]].pc = "wait" /\ o = Current(o[1]) /\ OpOf(o)
    BY Busy DEF Pc
  <1>3. ASSUME NEW p \in Transacao(o[1], o[2])
        PROVE  p \in DOMAIN payments /\ p = PaymentOf(o)
    <2>1. p \in DOMAIN payments /\ payments[p].ref = RefOf(LastPay(o[1], o[2]))
      BY DEF Transacao, Gw!Ledger!FindByExternalRef
    <2>2. p \in Requests /\ payments[p].ref = RefOf(p)
      BY <1>1, <2>1, RowTypes DEF HomologInv, RowOf
    <2>3. PaymentOf(o) = LastPay(o[1], o[2])
      BY Operation
    <2>4. QED
      BY <1>1, <2>1, <2>2, <2>3, Payment, RefsDiffer DEF HomologInv
  <1>4. QED
    BY <1>1, <1>2, <1>3

\* What a step of a later call leaves to show.
LEMMA OpWorking ==
    ASSUME HomologInv, NEW o \in CallNames \ Requests,
           ops[o].pc \notin {"unsent", "done", "failed"},
           Idle, UNCHANGED <<keys, wake, issued, run, session>>, OnlyOp(o),
           Gw!Ledger!TypeOK' \/ UNCHANGED ledger,
           Gw!Provider!Fake!TypeOK' \/ UNCHANGED fake,
           DOMAIN payments' = DOMAIN payments, UNCHANGED charges,
           \A q \in Requests \ {PaymentOf(o)} :
               fake'[q] = fake[q] /\ (q \in DOMAIN payments => payments'[q] = payments[q]),
           PaymentOf(o) \in DOMAIN payments,
           payments'[PaymentOf(o)].store = payments[PaymentOf(o)].store,
           payments'[PaymentOf(o)].ref = payments[PaymentOf(o)].ref,
           OpOf(o)'
    PROVE  HomologInv'
  <1>1. TypeOK'
    BY TypeStep DEF HomologInv, OnlyOp
  <1>2. /\ o \in CallNames /\ run[o[1]].pc = "wait" /\ o = Current(o[1])
        /\ RowOf(PaymentOf(o)) /\ PaymentOf(o) \in Requests
    BY OpAtWork
  <1>3. RowOf(PaymentOf(o))'
    BY <1>2 DEF RowOf, BodyOf, RefOf, RunId
  <1>4. Lone(o)
    BY DEF Lone, Same, OnlyOp
  <1>5. QED
    BY <1>1, <1>2, <1>3, <1>4, WorkStep

LEMMA LoadKeeps ==
    ASSUME HomologInv, NEW o \in CallNames \ Requests, NEW p \in Transacao(o[1], o[2]),
           Gw!Shop!Load(o, p), UNCHANGED <<keys, wake, Rest>>
    PROVE  HomologInv'
  <1>1. ops[o].pc = "idle"
    BY DEF Gw!Shop!Load
  <1>2. /\ TypeOK /\ o \in Ops /\ OpOf(o) /\ PaymentOf(o) \in Requests
        /\ RowOf(PaymentOf(o)) /\ p \in DOMAIN payments /\ p = PaymentOf(o)
    BY <1>1, OpAtWork
  <1>3. /\ Achieved(Before(o)) /\ PaymentOf(Before(o)) = p
    BY <1>1, <1>2, Operation DEF OpOf
  <1>4. charges[p] # <<>>
    BY <1>3 DEF Achieved, Charged
  <1>5. /\ UNCHANGED <<ledger, providerVars, koinVars>> /\ OnlyOp(o)
        /\ ops[o].kind # "chargeback" /\ ops'[o].p = p /\ ops'[o].pc = "zoop"
        /\ ops'[o].id = <<p, 1>> /\ ops'[o].action = Gw!Shop!ActionFor(o, p)
    BY <1>2, <1>4, LoadDoes
  <1>6. OpOf(o)'
    <2>1. Achieved(Before(o))'
      BY <1>3, <1>5 DEF Achieved, Is, Charged, ledger, providerVars
    <2>2. Gw!Shop!ActionFor(o, p)' = Gw!Shop!ActionFor(o, p)
      BY <1>5 DEF Gw!Shop!ActionFor, OnlyOp, ledger
    <2>3. ops'[o].kind = CallAt(o).call /\ ops'[o].kind # "chargeback"
      BY <1>2, <1>5 DEF OpOf, OnlyOp
    <2>4. QED
      BY <1>2, <1>5, <2>1, <2>2, <2>3 DEF OpOf
  <1>7. QED
    BY <1>1, <1>2, <1>5, <1>6, OpWorking
    DEF Rest, Idle, ledger, providerVars, koinVars

LEMMA ChargebackKeeps ==
    ASSUME HomologInv, NEW o \in CallNames \ Requests, NEW p \in Transacao(o[1], o[2]),
           Gw!Shop!Chargeback(o, p), UNCHANGED <<keys, wake, Rest>>
    PROVE  HomologInv'
  <1>1. ops[o].pc = "idle" /\ ops[o].kind = "chargeback"
    BY DEF Gw!Shop!Chargeback
  <1>2. /\ TypeOK /\ o \in Ops /\ OpOf(o) /\ PaymentOf(o) \in Requests
        /\ RowOf(PaymentOf(o)) /\ p \in DOMAIN payments /\ p = PaymentOf(o)
    BY <1>1, OpAtWork
  <1>3. /\ Achieved(Before(o)) /\ PaymentOf(Before(o)) = p
        /\ Goal(Before(o)) = "captured" /\ Goal(o) = "chargeback"
        /\ CallAt(o).call = "chargeback"
    BY <1>1, <1>2, Operation DEF OpOf
  <1>4. /\ UNCHANGED <<ledger, providerVars, koinVars>> /\ OnlyOp(o)
        /\ ops'[o].p = p /\ ops'[o].pc = "move" /\ ops'[o].to = "chargeback"
    BY <1>2, ChargebackDoes
  <1>5. OpOf(o)'
    <2>1. Is(p, "captured")' /\ Charged(p, FakeOf("chargeback"))'
      BY <1>3, <1>4 DEF Achieved, Is, Charged, FakeOf, ledger, providerVars
    <2>2. ops'[o].kind = CallAt(o).call
      BY <1>1, <1>3, <1>4 DEF OnlyOp
    <2>3. QED
      BY <1>2, <1>3, <1>4, <2>1, <2>2 DEF OpOf
  <1>6. QED
    BY <1>1, <1>2, <1>4, <1>5, OpWorking
    DEF Rest, Idle, ledger, providerVars, koinVars

LEMMA CallZoopKeeps ==
    ASSUME HomologInv, NEW o \in CallNames \ Requests, Gw!Shop!CallZoop(o),
           UNCHANGED <<keys, wake, Rest>>
    PROVE  HomologInv'
  <1> DEFINE p == PaymentOf(o)  from == Goal(Before(o))  to == Goal(o)
             a == ops[o].action
  <1>1. ops[o].pc = "zoop"
    BY DEF Gw!Shop!CallZoop
  <1>2. /\ TypeOK /\ o \in Ops /\ OpOf(o) /\ p \in Requests /\ RowOf(p)
    BY <1>1, OpAtWork
  <1>3. /\ Achieved(Before(o)) /\ PaymentOf(Before(o)) = p
        /\ \/ CallAt(o).call = "capture" /\ from = "authorized" /\ to = "captured"
           \/ /\ CallAt(o).call \in {"cancel", "cancel_part"}
              /\ from = "authorized" /\ to = "cancelled"
           \/ /\ CallAt(o).call \in {"cancel", "cancel_part"}
              /\ from = "captured" /\ to = "refunded"
           \/ CallAt(o).call = "chargeback" /\ from = "captured" /\ to = "chargeback"
    BY <1>1, <1>2, Operation DEF OpOf
  <1>4. /\ ops[o].kind = CallAt(o).call /\ ops[o].kind # "chargeback" /\ ops[o].p = p
        /\ ops[o].id = <<p, 1>> /\ a = Gw!Shop!ActionFor(o, p)
    BY <1>1, <1>2 DEF OpOf
  <1>5. p \in DOMAIN payments /\ payments[p].status = from /\ charges[p] # <<>>
        /\ fake[p] = <<FakeOf(from)>>
    BY <1>3 DEF Achieved, Is, Charged
  <1> HIDE DEF p, from, to, a
  <1>6. \/ a = "capture" /\ from = "authorized" /\ to = "captured"
        \/ a = "void" /\ from = "authorized" /\ to = "cancelled"
        \/ a = "refund" /\ from = "captured" /\ to = "refunded"
    BY <1>3, <1>4, <1>5 DEF Gw!Shop!ActionFor
  <1>7. /\ UNCHANGED <<ledger, zoop, hooks, koinVars>> /\ OnlyOp(o) /\ ops'[o].p = p
        /\ Gw!Provider!Fake!TypeOK' /\ \A q \in Requests \ {p} : fake'[q] = fake[q]
        /\ ops'[o].pc = "move" /\ ops'[o].to = Gw!Shop!TargetOf(a)
        /\ fake'[p] = CASE a = "capture" -> <<"captured">> [] a = "void" -> <<"reversed">>
                        [] a = "refund" -> fake[p]
    <2>1. a \in {"capture", "void", "refund"} /\ fake[p] # <<>>
      BY <1>5, <1>6
    <2>2. QED
      BY <1>2, <1>4, <1>5, <2>1, CallZoopDoes DEF a
  <1>8. Gw!Shop!TargetOf(a) = to /\ fake'[p] = <<FakeOf(to)>>
    BY <1>5, <1>6, <1>7 DEF Gw!Shop!TargetOf, FakeOf
  <1>9. OpOf(o)'
    <2>1. Is(p, from)' /\ Charged(p, FakeOf(to))'
      BY <1>5, <1>7, <1>8 DEF Is, Charged, ledger
    <2>2. ops'[o].kind = CallAt(o).call
      BY <1>4, <1>7 DEF OnlyOp
    <2>3. QED
      BY <1>7, <1>8, <2>1, <2>2 DEF OpOf, p, from, to
  <1>10. QED
    BY <1>1, <1>2, <1>5, <1>7, <1>9, OpWorking DEF Rest, Idle, ledger, koinVars, p

LEMMA OpMoveKeeps ==
    ASSUME HomologInv, NEW o \in CallNames \ Requests, Gw!Shop!Move(o),
           UNCHANGED <<keys, wake, Rest>>
    PROVE  HomologInv'
  <1> DEFINE p == PaymentOf(o)  from == Goal(Before(o))  to == Goal(o)
  <1>1. ops[o].pc = "move"
    BY DEF Gw!Shop!Move
  <1>2. /\ TypeOK /\ o \in Ops /\ OpOf(o) /\ p \in Requests /\ RowOf(p)
    BY <1>1, OpAtWork
  <1>3. /\ ops[o].kind = CallAt(o).call /\ ops[o].p = p /\ ops[o].to = to
        /\ Is(p, from) /\ Charged(p, FakeOf(to))
    BY <1>1, <1>2 DEF OpOf
  <1>4. Gw!Shop!Ledger!CanTransition(from, to)
    BY Operation, AllowedMoves
  <1> HIDE DEF p, from, to
  <1>5. /\ UNCHANGED <<providerVars, koinVars, charges>> /\ OnlyOp(o) /\ ops'[o].p = p
        /\ Gw!Ledger!TypeOK' /\ DOMAIN payments' = DOMAIN payments
        /\ \A q \in DOMAIN payments \ {p} : payments'[q] = payments[q]
        /\ payments'[p].store = payments[p].store /\ payments'[p].ref = payments[p].ref
        /\ payments'[p].status = to /\ ops'[o].pc = "notify" /\ p \in DOMAIN payments
    BY <1>2, <1>3, <1>4, OpMoveDoes DEF Is
  <1>6. OpOf(o)'
    <2>1. Achieved(o)'
      BY <1>3, <1>5 DEF Achieved, Is, Charged, providerVars, p, to
    <2>2. ops'[o].kind = CallAt(o).call
      BY <1>3, <1>5 DEF OnlyOp
    <2>3. QED
      BY <1>5, <2>1, <2>2 DEF OpOf, p
  <1>7. QED
    BY <1>1, <1>5, <1>6, OpWorking DEF Rest, Idle, providerVars, koinVars, p

LEMMA NotifyKeeps ==
    ASSUME HomologInv, NEW o \in CallNames \ Requests, Gw!Shop!NotifyOutcome(o),
           UNCHANGED <<keys, wake, Rest>>
    PROVE  HomologInv'
  <1>1. ops[o].pc = "notify"
    BY DEF Gw!Shop!NotifyOutcome
  <1>2. TypeOK /\ o \in Ops /\ OpOf(o)
    BY <1>1, OpAtWork
  <1>3. ops[o].kind = CallAt(o).call /\ ops[o].p = PaymentOf(o) /\ Achieved(o)
    BY <1>1, <1>2 DEF OpOf
  <1>4. /\ UNCHANGED <<ledger, providerVars, koinVars>> /\ OnlyOp(o)
        /\ ops'[o].p = PaymentOf(o) /\ ops'[o].pc \in {"notify", "done"}
    BY <1>2, <1>3, NotifyDoes
  <1>5. OpOf(o)'
    <2>1. Achieved(o)'
      BY <1>3, <1>4 DEF Achieved, Is, Charged, ledger, providerVars
    <2>2. ops'[o].kind = CallAt(o).call
      BY <1>3, <1>4 DEF OnlyOp
    <2>3. QED
      BY <1>4, <2>1, <2>2 DEF OpOf
  <1>6. PaymentOf(o) \in DOMAIN payments
    BY <1>3 DEF Achieved, Is
  <1>7. QED
    BY <1>1, <1>4, <1>5, <1>6, OpWorking DEF Rest, Idle, ledger, providerVars, koinVars

LEMMA OpStepKeeps ==
    ASSUME HomologInv, NEW o \in CallNames \ Requests, OpStep(o)
    PROVE  HomologInv'
  BY LoadKeeps, ChargebackKeeps, CallZoopKeeps, OpMoveKeeps, NotifyKeeps
  DEF OpStep, Gw!Shop!Continue

------------------------------------------------------------------------------
(***************************************************************************)
(* Steps of whoever comes later: of payments nobody else works on.         *)
(***************************************************************************)
Over(u) == run[u].pc \in {"ended", "dead"}

LEMMA RunOverRests ==
    ASSUME TypeOK, NEW u \in Runs, RunOf(u), Over(u), run'[u] = run[u], UNCHANGED session,
           issued' \in Nat, issued' >= issued, \A c \in CallsOf(u) : Pc(c)' = Pc(c)
    PROVE  RunOf(u)'
  <1>1. Plan' = Plan /\ CallsOf(u)' = CallsOf(u)
    BY DEF Plan, CallsOf
  <1>2. run[u].key \in Nat /\ issued \in Nat
    BY SomeKey DEF TypeOK, RunState
  <1>3. \A i \in DOMAIN run[u].reports :
           IF run[u].reports[i].ok THEN run[u].reports[i].finalStatus = Expected(Plan[i])
                                   ELSE run[u].key < issued'
    BY <1>2 DEF RunOf
  <1>4. run[u].key <= issued'
    BY <1>2 DEF RunOf
  <1>5. \A c \in CallsOf(u) : Pc(c) \in {"unsent", "done", "failed"}
    BY DEF RunOf, Over
  <1>6. QED
    BY <1>1, <1>3, <1>4, <1>5 DEF RunOf, Over, Alive

\* Of a payment of a run that is over the status may move, and the status of its charge.
Kept(q) ==
    /\ q \in DOMAIN payments => /\ payments'[q].store = payments[q].store
                                /\ payments'[q].ref = payments[q].ref
    /\ fake'[q] = <<>> <=> fake[q] = <<>>

LEMMA LateWorking ==
    ASSUME HomologInv, NEW o \in LateOps, Idle,
           UNCHANGED <<keys, wake, charges, issued, run, session>>,
           Gw!Shop!TypeOK', \A x \in Ops \ {o} : ops'[x] = ops[x],
           Gw!Ledger!TypeOK' \/ UNCHANGED ledger,
           Gw!Provider!Fake!TypeOK' \/ UNCHANGED fake,
           DOMAIN payments' = DOMAIN payments,
           \A q \in Requests :
               \/ Over(q[1]) /\ Kept(q)
               \/ fake'[q] = fake[q] /\ (q \in DOMAIN payments => payments'[q] = payments[q]),
           LateOf(o)'
    PROVE  HomologInv'
  <1>1. TypeOK'
    BY TypeStep DEF HomologInv
  <1>2. ASSUME NEW q \in Requests
        PROVE  RowOf(q)' /\ Kept(q)
    <2>1. Kept(q)
      BY DEF Kept
    <2>2. QED
      BY <2>1 DEF HomologInv, RowOf, Kept, BodyOf, RefOf, RunId
  <1>3. \A c \in CallNames \ Requests : ops'[c] = ops[c]
    BY LateIsNoCall DEF Ops
  <1>4. ASSUME NEW u \in Runs
        PROVE  RunOf(u)'
    <2>1. RunOf(u) /\ TypeOK /\ issued' \in Nat /\ issued' >= issued
      BY SomeKey DEF HomologInv, TypeOK
    <2>2. CASE Over(u)
      <3>1. \A c \in CallsOf(u) : Pc(c)' = Pc(c)
        BY <1>3 DEF CallsOf, Pc
      <3>2. QED
        BY <2>1, <2>2, <3>1, RunOverRests
    <2>3. CASE ~Over(u)
      <3>1. \A q \in Requests : q[1] = u => Same(q)
        BY <2>3 DEF Same
      <3>2. QED
        BY <1>3, <2>1, <3>1, RunRests
    <2>4. QED
      BY <2>2, <2>3
  <1>5. ASSUME NEW x \in LateOps, x # o
        PROVE  LateOf(x)'
    <2>1. LateOf(x) /\ ops'[x] = ops[x] /\ ops[x].p \in Requests
      BY <1>5, OpTypes DEF HomologInv, Ops
    <2>2. fake[ops[x].p] # <<>> => fake'[ops[x].p] # <<>>
      BY <1>2, <2>1 DEF Kept
    <2>3. QED
      BY <2>1, <2>2 DEF LateOf
  <1>6. QED
    BY <1>1, <1>2, <1>4, <1>5, OwnIdsRest DEF HomologInv

LEMMA CallLateKeeps ==
    ASSUME HomologInv, NEW o \in LateOps, CallLate(o)
    PROVE  HomologInv'
  <1>1. /\ TypeOK /\ o \in Ops /\ ops' = [ops EXCEPT ![o].pc = "idle", ![o].kind = o[2]]
        /\ UNCHANGED <<ledger, keys, providerVars, koinVars, wake, Rest>>
    BY DEF HomologInv, CallLate, Ops
  <1>2. ops \in [Ops -> Gw!Shop!OpState] /\ ops[o] \in Gw!Shop!OpState
    BY <1>1, OpTypes
  <1> DEFINE w == [ops[o] EXCEPT !.pc = "idle", !.kind = o[2]]
  <1>3. w \in Gw!Shop!OpState /\ w.pc = "idle"
    BY <1>2, LateCallsAreKinds DEF LateOps, Gw!Shop!OpState, Gw!Shop!OpKinds
  <1>4. ops' = [ops EXCEPT ![o] = w]
    BY <1>1, <1>2
  <1> HIDE DEF w
  <1>5. /\ Gw!Shop!TypeOK' /\ ops'[o].pc = "idle"
        /\ \A x \in Ops \ {o} : ops'[x] = ops[x]
    BY <1>1, <1>2, <1>3, <1>4 DEF Gw!Shop!TypeOK
  <1>6. LateOf(o)'
    BY <1>5 DEF LateOf
  <1>7. QED
    BY <1>1, <1>5, <1>6, LateWorking
    DEF Rest, Idle, ledger, providerVars, koinVars

LEMMA LateStepKeeps ==
    ASSUME HomologInv, NEW o \in LateOps, LateStep(o)
    PROVE  HomologInv'
  <1>1. TypeOK /\ o \in Ops /\ LateOf(o) /\ UNCHANGED <<keys, wake, Rest>>
    BY DEF HomologInv, LateStep, Ops
  <1>2. \A p \in DOMAIN payments : p \in Requests /\ RowOf(p)
    BY <1>1, RowTypes DEF HomologInv
  <1>3. ASSUME NEW p \in DOMAIN payments, run[p[1]].pc \in {"ended", "dead"},
               Gw!Shop!Load(o, p)
        PROVE  HomologInv'
    <2>1. p \in Requests /\ RowOf(p)
      BY <1>2
    <2>2. /\ UNCHANGED <<ledger, providerVars, koinVars>> /\ OnlyOp(o) /\ ops'[o].p = p
          /\ \/ /\ ops'[o].pc = "zoop" /\ ops'[o].id = <<p, 1>>
                /\ ops'[o].action \in {"capture", "void", "refund"}
             \/ ops'[o].pc = "failed"
      BY <1>1, <1>3, <2>1, LoadDoes
    <2>3. LateOf(o)'
      BY <1>1, <1>3, <2>2 DEF LateOf, Rest, ledger
    <2>4. QED
      BY <1>1, <2>2, <2>3, LateWorking
      DEF OnlyOp, Rest, Idle, ledger, providerVars, koinVars
  <1>4. CASE Gw!Shop!CallZoop(o)
    <2>1. ops[o].pc = "zoop"
      BY <1>4 DEF Gw!Shop!CallZoop
    <2>2. PICK p \in DOMAIN payments : p = ops[o].p
      BY <1>1, <2>1 DEF LateOf
    <2>3. /\ Over(p[1]) /\ ops[o].id = <<p, 1>> /\ p \in Requests
          /\ ops[o].action \in {"capture", "void", "refund"}
      BY <1>1, <1>2, <2>1, <2>2 DEF LateOf, Over
    <2>4. /\ UNCHANGED <<ledger, zoop, hooks, koinVars>> /\ OnlyOp(o) /\ ops'[o].p = p
          /\ ops'[o].action = ops[o].action
          /\ Gw!Provider!Fake!TypeOK' /\ \A q \in Requests \ {p} : fake'[q] = fake[q]
          /\ \/ /\ fake[p] # <<>> /\ ops'[o].pc = "move"
                /\ fake'[p] = CASE ops[o].action = "capture" -> <<"captured">>
                                [] ops[o].action = "void"    -> <<"reversed">>
                                [] ops[o].action = "refund"  -> fake[p]
             \/ ops'[o].pc = "failed" /\ UNCHANGED fake
      BY <1>1, <1>4, <2>2, <2>3, CallZoopDoes
    <2>5. /\ fake'[p] = <<>> <=> fake[p] = <<>>
          /\ ops'[o].pc = "move" => fake'[p] # <<>>
      BY <2>3, <2>4
    <2>6. LateOf(o)'
      BY <1>1, <2>2, <2>3, <2>4, <2>5 DEF LateOf, Over, Rest, ledger
    <2>7. \A q \in Requests :
               \/ Over(q[1]) /\ Kept(q)
               \/ fake'[q] = fake[q] /\ (q \in DOMAIN payments => payments'[q] = payments[q])
      BY <2>3, <2>4, <2>5 DEF Kept, ledger
    <2>8. QED
      BY <1>1, <2>4, <2>6, <2>7, LateWorking DEF OnlyOp, Rest, Idle, ledger, koinVars
  <1>5. CASE Gw!Shop!Move(o)
    <2>1. ops[o].pc = "move"
      BY <1>5 DEF Gw!Shop!Move
    <2>2. PICK p \in DOMAIN payments : p = ops[o].p
      BY <1>1, <2>1 DEF LateOf
    <2>3. /\ Over(p[1]) /\ p \in Requests /\ ops[o].action \in {"capture", "void", "refund"}
      BY <1>1, <1>2, <2>1, <2>2 DEF LateOf, Over
    <2>4. /\ UNCHANGED <<providerVars, koinVars, charges>> /\ OnlyOp(o) /\ ops'[o].p = p
          /\ ops'[o].action = ops[o].action /\ ops'[o].pc \in {"notify", "failed"}
          /\ Gw!Ledger!TypeOK' /\ DOMAIN payments' = DOMAIN payments
          /\ \A q \in DOMAIN payments \ {p} : payments'[q] = payments[q]
          /\ payments'[p].store = payments[p].store /\ payments'[p].ref = payments[p].ref
      BY <1>1, <1>5, <2>2, OpMoveDoes
    <2>5. LateOf(o)'
      BY <1>1, <2>2, <2>3, <2>4 DEF LateOf, Over, Rest
    <2>6. \A q \in Requests :
               \/ Over(q[1]) /\ Kept(q)
               \/ fake'[q] = fake[q] /\ (q \in DOMAIN payments => payments'[q] = payments[q])
      BY <2>3, <2>4 DEF Kept, providerVars
    <2>7. QED
      BY <1>1, <2>4, <2>5, <2>6, LateWorking DEF OnlyOp, Rest, Idle, providerVars, koinVars
  <1>6. CASE Gw!Shop!NotifyOutcome(o)
    <2>1. /\ ops[o].pc = "notify" /\ UNCHANGED <<ledger, providerVars, koinVars>>
          /\ OnlyOp(o) /\ ops'[o].p = ops[o].p /\ ops'[o].action = ops[o].action
          /\ ops'[o].pc \in {"notify", "done"}
      BY <1>1, <1>6, NotifyDoes
    <2>2. LateOf(o)'
      BY <1>1, <2>1 DEF LateOf, Rest, ledger
    <2>3. QED
      BY <1>1, <2>1, <2>2, LateWorking
      DEF OnlyOp, Rest, Idle, ledger, providerVars, koinVars
  <1>7. QED
    BY <1>3, <1>4, <1>5, <1>6 DEF LateStep, Gw!Shop!Continue

------------------------------------------------------------------------------
(***************************************************************************)
(* Steps of the runs.                                                      *)
(***************************************************************************)

\* The gateway rests.
LEMMA RunsMove ==
    ASSUME HomologInv, UNCHANGED <<gateway, session>>, issued' \in 0 .. MaxKeys,
           run' \in [Runs -> RunState], \A u \in Runs : RunOf(u)' /\ (Over(u) => Over(u)')
    PROVE  HomologInv'
  <1>1. /\ Idle /\ UNCHANGED <<ledger, fake, keys, wake, ops, session>>
    BY DEF Idle, gateway, providerVars, koinVars
  <1>2. TypeOK'
    BY <1>1, TypeStep DEF HomologInv
  <1>3. \A p \in Requests : RowOf(p)'
    BY <1>1 DEF HomologInv, RowOf, BodyOf, RefOf, RunId, ledger
  <1>4. ASSUME NEW o \in LateOps
        PROVE  LateOf(o)'
    <2>1. LateOf(o) /\ ops[o].p \in Requests /\ ops[o].p[1] \in Runs
      BY OpTypes, PaymentOfCall, Payment, CallParts DEF HomologInv, Ops
    <2>2. PICK u \in Runs : u = ops[o].p[1]
      BY <2>1
    <2>3. ops[o].pc \in {"zoop", "move", "notify"} => run'[u].pc \in {"ended", "dead"}
      <3>1. ops[o].pc \in {"zoop", "move", "notify"} => Over(u)
        BY <2>1, <2>2 DEF LateOf, Over
      <3>2. Over(u) => Over(u)'
        OBVIOUS
      <3>3. QED
        BY <3>1, <3>2 DEF Over
    <2>4. QED
      BY <1>1, <2>1, <2>2, <2>3 DEF LateOf, ledger
  <1>5. QED
    BY <1>2, <1>3, <1>4, OwnIdsRest DEF HomologInv

LEMMA AllRest ==
    ASSUME UNCHANGED gateway
    PROVE  /\ \A p \in Requests : Same(p)
           /\ \A c : Pc(c)' = Pc(c) /\ (Achieved(c)' <=> Achieved(c))
  BY DEF gateway, ledger, providerVars, Same, Pc, Achieved, Is, Charged

\* One run moves.
LEMMA OneRunMoves ==
    ASSUME HomologInv, NEW u \in Runs, NEW r \in RunState, ~Over(u),
           UNCHANGED <<gateway, issued, session>>, run' = [run EXCEPT ![u] = r], RunOf(u)'
    PROVE  HomologInv'
  <1>1. /\ TypeOK /\ issued \in Nat /\ issued \in 0 .. MaxKeys
        /\ run \in [Runs -> RunState]
    BY SomeKey DEF HomologInv, TypeOK
  <1>2. run' \in [Runs -> RunState] /\ \A v \in Runs \ {u} : run'[v] = run[v]
    BY <1>1
  <1>3. ASSUME NEW v \in Runs, v # u
        PROVE  RunOf(v)' /\ (Over(v) => Over(v)')
    <2>1. RunOf(v) /\ run'[v] = run[v] /\ ops' = ops /\ UNCHANGED session
      BY <1>2, <1>3 DEF HomologInv, gateway
    <2>2. issued' \in Nat /\ issued' >= issued
      BY <1>1
    <2>3. QED
      BY <1>1, <2>1, <2>2, AllRest, RunRests DEF Over
  <1>4. QED
    BY <1>1, <1>2, <1>3, RunsMove

LEMMA KeysKeep ==
    ASSUME HomologInv, Bootstrap \/ RotateKey
    PROVE  HomologInv'
  <1>1. TypeOK /\ issued \in 0 .. MaxKeys /\ session \in Sessions /\ MaxKeys \in Nat \ {0}
    BY SomeKey DEF HomologInv, TypeOK
  <1>2. session.keys \in 0 .. MaxKeys
    BY <1>1, SessionsAreRuns
  <1>3. UNCHANGED <<gateway, run, session>> /\ issued' = issued + 1
        /\ issued' \in 0 .. MaxKeys /\ issued' \in Nat /\ issued' >= issued
    <2>1. CASE Bootstrap
      BY <1>1, <2>1 DEF Bootstrap
    <2>2. CASE RotateKey
      BY <1>1, <1>2, <2>2 DEF RotateKey
    <2>3. QED
      BY <2>1, <2>2
  <1>4. ASSUME NEW u \in Runs
        PROVE  RunOf(u)' /\ (Over(u) => Over(u)')
    <2>1. RunOf(u) /\ run'[u] = run[u] /\ ops' = ops /\ UNCHANGED session
      BY <1>3 DEF HomologInv, gateway
    <2>2. QED
      BY <1>1, <1>3, <2>1, AllRest, RunRests DEF Over
  <1>5. run' \in [Runs -> RunState]
    BY <1>1, <1>3 DEF TypeOK
  <1>6. QED
    BY <1>3, <1>4, <1>5, RunsMove

LEMMA StartRunKeeps ==
    ASSUME HomologInv, NEW u \in Runs, StartRun(u)
    PROVE  HomologInv'
  <1>1. /\ TypeOK /\ RunOf(u) /\ run \in [Runs -> RunState] /\ run[u] \in RunState
        /\ run[u].pc = "new" /\ UNCHANGED <<gateway, issued, session>>
    BY DEF HomologInv, TypeOK, StartRun
  <1>2. PICK k \in 1 .. issued : run' = [run EXCEPT ![u].pc = "issue", ![u].key = k]
    BY DEF StartRun
  <1>3. issued \in 0 .. MaxKeys /\ MaxKeys \in Nat
    BY <1>1, SomeKey DEF TypeOK
  <1>4. k \in 0 .. MaxKeys /\ k <= issued
    BY <1>3
  <1> DEFINE r == [run[u] EXCEPT !.pc = "issue", !.key = k]
  <1>5. /\ r \in RunState /\ r.pc = "issue" /\ r.key = k /\ r.reports = run[u].reports
        /\ r.step = run[u].step
    BY <1>1, <1>4 DEF RunState
  <1>6. run' = [run EXCEPT ![u] = r]
    BY <1>1, <1>2
  <1> HIDE DEF r
  <1>7. run'[u] = r /\ r.reports = <<>> /\ r.step = 1
    BY <1>1, <1>5, <1>6 DEF RunOf
  <1>8. Plan \in Seq(Scenarios) /\ Plan # <<>> /\ Plan' = Plan
    BY <1>1, SessionsAreRuns DEF TypeOK, Plan
  <1>9. PICK n \in Nat : n = Len(Plan) /\ n > 0
    BY <1>8
  <1>10. Len(r.reports) = 0 /\ Scenario(u)' = Plan[1] /\ Plan[1] \in Scenarios
    <2>1. Len(r.reports) = 0
      BY <1>7
    <2>2. Len(r.reports) + 1 = 1
      BY <2>1
    <2>3. QED
      BY <1>7, <1>8, <1>9, <2>1, <2>2 DEF Scenario
  <1>11. PICK m \in 1 .. 3 : m = Len(Script(Plan[1]))
    BY <1>1, <1>10, LastCall
  <1>12. Alive(u)' /\ Len(run'[u].reports) < Len(Plan')
         /\ run'[u].step <= Len(Script(Scenario(u)')) + 1
    <2>1. Alive(u)'
      BY <1>5, <1>7 DEF Alive
    <2>2. Len(run'[u].reports) < Len(Plan')
      BY <1>7, <1>8, <1>9, <1>10
    <2>3. 1 <= m + 1
      OBVIOUS
    <2>4. QED
      BY <1>7, <1>10, <1>11, <2>1, <2>2, <2>3
  <1>13. \A c \in CallsOf(u) : Pc(c)' = "unsent"
    BY <1>1, AllRest DEF RunOf
  <1>14. RunOf(u)'
    BY <1>1, <1>4, <1>5, <1>7, <1>12, <1>13 DEF RunOf, CallsOf
  <1>15. QED
    BY <1>1, <1>5, <1>6, <1>14, OneRunMoves DEF Over

\* The next scenario has made no call.
LEMMA NextScenario ==
    ASSUME TypeOK, NEW u \in Runs, Len(run[u].reports) + 1 < Len(Plan)
    PROVE  LET next == Plan[Len(run[u].reports) + 2] IN
           next \in Scenarios /\ next \notin Reached(u)
  <1>1. /\ Plan \in Seq(Scenarios) /\ Len(run[u].reports) \in Nat
        /\ \A i, j \in DOMAIN Plan : Plan[i] = Plan[j] => i = j
    BY PlaceOf
  <1>2. PICK n \in Nat, m \in Nat : n = Len(run[u].reports) /\ m = Len(Plan)
    BY <1>1
  <1>3. n + 2 \in 1 .. m /\ n + 2 \notin 1 .. n + 1 /\ 1 .. n + 1 \subseteq 1 .. m
    BY <1>2
  <1>4. DOMAIN Plan = 1 .. m
    BY <1>1, <1>2
  <1>5. Plan[n + 2] \in Scenarios
    BY <1>1, <1>3, <1>4
  <1>6. \A i \in 1 .. n + 1 : Plan[i] # Plan[n + 2]
    BY <1>1, <1>3, <1>4
  <1>7. QED
    BY <1>2, <1>5, <1>6 DEF Reached

LEMMA RunAtNext ==
    ASSUME NEW x \in RunState, NEW pc \in {"issue", "ended"}, NEW reports \in Seq(Report)
    PROVE  [x EXCEPT !.pc = pc, !.step = 1, !.reports = reports] \in RunState
  <1> DEFINE S == Seq(Report)
             R == [pc : {"new", "issue", "wait", "ended", "dead"}, key : 0 .. MaxKeys,
                   step : 1 .. 4, reports : S]
  <1>1. x \in R /\ reports \in S /\ 1 \in 1 .. 4
    BY DEF RunState
  <1> HIDE DEF S
  <1>2. [x EXCEPT !.pc = pc, !.step = 1, !.reports = reports] \in R
    BY <1>1
  <1>3. QED
    BY <1>2 DEF S, RunState

LEMMA EndScenarioKeeps ==
    ASSUME HomologInv, NEW u \in Runs, Alive(u), NEW report \in Report,
           EndScenario(u, report), UNCHANGED <<gateway, issued, session>>,
           report.ok => report.finalStatus = Expected(Scenario(u)),
           ~report.ok => run[u].key < issued,
           \A c \in CallsOf(u) : Pc(c) \in {"unsent", "done", "failed"}
    PROVE  HomologInv'
  <1>1. /\ TypeOK /\ RunOf(u) /\ run \in [Runs -> RunState] /\ run[u] \in RunState
    BY DEF HomologInv, TypeOK
  <1>2. PICK n \in Nat, m \in Nat, plan \in Seq(Scenarios) :
            n = Len(run[u].reports) /\ m = Len(plan) /\ n < m /\ plan = Plan
    BY <1>1, PlaceOf DEF RunOf
  <1>3. PICK pc \in {"issue", "ended"} :
            pc = (IF n + 1 < m THEN "issue" ELSE "ended") /\ (pc = "issue" => n + 1 < m)
    OBVIOUS
  <1>4. run[u].reports \in Seq(Report)
    BY <1>1 DEF RunState
  <1>5. PICK reports \in Seq(Report) :
            /\ reports = Append(run[u].reports, report)
            /\ Len(reports) = n + 1
            /\ \A i \in 1 .. n : reports[i] = run[u].reports[i]
            /\ reports[n + 1] = report
            /\ DOMAIN run[u].reports = 1 .. n
    <2> DEFINE q == Append(run[u].reports, report)
    <2>1. q \in Seq(Report) /\ Len(q) = n + 1 /\ q[n + 1] = report
          /\ DOMAIN run[u].reports = 1 .. n
          /\ \A i \in 1 .. n : q[i] = run[u].reports[i]
      BY <1>2, <1>4
    <2>2. QED
      BY <2>1
  <1> DEFINE r == [run[u] EXCEPT !.pc = pc, !.step = 1, !.reports = reports]
  <1>6. /\ r \in RunState /\ r.key = run[u].key /\ r.step = 1
        /\ r.reports = reports /\ r.pc = pc
    <2>1. r \in RunState
      BY <1>1, RunAtNext
    <2>2. r.key = run[u].key /\ r.step = 1 /\ r.reports = reports /\ r.pc = pc
      BY <1>1 DEF RunState
    <2>3. QED
      BY <2>1, <2>2
  <1>7. run' = [run EXCEPT ![u] = r]
    BY <1>1, <1>2, <1>3, <1>5 DEF EndScenario
  <1> HIDE DEF r
  <1>8. run'[u] = r /\ Plan' = plan
    BY <1>1, <1>2, <1>7 DEF Plan
  <1>9. Len(r.reports) = n + 1
    BY <1>5, <1>6
  <1>10. \A i \in DOMAIN r.reports :
           IF r.reports[i].ok THEN r.reports[i].finalStatus = Expected(plan[i])
                              ELSE r.key < issued'
    <2>1. DOMAIN r.reports = 1 .. n + 1
      BY <1>5, <1>6, <1>9
    <2>2. ASSUME NEW i \in 1 .. n + 1
          PROVE  IF r.reports[i].ok THEN r.reports[i].finalStatus = Expected(plan[i])
                                    ELSE r.key < issued'
      <3>1. CASE i \in 1 .. n
        <4>1. r.reports[i] = run[u].reports[i] /\ i \in DOMAIN run[u].reports
          BY <1>5, <1>6, <3>1
        <4>2. QED
          BY <1>1, <1>2, <1>6, <4>1 DEF RunOf
      <3>2. CASE i = n + 1
        <4>1. r.reports[i] = report /\ Scenario(u) = plan[i]
          BY <1>2, <1>5, <1>6, <3>2 DEF Scenario
        <4>2. QED
          BY <1>6, <4>1
      <3>3. QED
        BY <3>1, <3>2
    <2>3. QED
      BY <2>1, <2>2
  <1>11. ASSUME n + 1 < m
         PROVE  /\ Scenario(u)' = plan[n + 2] /\ plan[n + 2] \in Scenarios
                /\ \A c \in CallsOf(u) : Ahead(u, c)' => Pc(c) = "unsent"
    <2>1. plan[n + 2] \in Scenarios /\ plan[n + 2] \notin Reached(u)
      BY <1>1, <1>2, <1>11, NextScenario
    <2>2. n + 1 + 1 = n + 2 /\ 1 .. n + 1 \subseteq 1 .. n + 1 + 1
      OBVIOUS
    <2>3. Scenario(u)' = plan[n + 2]
      BY <1>8, <1>9, <2>2 DEF Scenario
    <2>4. Reached(u) \subseteq Reached(u)'
      BY <1>2, <1>8, <1>9, <2>2 DEF Reached
    <2>5. ASSUME NEW c \in CallsOf(u), Ahead(u, c)'
          PROVE  Pc(c) = "unsent"
      <3>1. c[2] \notin Reached(u)
        BY <2>1, <2>3, <2>4, <2>5 DEF Ahead, Current
      <3>2. QED
        BY <1>1, <3>1 DEF Ahead, RunOf
    <2>6. QED
      BY <2>1, <2>3, <2>5
  <1>12. Alive(u)' => /\ n + 1 < m /\ Len(r.reports) < m
                      /\ r.step <= Len(Script(Scenario(u)')) + 1
    <2> SUFFICES ASSUME Alive(u)'
                 PROVE  n + 1 < m /\ r.step <= Len(Script(Scenario(u)')) + 1
      BY <1>9
    <2>1. n + 1 < m
      BY <1>3, <1>6, <1>8 DEF Alive
    <2>2. PICK k \in 1 .. 3 : k = Len(Script(Scenario(u)'))
      BY <1>11, <2>1, LastCall
    <2>3. QED
      BY <1>6, <2>1, <2>2
  <1>13. RunOf(u)'
    <2>1. r.pc \in {"issue", "ended"} /\ ~(r.step > 1)
      BY <1>6
    <2>2. \A c \in CallsOf(u) :
             /\ Alive(u)' /\ Ahead(u, c)' => Pc(c)' = "unsent"
             /\ Pc(c)' \in {"unsent", "done", "failed"}
      BY <1>11, <1>12, AllRest
    <2>3. r.key <= issued'
      BY <1>1, <1>6 DEF RunOf
    <2>4. QED
      BY <1>2, <1>8, <1>10, <1>12, <2>1, <2>2, <2>3 DEF RunOf, CallsOf
  <1>14. QED
    BY <1>1, <1>6, <1>7, <1>13, OneRunMoves DEF Over, Alive

\* A run that works has no call running when it is about to make one.
LEMMA NobodyWorks ==
    ASSUME HomologInv, NEW u \in Runs, run[u].pc = "issue"
    PROVE  /\ Alive(u) /\ \A c \in CallsOf(u) : Pc(c) \in {"unsent", "done", "failed"}
           /\ ~Resolves(u) => run[u].key < issued
  <1>1. RunOf(u) /\ run[u].key \in Nat /\ issued \in Nat
    BY SomeKey DEF HomologInv, TypeOK, RunState
  <1>2. ~Resolves(u) => run[u].key < issued
    BY <1>1 DEF RunOf, Resolves
  <1>3. QED
    BY <1>1, <1>2 DEF RunOf, Alive

LEMMA FailureKeeps ==
    ASSUME HomologInv, NEW u \in Runs, run[u].pc = "issue", ~Resolves(u),
           EndScenario(u, Failed), UNCHANGED <<gateway, issued, session>>
    PROVE  HomologInv'
  <1>1. Failed \in Report /\ ~Failed.ok
    BY DEF Failed, Report
  <1>2. QED
    BY <1>1, NobodyWorks, EndScenarioKeeps

LEMMA FinishKeeps ==
    ASSUME HomologInv, NEW u \in Runs, Finish(u)
    PROVE  HomologInv'
  <1>1. TypeOK /\ RunOf(u) /\ run[u].pc = "issue" /\ AtFinish(u) /\ run[u] \in RunState
        /\ UNCHANGED <<gateway, issued, session>>
    BY DEF HomologInv, TypeOK, Finish
  <1>2. CASE ~Resolves(u)
    BY <1>1, <1>2, FailureKeeps DEF Finish
  <1>3. CASE Resolves(u)
    <2>1. PICK p \in Transacao(u, Scenario(u)) :
              EndScenario(u, [ok |-> TRUE, finalStatus |-> payments[p].status])
      BY <1>3 DEF Finish
    <2>2. PICK s \in Scenarios, k \in 1 .. 4 : s = Scenario(u) /\ k = run[u].step
      BY <1>1, PlaceOf DEF RunOf, Alive, RunState
    <2>3. PICK l \in 1 .. 3 : l = Len(Script(s))
      BY LastCall
    <2>4. k = l + 1 /\ k - 1 = l /\ k > 1
      BY <1>1, <2>2, <2>3 DEF RunOf, Alive, AtFinish
    <2>5. Before(Current(u)) = <<u, s, l>>
      BY <2>2, <2>4 DEF Before, Current
    <2>6. Achieved(<<u, s, l>>)
      BY <1>1, <2>2, <2>4, <2>5 DEF RunOf
    <2>7. Is(LastPay(u, s), Expected(s))
      BY <2>3, <2>6, LastCall DEF Achieved
    <2>8. p \in DOMAIN payments /\ payments[p].ref = RefOf(LastPay(u, s))
      BY <2>1, <2>2 DEF Transacao, Gw!Ledger!FindByExternalRef, Gw!Ledger!Exists
    <2>9. p = LastPay(u, s)
      <3>1. p \in Requests /\ payments[p].ref = RefOf(p)
        BY <1>1, <2>8, RowTypes DEF HomologInv, RowOf
      <3>2. LastPay(u, s) \in Requests
        BY LastPayIsPay
      <3>3. QED
        BY <2>8, <3>1, <3>2, Payment, RefsDiffer DEF HomologInv
    <2>10. payments[p].status = Expected(s) /\ payments[p].status \in Statuses
      BY <1>1, <2>7, <2>8, <2>9, RowTypes DEF Is
    <2> DEFINE report == [ok |-> TRUE, finalStatus |-> payments[p].status]
    <2>11. report \in Report /\ report.ok /\ report.finalStatus = Expected(s)
      BY <2>10 DEF Report
    <2>12. EndScenario(u, report)
      BY <2>1
    <2> HIDE DEF report
    <2>13. QED
      BY <1>1, <2>2, <2>11, <2>12, NobodyWorks, EndScenarioKeeps
  <1>4. QED
    BY <1>2, <1>3

\* Where a run that works is in its script.
LEMMA AtStep ==
    ASSUME HomologInv, NEW u \in Runs, Alive(u)
    PROVE  \E s \in Scenarios, k \in 1 .. 4, l \in 1 .. 3 :
               /\ s = Scenario(u) /\ k = run[u].step /\ l = Len(Script(s)) /\ k <= l + 1
               /\ Current(u) = <<u, s, k>>
               /\ k <= l => Current(u) \in CallNames
               /\ k > 1 => Before(Current(u)) = <<u, s, k - 1>>
                           /\ Before(Current(u)) \in CallNames
  <1>1. TypeOK /\ RunOf(u) /\ run[u] \in RunState
    BY DEF HomologInv, TypeOK
  <1>2. PICK s \in Scenarios, k \in 1 .. 4 : s = Scenario(u) /\ k = run[u].step
    BY <1>1, PlaceOf DEF RunOf, RunState
  <1>3. PICK l \in 1 .. 3 : l = Len(Script(s))
    BY LastCall
  <1>4. k <= l + 1 /\ Current(u) = <<u, s, k>>
    BY <1>1, <1>2, <1>3 DEF RunOf, Current
  <1>5. k <= l => <<u, s, k>> \in CallNames
    BY <1>3, IsCall
  <1>6. k > 1 => <<u, s, k - 1>> \in CallNames
    <2>1. k > 1 => k - 1 \in Nat /\ k - 1 >= 1 /\ k - 1 <= l
      BY <1>4
    <2>2. QED
      BY <1>3, <2>1, IsCall
  <1>7. Before(Current(u)) = <<u, s, k - 1>>
    BY <1>4 DEF Before
  <1>8. QED
    BY <1>2, <1>3, <1>4, <1>5, <1>6, <1>7

\* A call starts, and its run waits for it.
LEMMA CallStarts ==
    ASSUME HomologInv, NEW u \in Runs, NEW c \in CallNames, c = Current(u),
           run[u].pc = "issue", Goto(u, "wait", run[u].step),
           Idle, UNCHANGED <<ledger, fake, keys, issued, session>>,
           Gw!Wake!TypeOK' \/ UNCHANGED wake, Gw!Shop!TypeOK' \/ UNCHANGED ops,
           \A q \in Requests \ {c} : wake'[q] = wake[q],
           \A o \in Ops \ {c} : ops'[o] = ops[o],
           (c \in Requests /\ RowOf(c)' /\ PayOf(c)') \/ (c \notin Requests /\ OpOf(c)')
    PROVE  HomologInv'
  <1>1. /\ TypeOK /\ RunOf(u) /\ run \in [Runs -> RunState] /\ run[u] \in RunState
        /\ issued \in Nat /\ c[1] = u
    BY SomeKey DEF HomologInv, TypeOK, Current
  <1> DEFINE r == [run[u] EXCEPT !.pc = "wait", !.step = run[u].step]
  <1>2. run' = [run EXCEPT ![u] = r]
    BY <1>1 DEF Goto
  <1>3. /\ r \in RunState /\ r.pc = "wait" /\ r.step = run[u].step /\ r.key = run[u].key
        /\ r.reports = run[u].reports
    BY <1>1 DEF RunState
  <1> HIDE DEF r
  <1>4. /\ run'[u] = r /\ run' \in [Runs -> RunState]
        /\ \A v \in Runs \ {u} : run'[v] = run[v]
    BY <1>1, <1>2, <1>3
  <1>5. TypeOK'
    BY <1>1, <1>4, TypeStep DEF ledger
  <1>6. \A q \in Requests \ {c} : Same(q)
    BY DEF Same, ledger
  <1>7. \A q \in Requests : RowOf(q)'
    <2> TAKE q \in Requests
    <2>1. CASE q = c
      BY <2>1
    <2>2. CASE q # c
      BY <1>6, <2>2, RowRests DEF HomologInv
    <2>3. QED
      BY <2>1, <2>2
  <1>8. ASSUME NEW v \in Runs, v # u
        PROVE  RunOf(v)'
    <2>1. RunOf(v) /\ run'[v] = run[v] /\ issued' \in Nat /\ issued' >= issued
      BY <1>1, <1>4, <1>8 DEF HomologInv
    <2>2. \A p \in Requests : p[1] = v => Same(p)
      BY <1>1, <1>6, <1>8
    <2>3. \A o \in CallNames \ Requests : o[1] = v => ops'[o] = ops[o]
      BY <1>1, <1>8 DEF Ops
    <2>4. QED
      BY <1>1, <2>1, <2>2, <2>3, RunRests
  <1>9. RunOf(u)'
    <2>1. Scenario(u)' = Scenario(u) /\ Current(u)' = c /\ Reached(u)' = Reached(u)
          /\ Plan' = Plan
      BY <1>3, <1>4 DEF Scenario, Current, Reached, Plan
    <2>2. \A d \in CallsOf(u) : d # c => Pc(d)' = Pc(d)
      BY DEF CallsOf, Pc, Ops
    <2>3. \A d : Ahead(u, d)' => Ahead(u, d)
      BY <1>3, <1>4, <2>1 DEF Ahead
    <2>4. ~Ahead(u, c)'
      <3>1. PICK n \in Nat : n = Len(run[u].reports)
        BY <1>1, PlaceOf
      <3>2. Scenario(u) \in Reached(u)
        <4>1. n + 1 \in 1 .. n + 1
          OBVIOUS
        <4>2. QED
          BY <3>1, <4>1 DEF Scenario, Reached
      <3>3. c[2] = Scenario(u) /\ c[3] = run[u].step /\ run[u].step \in Nat
        BY <1>1 DEF Current, RunState
      <3>4. QED
        BY <1>3, <1>4, <2>1, <3>2, <3>3 DEF Ahead
    <2>5. \A d \in CallsOf(u) :
             /\ Ahead(u, d)' => Pc(d)' = "unsent"
             /\ Pc(d)' \notin {"unsent", "done", "failed"} => d = c
      <3> TAKE d \in CallsOf(u)
      <3>1. CASE d = c
        BY <2>4, <3>1
      <3>2. CASE d # c
        BY <1>1, <2>2, <2>3, <3>2 DEF RunOf, Alive
      <3>3. QED
        BY <3>1, <3>2
    <2>6. (IF Current(u) \in Requests THEN PayOf(Current(u)) ELSE OpOf(Current(u)))'
      BY <2>1
    <2>7. Alive(u)' /\ Len(r.reports) < Len(Plan) /\ r.step <= Len(Script(Scenario(u))) + 1
      BY <1>1, <1>3, <1>4 DEF RunOf, Alive
    <2>8. QED
      BY <1>1, <1>3, <1>4, <2>1, <2>5, <2>6, <2>7 DEF RunOf, CallsOf
  <1>10. ASSUME NEW o \in LateOps
         PROVE  LateOf(o)'
    <2>1. LateOf(o) /\ o \in Ops /\ o # c
      BY LateIsNoCall DEF HomologInv, Ops
    <2>2. ops'[o] = ops[o] /\ ops[o].p \in Requests
      BY <1>1, <2>1, OpTypes
    <2>3. PICK v \in Runs : v = ops[o].p[1]
      BY <2>2, Payment, CallParts
    <2>4. run[v].pc \in {"ended", "dead"} => run'[v].pc \in {"ended", "dead"}
      BY <1>4
    <2>5. QED
      BY <2>1, <2>2, <2>3, <2>4 DEF LateOf, ledger
  <1>11. QED
    BY <1>5, <1>7, <1>8, <1>9, <1>10, OwnIdsRest DEF HomologInv

LEMMA IssueKeeps ==
    ASSUME HomologInv, NEW u \in Runs, Issue(u)
    PROVE  HomologInv'
  <1>1. /\ TypeOK /\ RunOf(u) /\ run[u].pc = "issue" /\ ~AtFinish(u) /\ Alive(u)
        /\ UNCHANGED <<ledger, keys, providerVars, koinVars, acked, todo, issued, session>>
    BY DEF HomologInv, Issue, Alive
  <1>2. PICK s \in Scenarios, k \in 1 .. 4, l \in 1 .. 3 :
               /\ s = Scenario(u) /\ k = run[u].step /\ l = Len(Script(s)) /\ k <= l + 1
               /\ Current(u) = <<u, s, k>>
               /\ k <= l => Current(u) \in CallNames
               /\ k > 1 => Before(Current(u)) = <<u, s, k - 1>>
                           /\ Before(Current(u)) \in CallNames
    BY <1>1, AtStep
  <1>3. k <= l
    BY <1>1, <1>2 DEF AtFinish
  <1>4. PICK c \in CallNames : c = Current(u) /\ c = <<u, s, k>>
    BY <1>2, <1>3
  <1>5. Pc(c) = "unsent"
    BY <1>1, <1>4 DEF RunOf, Ahead, CallsOf
  <1>6. Idle /\ UNCHANGED <<ledger, fake, keys, issued, session>>
    BY <1>1 DEF Idle, providerVars, koinVars
  <1>7. CASE ~Resolves(u)
    <2>1. EndScenario(u, Failed) /\ UNCHANGED <<gateway, issued, session>>
      BY <1>1, <1>7 DEF Issue, gateway
    <2>2. QED
      BY <1>1, <1>7, <2>1, FailureKeeps
  <1>8. CASE Resolves(u) /\ c \in Requests
    <2>1. /\ wake' = [wake EXCEPT ![c].pc = "find", ![c].body = BodyOf(c)]
          /\ UNCHANGED ops /\ Goto(u, "wait", run[u].step)
      BY <1>4, <1>8 DEF Issue
    <2>2. /\ wake \in [Requests -> Gw!Wake!RequestState] /\ wake[c] \in Gw!Wake!RequestState
          /\ RowOf(c)
      BY <1>1, <1>8 DEF HomologInv, TypeOK, Gw!TypeOK, Gw!Wake!TypeOK
    <2>3. BodyOf(c) \in Gw!Wake!Body
      BY <1>1, <1>8, Payment, IsRef DEF TypeOK, BodyOf, Gw!Wake!Body, Gw!Wake!Provider!Methods
    <2> DEFINE w == [wake[c] EXCEPT !.pc = "find", !.body = BodyOf(c)]
    <2>4. w \in Gw!Wake!RequestState /\ w.pc = "find" /\ w.body = BodyOf(c)
      BY <2>2, <2>3 DEF Gw!Wake!RequestState, Gw!Wake!Pcs
    <2>5. wake' = [wake EXCEPT ![c] = w]
      BY <2>1, <2>2
    <2> HIDE DEF w
    <2>6. /\ Gw!Wake!TypeOK' /\ wake'[c] = w /\ \A q \in Requests \ {c} : wake'[q] = wake[q]
      BY <1>8, <2>2, <2>4, <2>5 DEF Gw!Wake!TypeOK
    <2>7. RowOf(c)'
      <3>1. wake[c].pc = "unsent"
        BY <1>5, <1>8 DEF Pc
      <3>2. QED
        BY <1>6, <2>2, <2>4, <2>6, <3>1 DEF RowOf, NotCreated, BodyOf, RefOf, RunId, ledger
    <2>8. PayOf(c)'
      BY <2>4, <2>6 DEF PayOf
    <2>9. QED
      BY <1>1, <1>4, <1>6, <1>8, <2>1, <2>6, <2>7, <2>8, CallStarts
  <1>9. CASE Resolves(u) /\ c \notin Requests
    <2>1. /\ ops' = [ops EXCEPT ![c].pc = "idle", ![c].kind = CallAt(c).call]
          /\ UNCHANGED wake /\ Goto(u, "wait", run[u].step)
      BY <1>4, <1>9 DEF Issue
    <2>2. /\ ops \in [Ops -> Gw!Shop!OpState] /\ ops[c] \in Gw!Shop!OpState /\ c \in Ops
      BY <1>1, <1>9, OpTypes DEF Ops
    <2>3. /\ CallAt(c).call \in Gw!Shop!OpKinds /\ c[3] > 1
      BY <1>9, Operation DEF Gw!Shop!OpKinds
    <2> DEFINE w == [ops[c] EXCEPT !.pc = "idle", !.kind = CallAt(c).call]
    <2>4. w \in Gw!Shop!OpState /\ w.pc = "idle" /\ w.kind = CallAt(c).call
      BY <2>2, <2>3 DEF Gw!Shop!OpState
    <2>5. ops' = [ops EXCEPT ![c] = w]
      BY <2>1, <2>2
    <2> HIDE DEF w
    <2>6. /\ Gw!Shop!TypeOK' /\ ops'[c] = w /\ \A o \in Ops \ {c} : ops'[o] = ops[o]
      BY <2>2, <2>4, <2>5 DEF Gw!Shop!TypeOK
    <2>7. Achieved(Before(c))
      <3>1. run[u].step > 1
        BY <1>2, <1>4, <2>3
      <3>2. QED
        BY <1>1, <1>4, <3>1 DEF RunOf
    <2>8. Achieved(Before(c))'
      BY <1>6, <2>7 DEF Achieved, Is, Charged, ledger
    <2>9. OpOf(c)'
      BY <2>4, <2>6, <2>8 DEF OpOf
    <2>10. QED
      BY <1>1, <1>4, <1>6, <1>9, <2>1, <2>6, <2>9, CallStarts
  <1>10. QED
    BY <1>7, <1>8, <1>9

LEMMA ReturnedKeeps ==
    ASSUME HomologInv, NEW u \in Runs, Returned(u)
    PROVE  HomologInv'
  <1>1. /\ TypeOK /\ RunOf(u) /\ run[u].pc = "wait" /\ Alive(u)
        /\ run \in [Runs -> RunState] /\ run[u] \in RunState
        /\ UNCHANGED <<gateway, issued, session>>
    BY DEF HomologInv, TypeOK, Returned, Alive
  <1>2. PICK s \in Scenarios, k \in 1 .. 4, l \in 1 .. 3 :
               /\ s = Scenario(u) /\ k = run[u].step /\ l = Len(Script(s)) /\ k <= l + 1
               /\ Current(u) = <<u, s, k>>
    BY <1>1, AtStep
  <1>3. PICK c \in CallNames : c = Current(u) /\ c = <<u, s, k>>
    BY <1>1, <1>2 DEF RunOf
  <1>4. k <= l
    BY <1>2, <1>3, CallParts
  <1>5. IF c \in Requests THEN PayOf(c) ELSE OpOf(c)
    BY <1>1, <1>3 DEF RunOf
  <1>6. Pc(c) # "failed"
    <2>1. CASE c \in Requests
      BY <1>5, <2>1 DEF Pc, PayOf
    <2>2. CASE c \notin Requests
      BY <1>5, <2>2 DEF Pc, OpOf
    <2>3. QED
      BY <2>1, <2>2
  <1>7. /\ Pc(c) = "done"
        /\ Goto(u, "issue", run[u].step + (IF Skips(u, c) THEN 2 ELSE 1))
    BY <1>3, <1>6 DEF Returned, Pc
  <1>8. Achieved(c) /\ ~Skips(u, c)
    <2>1. CASE c \in Requests
      <3>1. Achieved(c) /\ (Goal(c) = "authorized" => wake[c].resp.statusId = 1)
        BY <1>5, <1>7, <2>1 DEF Pc, PayOf
      <3>2. QED
        BY <2>1, <3>1, Payment DEF Skips
    <2>2. CASE c \notin Requests
      BY <1>5, <1>7, <2>2 DEF Pc, OpOf, Skips
    <2>3. QED
      BY <2>1, <2>2
  <1>9. Goto(u, "issue", k + 1)
    BY <1>2, <1>7, <1>8
  <1> DEFINE r == [run[u] EXCEPT !.pc = "issue", !.step = k + 1]
  <1>10. run' = [run EXCEPT ![u] = r]
    BY <1>1, <1>9 DEF Goto
  <1>11. k + 1 \in 1 .. 4 /\ k + 1 <= l + 1 /\ k + 1 - 1 = k
    BY <1>4
  <1>12. /\ r \in RunState /\ r.pc = "issue" /\ r.step = k + 1 /\ r.key = run[u].key
         /\ r.reports = run[u].reports
    BY <1>1, <1>11 DEF RunState
  <1> HIDE DEF r
  <1>13. run'[u] = r
    BY <1>1, <1>10
  <1>14. Scenario(u)' = s /\ Reached(u)' = Reached(u) /\ Plan' = Plan
         /\ Current(u)' = <<u, s, k + 1>>
    BY <1>1, <1>2, <1>12, <1>13 DEF Scenario, Reached, Plan, Current
  <1>15. Achieved(Before(Current(u)))'
    <2>1. Before(Current(u))' = c
      BY <1>3, <1>11, <1>14 DEF Before
    <2>2. Achieved(c)'
      BY <1>1, <1>8, AllRest
    <2>3. QED
      BY <2>1, <2>2
  <1>16. \A d \in CallsOf(u) : Ahead(u, d)' => Pc(d)' = "unsent"
    <2> SUFFICES ASSUME NEW d \in CallsOf(u), Ahead(u, d)'
                 PROVE  Pc(d)' = "unsent"
      OBVIOUS
    <2>1. d \in CallNames /\ d[3] \in 1 .. 3
      BY CallParts DEF CallsOf
    <2>2. d[2] \in Reached(u) => d[2] = s /\ d[3] > k
      <3>1. CASE d[2] = s /\ d[3] > k + 1
        BY <2>1, <3>1
      <3>2. CASE d = <<u, s, k + 1>>
        BY <3>2
      <3>3. QED
        BY <1>12, <1>13, <1>14, <3>1, <3>2 DEF Ahead
    <2>3. Ahead(u, d)
      BY <1>2, <2>2 DEF Ahead
    <2>4. QED
      BY <1>1, <2>3, AllRest DEF RunOf
  <1>17. \A d \in CallsOf(u) : Pc(d)' \in {"unsent", "done", "failed"}
    <2>1. \A d \in CallsOf(u) : Pc(d) \in {"unsent", "done", "failed"}
      BY <1>1, <1>3, <1>7 DEF RunOf
    <2>2. QED
      BY <1>1, <2>1, AllRest
  <1>18. RunOf(u)'
    <2>1. Len(r.reports) < Len(Plan) /\ r.step <= Len(Script(s)) + 1 /\ r.key <= issued
      BY <1>1, <1>2, <1>11, <1>12 DEF RunOf
    <2>2. QED
      BY <1>1, <1>12, <1>13, <1>14, <1>15, <1>16, <1>17, <2>1 DEF RunOf, CallsOf
  <1>19. QED
    BY <1>1, <1>10, <1>12, <1>18, OneRunMoves DEF Over

------------------------------------------------------------------------------
(***************************************************************************)
(* The process stops: runs and handlers with it, and the double's charges. *)
(***************************************************************************)
LEMMA RestartKeeps ==
    ASSUME HomologInv, Restart
    PROVE  HomologInv'
  <1>1. /\ TypeOK /\ UNCHANGED <<ledger, keys, zoop, hooks, koinVars, acked, todo,
                                 issued, session>>
        /\ fake' = [p \in Requests |-> <<>>]
    BY DEF HomologInv, Restart, Gw!Provider!Fake!Forget, Gw!PaymentIds
  <1>2. /\ wake \in [Requests -> Gw!Wake!RequestState] /\ ops \in [Ops -> Gw!Shop!OpState]
        /\ run \in [Runs -> RunState]
    BY <1>1 DEF TypeOK, Gw!TypeOK, Gw!Wake!TypeOK, Gw!Shop!TypeOK
  <1>3. Gw!Provider!Fake!TypeOK'
    BY <1>1 DEF Gw!Provider!Fake!TypeOK, Gw!PaymentIds
  <1>4. /\ Gw!Wake!TypeOK'
        /\ \A c \in Requests :
              /\ wake'[c].body = wake[c].body
              /\ IF wake[c].pc \in {"unsent", "done", "failed"} THEN wake'[c].pc = wake[c].pc
                                                                ELSE wake'[c].pc = "failed"
    <2>1. \A c \in Requests : [wake[c] EXCEPT !.pc = "failed"] \in Gw!Wake!RequestState
      BY <1>2 DEF Gw!Wake!RequestState, Gw!Wake!Pcs
    <2>2. wake' = [c \in Requests |->
                      IF wake[c].pc \in {"unsent", "done", "failed"} THEN wake[c]
                      ELSE [wake[c] EXCEPT !.pc = "failed"]]
      BY DEF Restart, Gw!Wake!Ended, Gw!Wake!At
    <2>3. Gw!Wake!TypeOK'
      BY <1>2, <2>1, <2>2 DEF Gw!Wake!TypeOK
    <2>4. \A c \in Requests : [wake[c] EXCEPT !.pc = "failed"].pc = "failed"
                              /\ [wake[c] EXCEPT !.pc = "failed"].body = wake[c].body
      BY <1>2 DEF Gw!Wake!RequestState
    <2>5. QED
      BY <2>2, <2>3, <2>4
  <1>5. /\ Gw!Shop!TypeOK'
        /\ \A o \in Ops : IF ops[o].pc \in {"unsent", "done", "failed"}
                          THEN ops'[o].pc = ops[o].pc ELSE ops'[o].pc = "failed"
    <2>1. \A o \in Ops : [ops[o] EXCEPT !.pc = "failed"] \in Gw!Shop!OpState
      BY <1>2 DEF Gw!Shop!OpState
    <2>2. ops' = [o \in Ops |->
                      IF ops[o].pc \in {"unsent", "done", "failed"} THEN ops[o]
                      ELSE [ops[o] EXCEPT !.pc = "failed"]]
      BY DEF Restart, Gw!Shop!Ended
    <2>3. Gw!Shop!TypeOK'
      BY <1>2, <2>1, <2>2 DEF Gw!Shop!TypeOK
    <2>4. \A o \in Ops : [ops[o] EXCEPT !.pc = "failed"].pc = "failed"
      BY <1>2 DEF Gw!Shop!OpState
    <2>5. QED
      BY <2>2, <2>3, <2>4
  <1>6. /\ run' \in [Runs -> RunState]
        /\ \A u \in Runs :
              /\ run'[u].key = run[u].key /\ run'[u].reports = run[u].reports
              /\ run'[u].pc \in {"new", "ended", "dead"}
              /\ run'[u].pc = "new" => run[u].pc = "new" /\ run'[u].step = run[u].step
    <2>1. \A u \in Runs : [run[u] EXCEPT !.pc = "dead"] \in RunState
      BY <1>2 DEF RunState
    <2>2. run' = [u \in Runs |-> IF run[u].pc \in {"issue", "wait"}
                                 THEN [run[u] EXCEPT !.pc = "dead"] ELSE run[u]]
      BY DEF Restart
    <2>3. run' \in [Runs -> RunState]
      BY <1>2, <2>1, <2>2
    <2>4. \A u \in Runs : /\ [run[u] EXCEPT !.pc = "dead"].pc = "dead"
                          /\ [run[u] EXCEPT !.pc = "dead"].key = run[u].key
                          /\ [run[u] EXCEPT !.pc = "dead"].reports = run[u].reports
      BY <1>2 DEF RunState
    <2>5. \A u \in Runs : run[u].pc \in {"new", "issue", "wait", "ended", "dead"}
      BY <1>2 DEF RunState
    <2>6. QED
      BY <2>2, <2>3, <2>4, <2>5
  <1>7. TypeOK'
    BY <1>1, <1>3, <1>4, <1>5, <1>6, TypeStep DEF Idle, koinVars
  <1>8. ASSUME NEW p \in Requests
        PROVE  RowOf(p)'
    <2>1. RowOf(p) /\ fake'[p] = <<>>
      BY <1>1 DEF HomologInv
    <2>2. QED
      BY <1>1, <1>4, <2>1 DEF RowOf, NotCreated, BodyOf, RefOf, RunId, ledger
  <1>9. ASSUME NEW u \in Runs
        PROVE  RunOf(u)'
    <2>1. RunOf(u) /\ Plan' = Plan /\ issued' = issued
      BY <1>1 DEF HomologInv, Plan
    <2>2. \A c \in CallsOf(u) : /\ Pc(c)' \in {"unsent", "done", "failed"}
                                /\ Pc(c) = "unsent" => Pc(c)' = "unsent"
      <3> SUFFICES ASSUME NEW c \in CallNames
                   PROVE  /\ Pc(c)' \in {"unsent", "done", "failed"}
                          /\ Pc(c) = "unsent" => Pc(c)' = "unsent"
        BY DEF CallsOf
      <3>1. CASE c \in Requests
        BY <1>4, <3>1 DEF Pc
      <3>2. CASE c \notin Requests
        BY <1>5, <3>2 DEF Pc, Ops
      <3>3. QED
        BY <3>1, <3>2
    <2>3. ~Alive(u)' /\ run'[u].pc # "issue" /\ run'[u].pc # "wait"
      BY <1>6 DEF Alive
    <2>4. QED
      BY <1>6, <2>1, <2>2, <2>3 DEF RunOf, CallsOf
  <1>10. \A o \in LateOps : LateOf(o)'
    BY <1>5 DEF LateOf, Ops
  <1>11. QED
    BY <1>1, <1>7, <1>8, <1>9, <1>10, OwnIdsRest DEF HomologInv

------------------------------------------------------------------------------
(***************************************************************************)
(* The theorems.                                                           *)
(***************************************************************************)
LEMMA InitHolds == Init /\ OwnIds => HomologInv
  <1> SUFFICES ASSUME Init, OwnIds
               PROVE  HomologInv
    OBVIOUS
  <1>1. /\ Gw!Ledger!Init /\ Gw!Provider!BothInit /\ Gw!Risk!Init /\ Gw!Keys!Init
        /\ Gw!Hooks!Init /\ Gw!Wake!Init(<<>>) /\ Gw!Shop!Init(<<>>)
        /\ issued = 0 /\ session \in Sessions
        /\ run = [u \in Runs |-> [pc |-> "new", key |-> 0, step |-> 1, reports |-> <<>>]]
    BY DEF Init, Gw!Init
  <1>2. DOMAIN <<>> = {}
    OBVIOUS
  <1>3. PICK q : q \in Requests
    <2>1. PICK u \in Runs : TRUE
      BY RunsAreNamed
    <2>2. "pix_pedido" \in Scenarios
      BY ScenarioNames
    <2>3. QED
      BY <2>1, <2>2, LastPayIsPay
  <1>4. Gw!Ledger!TypeOK /\ DOMAIN payments = {} /\ charges = [p \in Requests |-> <<>>]
    <2>1. /\ payments = [p \in {} |-> {}] /\ events = [p \in Requests |-> <<>>]
          /\ outbox = [p \in Requests |-> <<>>] /\ charges = [p \in Requests |-> <<>>]
      BY <1>1 DEF Gw!Ledger!Init, Gw!PaymentIds
    <2>2. DOMAIN payments = {} /\ payments \in [DOMAIN payments -> Gw!Ledger!PaymentRow]
      BY <2>1
    <2>3. QED
      BY <2>1, <2>2 DEF Gw!Ledger!TypeOK, Gw!PaymentIds
  <1>5. Gw!Provider!BothTypeOK /\ fake = [p \in Requests |-> <<>>]
    <2>1. /\ zoop = [p \in Requests |-> <<>>] /\ hooks = {}
          /\ fake = [p \in Requests |-> <<>>]
      BY <1>1 DEF Gw!Provider!BothInit, Gw!Provider!Init, Gw!Provider!Fake!Init,
                  Gw!PaymentIds
    <2>2. Gw!Provider!TypeOK
      BY <2>1 DEF Gw!Provider!TypeOK, Gw!PaymentIds
    <2>3. Gw!Provider!Fake!TypeOK
      BY <2>1 DEF Gw!Provider!Fake!TypeOK, Gw!PaymentIds
    <2>4. QED
      BY <2>1, <2>2, <2>3 DEF Gw!Provider!BothTypeOK
  <1>6. Gw!Risk!TypeOK
    BY <1>1 DEF Gw!Risk!Init, Gw!Risk!TypeOK, Gw!Risk!Case
  <1>7. Gw!Keys!TypeOK /\ DOMAIN keys = {}
    <2>1. keys = [k \in {} |-> {}]
      BY <1>1 DEF Gw!Keys!Init
    <2>2. DOMAIN keys = {} /\ keys \in [DOMAIN keys -> Gw!Keys!KeyRow]
      BY <2>1
    <2>3. QED
      BY <2>2 DEF Gw!Keys!TypeOK
  <1>8. Gw!Hooks!TypeOK
    BY <1>1 DEF Gw!Hooks!Init, Gw!Hooks!TypeOK
  <1>9. Gw!Wake!TypeOK /\ \A c \in Requests : wake[c].pc = "unsent"
    <2> DEFINE b == CHOOSE b \in Gw!Wake!Body : TRUE
    <2>1. b \in Gw!Wake!Body
      <3>1. RefOf(q) \in RunIds \X Scenarios \X (1 .. 3)
        BY <1>1, <1>3, Payment, IsRef
      <3>2. [store |-> Store, ref |-> RefOf(q), hash |-> "body", method |-> "pix"]
                \in Gw!Wake!Body
        BY <3>1 DEF Gw!Wake!Body, Gw!Wake!Provider!Methods
      <3>3. QED
        BY <3>2
    <2>2. wake = [c \in Requests |->
                     [pc |-> "unsent", body |-> b, to |-> "created", resp |-> NoResponse,
                      answer |-> Gw!Wake!NoResult]]
      BY <1>1, <1>2 DEF Gw!Wake!Init
    <2> HIDE DEF b
    <2>3. [pc |-> "unsent", body |-> b, to |-> "created", resp |-> NoResponse,
           answer |-> Gw!Wake!NoResult] \in Gw!Wake!RequestState
      BY <2>1 DEF Gw!Wake!RequestState, Gw!Wake!Pcs, Gw!Wake!Statuses
    <2>4. QED
      BY <2>2, <2>3 DEF Gw!Wake!TypeOK
  <1>10. Gw!Shop!TypeOK /\ \A o \in Ops : ops[o].pc = "unsent"
    <2> DEFINE p0 == CHOOSE p \in Requests : TRUE
    <2>1. p0 \in Requests
      BY <1>3
    <2>2. ops = [o \in Ops |->
                    [kind |-> "capture", pc |-> "unsent", p |-> p0, id |-> NoProviderId,
                     action |-> "none", executed |-> "none", to |-> "created",
                     todo |-> <<>>]]
      BY <1>1, <1>2 DEF Gw!Shop!Init, Gw!PaymentIds
    <2> HIDE DEF p0
    <2>3. <<>> \in Seq(Gw!Shop!Risk!Kinds)
      OBVIOUS
    <2>4. [kind |-> "capture", pc |-> "unsent", p |-> p0, id |-> NoProviderId,
           action |-> "none", executed |-> "none", to |-> "created",
           todo |-> <<>>] \in Gw!Shop!OpState
      BY <2>1, <2>3 DEF Gw!Shop!OpState, Gw!Shop!OpKinds, Gw!Shop!Actions,
                        Gw!Shop!Statuses, Gw!PaymentIds
    <2>5. QED
      BY <2>2, <2>4 DEF Gw!Shop!TypeOK
  <1>11. run \in [Runs -> RunState]
    <2>1. <<>> \in Seq(Report) /\ 0 \in 0 .. MaxKeys /\ 1 \in 1 .. 4
      BY SomeKey
    <2>2. [pc |-> "new", key |-> 0, step |-> 1, reports |-> <<>>] \in RunState
      BY <2>1 DEF RunState
    <2>3. QED
      BY <1>1, <2>2
  <1>12. TypeOK
    <2>1. issued \in 0 .. MaxKeys
      BY <1>1, SomeKey
    <2>2. QED
      BY <1>1, <1>4, <1>5, <1>6, <1>7, <1>8, <1>9, <1>10, <1>11, <2>1 DEF TypeOK, Gw!TypeOK
  <1>13. \A p \in Requests : RowOf(p)
    BY <1>4, <1>5, <1>7, <1>9 DEF RowOf, NotCreated
  <1>14. \A u \in Runs : RunOf(u)
    <2> TAKE u \in Runs
    <2>1. run[u].pc = "new" /\ run[u].key = 0 /\ run[u].step = 1 /\ run[u].reports = <<>>
      BY <1>1
    <2>2. \A c \in CallsOf(u) : Pc(c) = "unsent"
      BY <1>9, <1>10 DEF CallsOf, Pc, Ops
    <2>3. DOMAIN run[u].reports = {}
      BY <1>2, <2>1
    <2>4. run[u].key <= issued
      BY <1>1, <2>1
    <2>5. QED
      BY <2>1, <2>2, <2>3, <2>4 DEF RunOf, Alive
  <1>15. \A o \in LateOps : LateOf(o)
    BY <1>10 DEF LateOf, Ops
  <1>16. QED
    BY <1>12, <1>13, <1>14, <1>15 DEF HomologInv

LEMMA NothingMoves ==
    ASSUME HomologInv, UNCHANGED vars
    PROVE  HomologInv'
  <1>1. UNCHANGED <<gateway, issued, run, session>>
    BY DEF vars
  <1>2. /\ TypeOK /\ issued \in Nat /\ issued' \in Nat /\ issued' >= issued
        /\ issued' \in 0 .. MaxKeys /\ run' \in [Runs -> RunState]
    BY <1>1, SomeKey DEF HomologInv, TypeOK
  <1>3. \A u \in Runs : RunOf(u)' /\ (Over(u) => Over(u)')
    <2> TAKE u \in Runs
    <2>1. RunOf(u) /\ run'[u] = run[u] /\ ops' = ops /\ UNCHANGED session
      BY <1>1 DEF HomologInv, gateway
    <2>2. QED
      BY <1>1, <1>2, <2>1, AllRest, RunRests DEF Over
  <1>4. QED
    BY <1>1, <1>2, <1>3, RunsMove

LEMMA StepKeeps == HomologInv /\ [Next]_vars => HomologInv'
  <1> SUFFICES ASSUME HomologInv, [Next]_vars
               PROVE  HomologInv'
    OBVIOUS
  <1>1. CASE Bootstrap \/ RotateKey
    BY <1>1, KeysKeep
  <1>2. CASE Restart
    BY <1>2, RestartKeeps
  <1>3. ASSUME NEW u \in Runs, StartRun(u) \/ Issue(u) \/ Returned(u) \/ Finish(u)
        PROVE  HomologInv'
    BY <1>3, StartRunKeeps, IssueKeeps, ReturnedKeeps, FinishKeeps
  <1>4. ASSUME NEW c \in Requests, PayStep(c)
        PROVE  HomologInv'
    BY <1>4, PayStepKeeps
  <1>5. ASSUME NEW o \in CallNames \ Requests, OpStep(o)
        PROVE  HomologInv'
    BY <1>5, OpStepKeeps
  <1>6. ASSUME NEW o \in LateOps, CallLate(o) \/ LateStep(o)
        PROVE  HomologInv'
    BY <1>6, CallLateKeeps, LateStepKeeps
  <1>7. CASE UNCHANGED vars
    BY <1>7, NothingMoves
  <1>8. QED
    BY <1>1, <1>2, <1>3, <1>4, <1>5, <1>6, <1>7 DEF Next

\* In a session in which no two runs start in one millisecond, the place of every run in
\* its script, what its call has achieved in the ledger and at the double, and what a
\* restart leaves of both, fit together in every state.
THEOREM HomologInvariant == Spec /\ OwnIds => []HomologInv
  BY InitHolds, StepKeeps, PTL DEF Spec

\* In such a session the tables, the double, the keys and the runs keep their types.
THEOREM HomologTypeCorrect == Spec /\ OwnIds => []TypeOK
  <1>1. HomologInv => TypeOK
    BY DEF HomologInv
  <1>2. QED
    BY <1>1, HomologInvariant, PTL

\* When every run has a runId of its own, a report that says ok, of whatever status, shows
\* what the checklist asks for: finish finds the payment of its own run and scenario,
\* where the last call left it.  With two runs of one millisecond it need not.
THEOREM ReportsAreTrue == Spec /\ OwnIds => []ReportIsTrue
  <1>1. HomologInv => ReportIsTrue
    BY DEF HomologInv, RunOf, ReportIsTrue, OkIsTrue
  <1>2. QED
    BY <1>1, HomologInvariant, PTL

\* When every run has a runId of its own, only one whose key was rotated away reports a
\* failure: no other run, no earlier life of the process and no order of the scenarios
\* makes one fail.
THEOREM OnlyLostKeysFail == Spec /\ OwnIds => []OnlyALostKeyFails
  <1>1. HomologInv => OnlyALostKeyFails
    <2> SUFFICES ASSUME HomologInv, NEW u \in Runs, NEW i \in DOMAIN run[u].reports,
                        ~run[u].reports[i].ok
                 PROVE  ~Resolves(u)
      BY DEF OnlyALostKeyFails
    <2>1. run[u].key < issued /\ run[u].key \in Nat /\ issued \in Nat
      BY SomeKey DEF HomologInv, RunOf, TypeOK, RunState
    <2>2. QED
      BY <2>1 DEF Resolves
  <1>2. QED
    BY <1>1, HomologInvariant, PTL

\* When every run has a runId of its own, the double, which checks no status, is asked by
\* the scenarios only for what Zoop would do as well: a capture or a void of what is
\* authorized, a refund of what is captured.
THEOREM DoubleAskedAsZoop == Spec /\ OwnIds => []DoubleIsAskedAsZoop
  <1>1. HomologInv => DoubleIsAskedAsZoop
    <2> SUFFICES ASSUME HomologInv, NEW o \in CallNames \ Requests, ops[o].pc = "zoop"
                 PROVE  Gw!Provider!Fake!StatusOf(ops[o].id) =
                            IF ops[o].action = "refund" THEN "captured" ELSE "authorized"
      BY DEF DoubleIsAskedAsZoop
    <2> DEFINE p == PaymentOf(o)  from == Goal(Before(o))  a == ops[o].action
    <2>1. OpOf(o)
      BY OpAtWork
    <2>2. /\ Achieved(Before(o)) /\ PaymentOf(Before(o)) = p
          /\ ops[o].kind = CallAt(o).call /\ ops[o].kind # "chargeback"
          /\ ops[o].id = <<p, 1>> /\ a = Gw!Shop!ActionFor(o, p)
          /\ \/ CallAt(o).call = "capture" /\ from = "authorized"
             \/ /\ CallAt(o).call \in {"cancel", "cancel_part"}
                /\ from \in {"authorized", "captured"}
             \/ CallAt(o).call = "chargeback"
      BY <2>1, Operation DEF OpOf
    <2>3. payments[p].status = from /\ fake[p] = <<FakeOf(from)>>
      BY <2>2 DEF Achieved, Is, Charged
    <2> HIDE DEF p, from
    <2>4. \/ a \in {"capture", "void"} /\ from = "authorized"
          \/ a = "refund" /\ from = "captured"
      BY <2>2, <2>3 DEF Gw!Shop!ActionFor
    <2>5. Gw!Provider!Fake!StatusOf(ops[o].id) = FakeOf(from)
      BY <2>2, <2>3 DEF Gw!Provider!Fake!StatusOf
    <2>6. FakeOf(from) = from
      BY <2>4 DEF FakeOf
    <2>7. QED
      BY <2>4, <2>5, <2>6
  <1>2. QED
    BY <1>1, HomologInvariant, PTL

\* A payment that moves has its charge at the double, or no charge at all.
LEMMA PayStepLoses ==
    ASSUME HomologInv, NEW c \in Requests, PayStep(c)
    PROVE  LostStep
  <1>1. Gw!Wake!Step(c)
    BY DEF PayStep
  <1>2. CASE Gw!Wake!CreatePayment(c)
    <2>1. wake[c].pc = "create"
      BY <1>2 DEF Gw!Wake!CreatePayment, Gw!Wake!At
    <2>2. c \notin DOMAIN payments
      BY <2>1, AtWork DEF RowOf, NotCreated
    <2>3. \A p \in DOMAIN payments : payments'[p] = payments[p]
      BY <1>2, <2>2 DEF Gw!Wake!CreatePayment, Gw!Wake!Ledger!Create, Gw!Wake!ledger
    <2>4. QED
      BY <2>3 DEF LostStep
  <1>3. CASE Gw!Wake!SaveInstrument(c)
    <2>1. /\ TypeOK
          /\ payments' = [payments EXCEPT ![c].instrument = Gw!Wake!MethodOf(c)]
      BY <1>3 DEF Gw!Wake!SaveInstrument, Gw!Wake!Ledger!UpdateInstrument, HomologInv
    <2>2. \A p \in DOMAIN payments : payments[p] \in Gw!Ledger!PaymentRow
      BY <2>1, RowTypes
    <2>3. \A p \in DOMAIN payments : payments'[p].status = payments[p].status
      BY <2>1, <2>2 DEF Gw!Ledger!PaymentRow
    <2>4. QED
      BY <2>3 DEF LostStep
  <1>4. CASE Gw!Wake!Move(c)
    <2>1. wake[c].pc = "move"
      BY <1>4 DEF Gw!Wake!Move, Gw!Wake!At
    <2>2. TypeOK /\ PayOf(c) /\ Gw!Wake!StoreOf(c) = Store
      BY <2>1, AtWork
    <2>3. ~Lost(c) /\ wake[c].to \in Statuses
      BY <2>1, <2>2, Payment
      DEF PayOf, Uncharged, Charged, Lost, Gw!Shop!HasCharge, Statuses
    <2>4. UNCHANGED payments \/ Gw!Wake!Ledger!Transition(c, Store, wake[c].to)
      BY <1>4, <2>2 DEF Gw!Wake!Move, Gw!Wake!ledger
    <2>5. \A p \in DOMAIN payments \ {c} : payments'[p] = payments[p]
      BY <2>2, <2>3, <2>4, WakeTransition
    <2>6. QED
      BY <2>3, <2>5 DEF LostStep
  <1>5. UNCHANGED payments \/ Gw!Wake!CreatePayment(c) \/ Gw!Wake!SaveInstrument(c)
        \/ Gw!Wake!Move(c)
    BY <1>1
    DEF Gw!Wake!Step, Gw!Wake!FindKey, Gw!Wake!InsertKey, Gw!Wake!LookUpPayment,
        Gw!Wake!PreEvaluate, Gw!Wake!EvaluateRisk, Gw!Wake!NotifyRefusal, Gw!Wake!Charge,
        Gw!Wake!RecordCharge, Gw!Wake!RecordFailure, Gw!Wake!SaveResponse, Gw!Wake!ledger,
        Gw!Wake!Ledger!SaveProviderCharge
  <1>6. QED
    BY <1>2, <1>3, <1>4, <1>5 DEF LostStep

LEMMA MoveLoses ==
    ASSUME TypeOK, NEW o \in Ops, Gw!Shop!Move(o), fake[ops[o].p] # <<>>
    PROVE  LostStep
  <1>1. ~Lost(ops[o].p) /\ \A p \in DOMAIN payments \ {ops[o].p} : payments'[p] = payments[p]
    BY OpMoveDoes DEF Lost
  <1>2. QED
    BY <1>1 DEF LostStep

\* Whoever captures, cancels or contests moves the payment only after the double knew
\* its charge.
LEMMA CallLoses ==
    ASSUME HomologInv, NEW o \in Ops,
           (o \in CallNames \ Requests /\ OpStep(o)) \/ (o \in LateOps /\ LateStep(o))
    PROVE  LostStep
  <1>1. UNCHANGED payments \/ Gw!Shop!Move(o)
    BY DEF OpStep, LateStep, Gw!Shop!Continue, Gw!Shop!Load, Gw!Shop!Chargeback,
           Gw!Shop!CallZoop, Gw!Shop!NotifyOutcome, Gw!Shop!ledger
  <1>2. CASE Gw!Shop!Move(o)
    <2>1. TypeOK /\ ops[o].pc = "move"
      BY <1>2 DEF HomologInv, Gw!Shop!Move
    <2>2. CASE o \in CallNames \ Requests
      <3>1. OpOf(o)
        BY <2>1, <2>2, OpAtWork
      <3>2. PICK status : ops[o].p = PaymentOf(o) /\ fake[PaymentOf(o)] = <<status>>
        BY <2>1, <3>1, Zenon DEF OpOf, Charged
      <3>3. fake[ops[o].p] # <<>>
        BY <3>2
      <3>4. QED
        BY <1>2, <2>1, <3>3, MoveLoses
    <2>3. CASE o \in LateOps
      BY <1>2, <2>1, <2>3, MoveLoses DEF HomologInv, LateOf
    <2>4. QED
      BY <2>2, <2>3
  <1>3. QED
    BY <1>1, <1>2 DEF LostStep

\* A capture or a cancel of a payment whose charge the double has forgotten leaves the
\* payment as it was, whoever asks for it and whenever the process stopped, as long as
\* every run has a runId of its own.
THEOREM LostChargesStay == Spec /\ OwnIds => LostChargeStays
  <1>1. HomologInv /\ [Next]_vars => [LostStep]_vars
    <2> SUFFICES ASSUME HomologInv, Next
                 PROVE  LostStep
      OBVIOUS
    <2>1. ASSUME NEW c \in Requests, PayStep(c)
          PROVE  LostStep
      BY <2>1, PayStepLoses
    <2>2. ASSUME NEW o \in CallNames \ Requests, OpStep(o)
          PROVE  LostStep
      BY <2>2, CallLoses DEF Ops
    <2>3. ASSUME NEW o \in LateOps, LateStep(o)
          PROVE  LostStep
      BY <2>3, CallLoses DEF Ops
    <2>4. CASE UNCHANGED payments
      BY <2>4 DEF LostStep
    <2>5. \/ UNCHANGED payments
          \/ \E c \in Requests : PayStep(c)
          \/ \E o \in CallNames \ Requests : OpStep(o)
          \/ \E o \in LateOps : LateStep(o)
      BY DEF Next, Bootstrap, RotateKey, Restart, StartRun, Issue, Returned, Finish,
             CallLate, gateway, ledger
    <2>6. QED
      BY <2>1, <2>2, <2>3, <2>4, <2>5
  <1>2. QED
    BY <1>1, HomologInvariant, PTL DEF Spec, LostChargeStays

==============================================================================
