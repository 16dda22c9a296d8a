# Payment gateway: TLA+ models, checks and proofs

The gateway (`src/src`, NestJS + PostgreSQL + Redis) stands between shops (Wake,
WooCommerce), a card/pix/boleto processor (Zoop) and a fraud analyst (Koin). This
directory holds a TLA+ model of its core, TLC configurations that check it on
small instances, and TLAPS proofs about the ledger, its transactions, the stores, the
outbox relay, the gateway for Wake and for WooCommerce, and the homologation harness.

## Inventory of the system

| Part | State | Operations | Talks to |
|---|---|---|---|
| Status machine (`domain/state-machine`) | none: a table | `validate`, `canTransition`, `isTerminal` | called by payments |
| Payments (`payments/`) | `payments`, `payment_events`, `outbox`, `provider_charges`, `fraud_evaluations` | `create`, `transition`, `saveProviderCharge`, `recordChargeFailure`, `update*Data`, `find*` | PostgreSQL |
| Idempotency (`idempotency/`) | `idempotency_keys` | `getOrCreate`, `saveResponse` | PostgreSQL |
| Wake (`wake/`) | none of its own; a request lives in its awaits | `handlePayment`, `handleCapture`, `handleCancel`, `handleChargeback` | all of the above, Zoop, Koin |
| Webhooks (`webhooks/`) | none | `handleZoop`, `handleKoin` | payments, Koin |
| Risk (`risk/`) | none | `preEvaluate`, `evaluate`, `notify` | Koin over HTTP |
| Providers (`providers/`) | none (the double of Zoop: a map in memory) | `createCharge`, `capture`, `void`, `refund` | Zoop over HTTP, or its double for one seller |
| WooCommerce (`woocommerce/`) | none | `handlePayment` | stores, payments, Zoop, Koin |
| Stores (`stores/`) | `stores`, `store_credentials`, `store_settings` | `createStore`, `getOrCreateBySellerId`, `rotateCredentials`, `updateSettings`, `updateSlug` | PostgreSQL, Zoop |
| Outbox relay, notifications (`outbox/`, `notifications/`, `worker.ts`) | `outbox.published_at`, a BullMQ queue | `relay` every 5 s, `process` | PostgreSQL, Redis, shops |
| Homologation harness (`homolog/`) | none of its own: a store, a key, payments | `bootstrapStore`, `rotateKey`, `run` (twelve scenarios) | the Wake handlers, the fake provider |
| Admin, guards, health, metrics | none | endpoints over the parts above | |

What is hard here: handlers are sequences of awaits on four remote systems with
no transaction around them, so any two handlers, webhooks and callbacks of one
payment interleave at every await; webhooks are redelivered, reordered and
acknowledged even when their transition fails; a call to Zoop may be executed
and its answer lost; a process may die between any two awaits and the shop
retries; the only atomic piece is `transition()`, which the rest leans on.

What makes the parts correct:

- **ledger**: the event history is exactly the path a payment took; no status is
  entered twice; collected money stays collected; the outbox tells every committed
  transition and no other;
- **handlers**: one charge per order whatever is clicked and retried; no charge
  of a payment Koin denied; answers that stay true; replays that do not change;
- **operations and webhooks**: the ledger never says more than what happened at
  Zoop, Koin is told only what the ledger has;
- **outbox**: an event is published once at least, and once if nothing fails;
- **stores**: racing provisionings leave a seller two stores at most, a rotation locks
  no shop out, a seller's payments run under its own store;
- **timeouts**: money that Zoop took for a payment the ledger refuses can be found;
- **harness**: a green report of a run with its own `runId` is a true one, whatever
  runs or restarts beside it;
- **progress**: a call ends, a payment sent to Zoop leaves `approved_risk`, a paid
  code the ledger waits for is recorded.

## Modules

| Module | Models | How it corresponds |
|---|---|---|
| `PaymentStates` | `allowed-transitions.ts`, `payment-state-machine.ts` | the table as a function; `Rank` is a proof device: the table is acyclic |
| `Payments` | `payments.service.ts` over its tables | abstract specification: one atomic action per operation |
| `PaymentsTx` | `transition()` statement by statement | `SELECT ... FOR UPDATE`, validation, three writes, COMMIT, rollback anywhere; property `LedgerSpec` is `Payments!Spec` |
| `Idempotency` | `idempotency.service.ts` | the SELECT and the INSERT of `getOrCreate` are two operators, used by two actions |
| `Zoop` | `zoop-payment.adapter.ts` in front of the processor | adapter calls and status mapping from the code; the processor's own moves external |
| `FakeZoop` | `fake-zoop.provider.ts` | the `Map` of charges, which `Forget` empties at a restart; it checks no status and sends no webhook |
| `Providers` | `providers.service.ts` | which of the two is behind a call: the handlers use this module only |
| `Koin` | `risk.service.ts`, Koin and no-op adapters | verdicts, decisions, outcome notices that may be lost |
| `WakePayment` | `WakeService.handlePayment` | one action per await; `wake[r].pc` is the await the request is at |
| `WakeOperations` | `handleCapture`, `handleCancel`, `handleChargeback` | `Load`, `CallZoop`, `Move`, `NotifyOutcome`: what was read at `Load` is used later |
| `Webhooks` | `webhooks.controller.ts` | a delivery runs `transition()` with the scope `*` and is acknowledged whatever happens |
| `Gateway` | the composition | instances of the above on one database, with Zoop, Koin and buyers acting |
| `GatewayRequirements` | the promises | safety, action, liveness properties; what documents say and the code does not |
| `WooPayment` | `WooCommerceService.handlePayment` | its first await is the provisioning of `Stores`, step by step; then as `WakePayment`, with cards captured at once and no pre-evaluation |
| `WooGateway` | the composition for WooCommerce, and its promises | handler, `Stores`, Zoop's own moves and webhooks on one database |
| `Homolog` | `homolog.service.ts` | a run issues the calls of its scripts to an instance of `Gateway` whose store is the double's, under references made of its `runId`, which two runs may share; `Restart` ends every run and handler and empties the double |
| `OutboxRelay` | `outbox-relay.processor.ts`, `notifications.processor.ts` | a tick is a transaction whose rows are locked, added to the queue and marked one callback at a time; its errors, aborted transactions and crashes |
| `Stores` | `stores.service.ts` over its three tables | one action per await of each call; a store and a key are named by the call that made them; Zoop's sellers external |
| `PaymentsProofs`, `PaymentsTxProofs`, `OutboxProofs`, `StoresProofs` | theorems about `Payments`, `PaymentsTx`, `OutboxRelay`, `Stores` | TLAPS |
| `GatewayProofs` | theorems about `Gateway`: where handlers are, charges, denials, replays, the refinement of `Payments` | TLAPS |
| `GatewayTruthProofs` | theorems about what the gateway says: to shops, in its ledger, to Koin | TLAPS, on the invariant of `GatewayProofs` |
| `WooProofs` | theorems about `WooGateway` | TLAPS, with those of `StoresProofs` for the provisioning |
| `HomologProofs` | theorems about `Homolog` | TLAPS; the handlers of `Gateway` as the scripts use them |
| `MCPayments`, `MCPaymentsTx`, `MCGateway`, `MCStores`, `MCWoo`, `MCHomolog` | TLC instances | workloads, symmetry, a bound |

A payment is named by the request that created it (`generateId` is fresh), a Zoop
transaction by its payment and its place. Amounts are two units, so a partial
refund exists. Operators called `Bug_...` are the mutants named in
`PROJECT.json`: plausible mistakes that show each property can fail. They are
no part of any specification.

## Runs

| Run | Instance | Shows |
|---|---|---|
| `MCPayments` | 2 payments, 2 stores, 1 order reference, symmetry | the ledger's invariants and `CollectedIsKept` under any calls |
| `MCPaymentsTx` | 1 payment, 2 callers, statuses `authorized`, `captured` | concurrent transactions and rollbacks implement the atomic ledger, so its theorems hold of them; every call ends |
| `MCGateway` | four workloads, with faults: a card clicked twice and sent with another body; a pix clicked twice and cancelled; a boleto and a card at once; a card captured, cancelled and charged back | `ChargedOncePerOrder`, `DeniedNeverCharged`, `AnswerMatchesLedger`, `LedgerNotAheadOfZoop`, `RefusedButAliveIsMarked`, `NoticesFollowLedger`, `ReplayIsStable`, `LedgerSpec` |
| `MCGatewayLive` | two workloads, no faults, fairness: a pix and a card at once; a pix sent twice | `ChargeLeavesApprovedRisk`, `PaidIsRecorded` |
| `MCOutboxRelay` | 3 rows, 2 ticks at once, batches of 2, one failure; run on `OutboxRelay` itself | `PublishedWasAdded`, `AddedAgainOnlyAfterFailure`, `EveryEventIsProcessed` |
| `MCStores` | any 3 calls of the stores service, dying anywhere; two names, a clash, a slug that comes out empty, symmetry | `TwoStoresPerSeller`, `AKeyResolves`, `StoreIsSellers` |
| `MCWoo` | with faults: an order of a linked store clicked twice, or sent with another body; a first payment beside another merchant's store of the same name; the first payments of two sellers of one name; a payment of the seller who is charged by the double | `OrderChargedOnce`, `PaidUnderOwnStore`, `AnswerIsTrue`, `RefusedMoneyIsMarked` |
| `MCHomolog` | five sessions, restarts anywhere: two runs of three scenarios at once; a run beside two of one millisecond; a run of all twelve while the key is rotated; a capture and a cancel after a run of four; two runs of one millisecond | `ReportIsTrue`, `OnlyALostKeyFails`, `DoubleIsAskedAsZoop`, `LostChargeStays` |
| `MCDenial`, `MCReview`, `MCRefundTwice`, `MCWooFirst` | one order each, without faults | disagreements between documents and code, below |

**Bounds.** One payment's interleavings are what the code is exposed to: handlers
of different payments share only unique constraints and row locks, which the
two-payment (`MCPayments`) and two-order (`MCGateway`) instances exercise. A
workload fixes what is sent; everything else, order, verdicts, answers, losses and
crashes, is open, and TLC explores all workloads of a run in one state space.
Three requests give a winner of the idempotency insert, a loser, and a request
with another body. `MaxTxns = 2` lets a second charge happen if the code would
make one. `MaxCharges` bounds `provider_charges` rows in `MCPayments` and
`MCPaymentsTx`; in the gateway the handler writes at most one, which `LedgerSpec`
checks (`MaxCharges = 1` there is an invariant of the code, not a guard). With
`Faults = TRUE` a request may die at any await, Zoop's answer may be lost after
the charge was made, a webhook may be acknowledged and its work lost. Webhooks
and callbacks stay deliverable for ever: late, repeated and out of order.
In `MCOutboxRelay` three rows are more than one batch, so a row is left behind for
the next tick, and one failure at any await is enough for a job added twice; rows
appear in any order, as `created_at` is the time their transaction began.
In `MCHomolog` a script is a sequence of its own payments' calls, so two runs of
the scenarios that use each kind of handler interleave as the whole ones would; the
whole array is run alone, where the interleaving is with the key and the restarts.
A `runId` is a millisecond, so runs with one `runId` all start before one of them makes
its first call.
`MCStores`: three calls make two stores that clash with a provisioned one, or one
store and two rotations of its key.
Deadlock is not checked in the gateway, the relay, the stores and the harness: with
nothing to do they stop.

**Fairness.** `PaymentsTx`: a started statement is executed (weak), and a waiter
for a row is served although others take it in between (strong: PostgreSQL queues
row waiters). `Gateway`: without faults a handler runs on (Node continues a
resolved promise), and each message is delivered at least once (Zoop and Koin
retry until answered). Nothing is assumed of buyers, analysts or of any second
delivery. `PaidIsRecorded` begins where the ledger waits for the payment and Zoop's
message that it was paid is still to come. The buyer may have paid earlier, when a retry
was shown the code before the first handler got so far; but a message that overtakes
that handler is acknowledged and its transition refused, and such a payment stays
unrecorded in this code. The property does not claim otherwise. `OutboxRelay`: the
cron fires every five seconds and a tick that does not fail goes on, the queue's worker
takes its jobs (weak); failures are bounded.

## Disagreements found

Each is a run in which TLC must find the property violated; the quotes are in
`PROJECT.json`.

- `MCDenial`: `created -> refused` is not in the table, so a verdict *denied* (of
  `preEvaluate` in TLC's trace, of `evaluate` just so) throws, nothing is answered and
  the payment stays `created`.
- `MCReview`: a review Koin approves ends in `approved_risk`, charged by nobody.
- `MCRefundTwice`: a cancel sent again refunds again.
- `MCWooFirst`: the first WooCommerce payment of a seller, clicked twice, is charged
  twice. The two clicks provision two stores, since the recheck looks for a row
  `createStore` saves last; record and external reference are per store, so the second
  click meets neither.

Six more that have no run of their own. The comment in `wake.service.ts:97` takes
a record without a response for a crashed attempt, while a double-click finds it
during a running one; the properties of `MCGateway` hold all the same. And
`findByProviderEvent` compares a whole stored body with `{id}`, so it never finds
a processed webhook; `transition()` rejects the repetition (`StatusEnteredOnce`).
`src/README.md:127` calls the notifications processor "postbacks + store webhooks", but `relay()` puts
no URL in a job, so `process()` posts nothing. A charge that timed out is refused
here and may be authorized, or for WooCommerce captured, at Zoop: any error of
`createCharge` counts as a refusal. What the code keeps is a charge row without a
transaction id, which nothing reads but which tells such money
(`RefusedButAliveIsMarked`, `RefusedMoneyIsMarked`). A cancel of a settled payment refunds at Zoop and then fails with 422:
`settled -> refunded` is not in the table. And the harness's `runId`
(`homolog.service.ts:63`) is the first ten characters of a ULID, which is its
millisecond: two runs started in one millisecond share order numbers, idempotency keys
and payments, so one may find the other's record without a response, be answered
`statusId` 7 for a payment still `created`, skip the capture and report ok, or fail with
422 with its key intact. `MCHomolog` has such runs among its sessions; `ReportIsTrue`,
`OnlyALostKeyFails` and `DoubleIsAskedAsZoop` are claimed of runs with a `runId` of their own.

## Proofs

`PaymentsProofs` proves, for every set of payments, stores, references and
provider ids, every bound and every length of history, `Spec => []TypeOK`,
`[]HistoryIsPath`, `[]StatusEnteredOnce` and `CollectedIsKept`. The assumptions are the three of `Payments`: `'*'` is no store,
NULL is no provider id, the bound is a number.

`HistoryIsPath` needs `TypeOK` and that a payment not yet created has no events
(a `Create` must start from an empty history): that conjunction is the inductive
invariant. `StatusEnteredOnce` is not inductive and follows from it: along a path
of allowed transitions `Rank` strictly increases, so two events never enter the
same status. That needs an induction along a history; the library's induction
theorems take an operator, so the invariant carries the conclusion instead (the
ranks of a history are increasing and below the current status's next), and each
`Transition` adds one event. `CollectedIsKept` is a step lemma from `TypeOK`:
whatever the table allows from a collected status is collected.

`OutboxProofs` proves `[]TypeOK`, `[]PublishedWasAdded` and
`[]AddedAgainOnlyAfterFailure` of `OutboxRelay` for any number of rows and ticks, any
batch size and number of failures; its assumptions say that these are numbers.
Neither property is inductive. For the first, what a tick is about to mark was added (`MarkingFollowsAdding`). For the second, an
account: an addition that is recorded, or may still be, is free, every other one
is paid for by a failure, and a tick whose SQL transaction is aborted has paid for
its rows beforehand (`FailuresPay`), which needs that no two ticks hold a row
(`HeldOnce`: what SKIP LOCKED is for).

`PaymentsTxProofs` takes `transition()` statement by statement, for any number of
concurrent callers, and proves `[]TypeOK`, `[]SeenIsCurrent`, `[]OutboxMatchesEvents`
and the refinement `LedgerSpec`. The invariant `TxInv` is inductive because a
transaction past its SELECT holds its row's lock, so nothing it read changes
(`SeenIsCurrent`); because its move was validated with that status and in its scope
(`MoveIsAllowed`, `RowInScope`); and because its three writes are made in order, the
visible row being the old one until COMMIT (`WritesInOrder`). A COMMIT is then the
abstract `Transition`, every other statement a stutter, and the theorems of
`PaymentsProofs`, taken over through an instance of it, hold of the concurrent
transactions (`TransactionsKeepLedgerPromises`).

`StoresProofs` proves, for any number of calls that may die anywhere, `[]TypeOK`,
`[]TwoStoresPerSeller`, `[]StoreIsSellers` and `[]AKeyResolves` of `Stores`. The
calls are no transactions, so the invariant says what each await knows of the rows
saved so far: a call owns its row and its keys (`CallsInv`, `KeysHaveOwners`), the
settings are linked before a provisioning call can return the store, and every key of
a store was handed out by the call that created it or by a rotation, so once these are
over the newest key is in somebody's hands. A provisioning call saves its row under one
of the two names its seller may get, and the unique constraints, not the check before
the insert, keep each name to one row (`NamesAndSlugsAreUnique`, a part of the invariant):
hence two stores at most. The
assumption `NoneIsNoValue` says that NULL is no store and no seller.

`GatewayProofs` and `GatewayTruthProofs` are about the whole gateway for Wake: any
sets of requests, operations, stores and orders, any workload, with faults. Their
assumptions are those `Gateway` names: `'*'` is no store, NULL is no id and no
response, what is sent is well formed, and there is some body and some payment for
the fields a handler has not written yet. Four invariants carry them.

- `GatewayInv`: each payment's row, verdicts and charge according to where its
  handler is. A request knows whether its payment exists (`RowOf`); until the charge
  is asked, and for ever after it, the payment is cleared by Koin (`FraudOf`: the
  decision of a review comes only where the handler stopped with *received*, so it
  cannot overtake a charge); the handler passes `charge` and `record` once
  (`ChargeOf`). An operation has the one charge of a payment there is (`OpsInv`).
  A request past `getOrCreate` has its record (`KeyKnown`), and a saved response is of a
  payment whose request is done (`KeyAnswered`: a second save cannot happen). With
  `OnePaymentPerOrder` that gives `ChargedOncePerOrder`, `DeniedNeverCharged`,
  `ReplayIsStable`, and the refinement of `Payments` with one charge row
  (`LedgerSpec`). None of the conjuncts is inductive without the others.
- `AnswerInv`: what a handler is about to answer fits the transition it is about to
  make, and what was answered or saved fits the order's payment, which it does for ever:
  each step moves one payment, and the table leads from no refused status to a
  collected one and from no status past the checks back. It gives `AnswerMatchesLedger`.
- `EvidenceInv`: each status of a real store's payment is backed by its transaction at
  Zoop, and so is each webhook still deliverable and each operation between Zoop's
  answer and its transition: what was true at Zoop when sent stays a reason for the
  transition, however late it comes. A refusal made, or on its way, has no live
  transaction behind it or a charge row without an id. It gives `LedgerNotAheadOfZoop`
  and `RefusedButAliveIsMarked`. The first speaks of stores that are charged at Zoop:
  the double keeps its charges in memory and has nothing to compare with.
  A chargeback told by the shop needs only a transaction that succeeded: `handleChargeback`
  asks Zoop nothing.
- `NoticeInv`: every notice sent to Koin, or still to be sent by a handler, an
  operation or a webhook's remaining work, has in the payment's history the status
  that bears it out (histories only grow). It gives `NoticesFollowLedger`.

`WooProofs` is about the gateway for WooCommerce: any requests, sellers and orders, names
that clash or not, faults anywhere. It takes over `StoresInv` of `StoresProofs`, whose
calls are here the provisionings of the requests and one store opened by the panel; the
assumptions of `WooGateway` are its own (the workloads are sets of requests, the panel's
store is no request, a missing value is no value). Its invariant is `WooInv`:

- a request past its first await has its store, which the provisioning returned for its
  seller (`ProvisionOf`); for a seller linked to a store beforehand it is that store,
  because nobody else ever gets the settings that would make the lookup miss it
  (`OldStoreOf`). So two requests for one order agree on the store, which is what the
  unique external reference needs to stop the second, and `OrderChargedOnce` follows; for
  a seller without a store that is false, as `MCWooFirst` shows, at this very conjunct;
- a payment has the store and reference of the request that made it, no trace before it
  exists and at most one charge (`RowOf`, `ChargeOf`);
- `captured` has money at Zoop behind it, a refusal made or on its way has none or the
  mark, as has a webhook still deliverable its reason (`EvidenceOf`, `HookOf`);
- an answer given, stored or about to be given is true of the order's payment once the
  transition it waits for is made (`AnswerOf`, `KeyFits`).

It gives `[]TypeOK`, `OrderChargedOnce`, `PaidUnderOwnStore`, `AnswerIsTrue` and
`RefusedMoneyIsMarked`: all the safety `MCWoo` checks.

`HomologProofs` is about the harness: any number of runs at once and of later captures
and cancels, scenarios in any order, keys rotated and the process restarted at any
moment. The double's store meets no fraud analysis, so its handlers take few of the
paths of `Gateway`, and the proof follows each call from where the previous one left the
payment. `Goals` gives every call of a script the status it is to reach; `Achieved(c)` says
that the ledger has it and the double has the charge that goes with it. `HomologInv` has

- for a payment (`RowOf`): the reference of the request that made it, no trace before it
  exists, one charge at most, named by the payment;
- for a run (`RunOf`): a run that works has made exactly the calls behind its place in
  the script, has one call running at most, and what precedes that place is achieved;
  a run that is over, ended or killed by a restart, has none running. The reports made
  so far are as the checklist has them, or the run's key is an old one;
- for the call a run waits for (`PayOf`, `OpOf`): where it is, and what the ledger and
  the double have of its payment then. No such call can fail: the restart that would take
  the charge away kills the run as well;
- for whoever captures or cancels later (`LateOf`): the run of the payment is over, so it
  disturbs no scenario, and at its transition the double has had the charge, since the
  call to the double comes first and throws otherwise.

None of these is inductive alone. All of it holds of sessions in which no two runs start
in one millisecond (`OwnIds`, fixed when a behaviour begins): `RowOf` rests on distinct
`runId`s, and two runs of one millisecond break it at their first call. The theorems are
stated so, `Spec /\ OwnIds => ...`; runs beside twins are model-checked only. They give
`[]ReportIsTrue` (`finish` reports the status
the last call achieved), `[]OnlyALostKeyFails`, `[]DoubleIsAskedAsZoop` and
`LostChargeStays`. Its assumptions are those of `Homolog`: there is a run, later
operations are captures and cancels and are named apart from the runs, NULL is no id, the
bound of the keys is a positive number, and a session's array has each scenario once, as
`runScenarios` has: with a scenario twice in a run the second would repeat the first one's
order.

Only model-checked: liveness (fairness and `ENABLED` are out of the prover's reach),
that is `ChargeLeavesApprovedRisk` and `PaidIsRecorded` of the gateway, `EveryCallEnds` of
the transactions and `EveryEventIsProcessed` of the relay. The four disagreements are runs, and have
nothing to prove.

## Not modelled

`fraud_evaluations` (an audit table, never read back), `findAll`, HMAC secrets,
`resolveByApiKey`, `checkStatus` and `getCharge` (no callers), the settings beside
the seller id, `process()` of the notifications (no job carries a URL to post to),
payload formatting and checking, redaction, encryption, logging, metrics, health,
admin endpoints and guards (no state of their own), static pages, bootstrap and
infrastructure. WooCommerce orders are not captured, cancelled or refunded through
the gateway: the plugin has one endpoint. The harness's `bootstrapStore` and
`rotateKey` are one step each in `Homolog`; their awaits, and what their
interleavings do, are `createStore` and `rotateCredentials` of `Stores`.

## Plan

The modules planned are written, and every safety invariant and action property that a
passing run checks is proved, those of the harness for sessions without twins; liveness
stays with TLC.
