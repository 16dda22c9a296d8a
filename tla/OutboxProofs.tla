----------------------------- MODULE OutboxProofs -----------------------------
(***************************************************************************)
(* Theorems about OutboxRelay: types, and that no event is lost, for any   *)
(* number of rows, overlapping ticks, batch size, errors and crashes.      *)
(***************************************************************************)
EXTENDS OutboxRelay, TLAPS

\* What a tick is about to mark, or has marked, has been added to the queue.  It
\* is needed because the row is marked, and committed, in later steps than Add.
MarkingFollowsAdding ==
    \A t \in Ticks : \A e \in tick[t].toMark \cup tick[t].marked : added[e] > 0

\* What a tick holds are committed rows.
HeldAreCommitted ==
    \A t \in Ticks : tick[t].batch \cup tick[t].toAdd \cup tick[t].toMark
                     \cup tick[t].marked \subseteq committed

RelayInv == TypeOK /\ HeldAreCommitted /\ MarkingFollowsAdding /\ PublishedWasAdded

------------------------------------------------------------------------------
\* A batch is made of rows that are committed.
LEMMA OldestAreRows == ASSUME NEW S PROVE Oldest(S) \subseteq S
  BY DEF Oldest

\* COMMIT makes only marks of the tick durable.
LEMMA MarkedWereMarked == \A t \in Ticks : Marked(t) \subseteq tick[t].marked
  BY DEF Marked

LEMMA InitRelayInv == Init => RelayInv
  BY LimitIsPositive, BoundsAreNumbers
  DEF Init, RelayInv, TypeOK, HeldAreCommitted, MarkingFollowsAdding,
      PublishedWasAdded, IdleTick, Tick

\* A job added to the queue is one more, for its row only.
LEMMA AddJobCounts ==
    ASSUME TypeOK, NEW e \in Events, AddJob(e)
    PROVE  /\ queue' \in [Events -> Nat] /\ added' \in [Events -> Nat]
           /\ added'[e] > 0
           /\ \A f \in Events : added[f] > 0 => added'[f] > 0
  BY DEF TypeOK, AddJob

\* Each step of a tick keeps the invariant.
LEMMA SelectStep == ASSUME RelayInv, NEW t \in Ticks, Select(t) PROVE RelayInv'
  <1>1. Oldest(Unpublished) \subseteq committed
    BY OldestAreRows DEF Unpublished
  <1>2. Oldest(Unpublished) \subseteq Events
    BY <1>1 DEF RelayInv, TypeOK
  <1>3. /\ Running(Oldest(Unpublished)) \in Tick
        /\ tick' = [tick EXCEPT ![t] = Running(Oldest(Unpublished))]
        /\ UNCHANGED <<committed, published, queue, added, failures>>
    BY <1>2 DEF Select, Running, Tick
  <1>4. TypeOK'
    BY <1>3 DEF RelayInv, TypeOK
  <1>5. \A u \in Ticks : tick'[u] = IF u = t THEN Running(Oldest(Unpublished)) ELSE tick[u]
    BY <1>3 DEF RelayInv, TypeOK
  <1>6. HeldAreCommitted'
    BY <1>1, <1>3, <1>5 DEF RelayInv, HeldAreCommitted, Running
  <1>7. MarkingFollowsAdding'
    BY <1>3, <1>5 DEF RelayInv, MarkingFollowsAdding, Running
  <1>8. PublishedWasAdded'
    BY <1>3 DEF RelayInv, PublishedWasAdded
  <1> QED BY <1>4, <1>6, <1>7, <1>8 DEF RelayInv

\* The job is added, or Redis fails before or after that: the row may be marked
\* from now on in the first case only.
LEMMA AddStep ==
    ASSUME RelayInv, NEW t \in Ticks, NEW e \in Events, Add(t, e) \/ AddFails(t, e)
    PROVE  RelayInv'
  <1>1. e \in tick[t].toAdd /\ e \in committed
    BY DEF Add, AddFails, RelayInv, HeldAreCommitted
  <1>2. /\ queue' \in [Events -> Nat] /\ added' \in [Events -> Nat]
        /\ \A f \in Events : added[f] > 0 => added'[f] > 0
    BY AddJobCounts DEF Add, AddFails, RelayInv, TypeOK
  <1>3. Add(t, e) => added'[e] > 0
    BY AddJobCounts DEF Add, RelayInv
  <1>4. /\ committed' = committed /\ published' = published
        /\ failures' \in 0 .. MaxFailures
    BY BoundsAreNumbers DEF Add, AddFails, Fail, RelayInv, TypeOK
  <1>5. /\ tick' \in [Ticks -> Tick]
        /\ \A u \in Ticks : /\ tick'[u].batch = tick[u].batch
                            /\ tick'[u].toAdd \subseteq tick[u].toAdd
                            /\ tick'[u].marked = tick[u].marked
                            /\ \/ tick'[u].toMark = tick[u].toMark
                               \/ Add(t, e) /\ tick'[u].toMark = tick[u].toMark \cup {e}
    BY DEF Add, AddFails, RelayInv, TypeOK, Tick
  <1>6. TypeOK'
    BY <1>2, <1>4, <1>5 DEF RelayInv, TypeOK
  <1>7. HeldAreCommitted'
    BY <1>1, <1>4, <1>5 DEF RelayInv, HeldAreCommitted
  <1>8. MarkingFollowsAdding'
    <2> SUFFICES ASSUME NEW u \in Ticks, NEW f \in tick'[u].toMark \cup tick'[u].marked
                 PROVE  added'[f] > 0
      BY DEF MarkingFollowsAdding
    <2>1. f \in Events
      BY <1>5 DEF Tick
    <2>2. CASE f \in tick[u].toMark \cup tick[u].marked
      BY <2>1, <2>2, <1>2 DEF RelayInv, MarkingFollowsAdding
    <2>3. CASE f \notin tick[u].toMark \cup tick[u].marked
      BY <2>3, <1>3, <1>5
    <2> QED BY <2>2, <2>3
  <1>9. PublishedWasAdded'
    BY <1>2, <1>4 DEF RelayInv, TypeOK, PublishedWasAdded
  <1> QED BY <1>6, <1>7, <1>8, <1>9 DEF RelayInv

\* A row moves from toMark to marked, or is dropped.
LEMMA MarkStep ==
    ASSUME RelayInv, NEW t \in Ticks, NEW e \in Events, Mark(t, e) \/ MarkFails(t, e)
    PROVE  RelayInv'
  <1>1. /\ UNCHANGED <<committed, published, queue, added>>
        /\ failures' \in 0 .. MaxFailures
        /\ e \in tick[t].toMark
    BY BoundsAreNumbers DEF Mark, MarkFails, Fail, RelayInv, TypeOK
  <1>2. /\ tick' \in [Ticks -> Tick]
        /\ \A u \in Ticks : /\ tick'[u].batch = tick[u].batch
                            /\ tick'[u].toAdd = tick[u].toAdd
                            /\ tick'[u].toMark \subseteq tick[u].toMark
                            /\ tick'[u].marked \subseteq tick[u].marked \cup tick[u].toMark
    BY DEF Mark, MarkFails, RelayInv, TypeOK, Tick
  <1>3. TypeOK'
    BY <1>1, <1>2 DEF RelayInv, TypeOK
  <1>4. HeldAreCommitted'
    BY <1>1, <1>2 DEF RelayInv, HeldAreCommitted
  <1>5. MarkingFollowsAdding'
    BY <1>1, <1>2 DEF RelayInv, MarkingFollowsAdding
  <1>6. PublishedWasAdded'
    BY <1>1 DEF RelayInv, PublishedWasAdded
  <1> QED BY <1>3, <1>4, <1>5, <1>6 DEF RelayInv

\* The transaction ends: what becomes durable was marked by the tick.
LEMMA EndStep ==
    ASSUME RelayInv, NEW t \in Ticks, Commit(t) \/ Crash(t)
    PROVE  RelayInv'
  <1>1. /\ UNCHANGED <<committed, queue, added>>
        /\ failures' \in 0 .. MaxFailures
        /\ published' \subseteq published \cup tick[t].marked
    BY BoundsAreNumbers, MarkedWereMarked DEF Commit, Crash, Fail, RelayInv, TypeOK
  <1>2. /\ IdleTick \in Tick
        /\ tick' = [tick EXCEPT ![t] = IdleTick] /\ tick \in [Ticks -> Tick]
    BY DEF Commit, Crash, IdleTick, RelayInv, TypeOK, Tick
  <1>3. tick' \in [Ticks -> Tick]
    BY <1>2
  <1>4. \A u \in Ticks : /\ tick'[u].batch \subseteq tick[u].batch
                        /\ tick'[u].toAdd \subseteq tick[u].toAdd
                        /\ tick'[u].toMark \subseteq tick[u].toMark
                        /\ tick'[u].marked \subseteq tick[u].marked
    BY <1>2 DEF IdleTick
  <1>5. TypeOK'
    BY <1>1, <1>3 DEF RelayInv, TypeOK, HeldAreCommitted
  <1>6. HeldAreCommitted'
    BY <1>1, <1>4 DEF RelayInv, HeldAreCommitted
  <1>7. MarkingFollowsAdding'
    BY <1>1, <1>4 DEF RelayInv, MarkingFollowsAdding
  <1>8. PublishedWasAdded'
    BY <1>1 DEF RelayInv, MarkingFollowsAdding, PublishedWasAdded
  <1> QED BY <1>5, <1>6, <1>7, <1>8 DEF RelayInv

\* The relay and what surrounds it keep the invariant.
LEMMA StepRelayInv == RelayInv /\ [Next]_vars => RelayInv'
  <1> SUFFICES ASSUME RelayInv, [Next]_vars PROVE RelayInv'
    OBVIOUS
  <1>1. CASE \E e \in Events : CommitRow(e)
    BY <1>1 DEF CommitRow, RelayInv, TypeOK, HeldAreCommitted, MarkingFollowsAdding,
                PublishedWasAdded
  <1>2. ASSUME NEW t \in Ticks, Step(t) PROVE RelayInv'
    BY <1>2, SelectStep, AddStep, MarkStep, EndStep DEF Step
  <1>3. ASSUME NEW t \in Ticks, NEW e \in Events, AddFails(t, e) \/ MarkFails(t, e)
        PROVE  RelayInv'
    BY <1>3, AddStep, MarkStep
  <1>4. ASSUME NEW t \in Ticks, Crash(t) PROVE RelayInv'
    BY <1>4, EndStep
  <1>5. ASSUME NEW e \in Events, Process(e) PROVE RelayInv'
    <2>1. queue' \in [Events -> Nat]
      BY <1>5 DEF Process, JobsAfter, RelayInv, TypeOK
    <2> QED BY <1>5, <2>1 DEF Process, RelayInv, TypeOK, HeldAreCommitted,
                              MarkingFollowsAdding, PublishedWasAdded
  <1>6. CASE UNCHANGED vars
    BY <1>6 DEF vars, RelayInv, TypeOK, HeldAreCommitted, MarkingFollowsAdding,
                PublishedWasAdded
  <1> QED BY <1>1, <1>2, <1>3, <1>4, <1>5, <1>6 DEF Next

------------------------------------------------------------------------------
\* The variables keep their types.
THEOREM RelayTypeCorrect == Spec => []TypeOK
  <1>1. RelayInv => TypeOK
    BY DEF RelayInv
  <1> QED BY <1>1, InitRelayInv, StepRelayInv, PTL DEF Spec

\* No event is lost between the outbox and the queue: relay() never leaves a row
\* published, and so never selected again, whose job was not added.
THEOREM NothingIsLost == Spec => []PublishedWasAdded
  <1>1. RelayInv => PublishedWasAdded
    BY DEF RelayInv
  <1> QED BY <1>1, InitRelayInv, StepRelayInv, PTL DEF Spec

------------------------------------------------------------------------------
(***************************************************************************)
(* Jobs are added again only after failures.                               *)
(***************************************************************************)

\* Two ticks hold no row in common, none holds a published one, and the parts of
\* a tick are parts of what it holds.
HeldOnce ==
    \A t \in Ticks :
        /\ tick[t].toAdd \cup tick[t].toMark \cup tick[t].marked \subseteq tick[t].batch
        /\ tick[t].toAdd \cap (tick[t].toMark \cup tick[t].marked) = {}
        /\ tick[t].batch \cap published = {}
        /\ tick[t].pc = "idle" => tick[t].batch = {}
        /\ \A u \in Ticks : u # t => tick[t].batch \cap tick[u].batch = {}

\* The row's job was added and that may still be recorded: one addition that no
\* failure paid for.
Recorded(e) == e \in published \/ \E t \in Ticks : e \in tick[t].toMark \cup tick[t].marked

\* The failures pay for each addition that is not recorded.  An aborted tick will
\* record nothing, so it has paid for its rows, also those it is still to add.
FailuresPay ==
    \A e \in Events :
        /\ added[e] <= failures + 1
        /\ ~Recorded(e) => added[e] <= failures
        /\ \A t \in Ticks : tick[t].aborted =>
              /\ e \in tick[t].batch => added[e] <= failures
              /\ e \in tick[t].toAdd => added[e] < failures

CountInv == TypeOK /\ HeldOnce /\ FailuresPay

LEMMA InitCountInv == Init => CountInv
  <1> SUFFICES ASSUME Init PROVE CountInv
    OBVIOUS
  <1>1. TypeOK
    BY InitRelayInv DEF RelayInv
  <1>2. HeldOnce
    BY DEF Init, HeldOnce, IdleTick
  <1>3. FailuresPay
    BY DEF Init, FailuresPay, IdleTick
  <1> QED BY <1>1, <1>2, <1>3 DEF CountInv

\* What SKIP LOCKED gives: the rows selected are held by no tick.
LEMMA SelectCounts == ASSUME CountInv, TypeOK', NEW t \in Ticks, Select(t) PROVE CountInv'
  <1> DEFINE B == Oldest(Unpublished)
  <1>1. /\ B \cap published = {}
        /\ \A u \in Ticks : B \cap tick[u].batch = {}
    BY OldestAreRows DEF Unpublished, Unlocked
  <1> HIDE DEF B
  <1>2. /\ \A u \in Ticks : tick'[u] = IF u = t THEN Running(B) ELSE tick[u]
        /\ UNCHANGED <<published, added, failures>>
    BY DEF Select, B, CountInv, TypeOK
  <1>3. HeldOnce'
    BY <1>1, <1>2 DEF CountInv, HeldOnce, Running
  <1>4. FailuresPay'
    <2> SUFFICES ASSUME NEW e \in Events
                 PROVE  /\ added[e] <= failures + 1
                        /\ ~Recorded(e)' => added[e] <= failures
                        /\ \A u \in Ticks : tick'[u].aborted =>
                              /\ e \in tick'[u].batch => added[e] <= failures
                              /\ e \in tick'[u].toAdd => added[e] < failures
      BY <1>2 DEF FailuresPay
    <2>1. Recorded(e) => Recorded(e)'
      BY <1>2 DEF Recorded, CountInv, HeldOnce, Select
    <2>2. ~Recorded(e)' => added[e] <= failures
      BY <2>1 DEF CountInv, FailuresPay
    <2>3. added[e] <= failures + 1
      BY DEF CountInv, FailuresPay
    <2>4. ASSUME NEW u \in Ticks, tick'[u].aborted
          PROVE  /\ e \in tick'[u].batch => added[e] <= failures
                 /\ e \in tick'[u].toAdd => added[e] < failures
      BY <1>2, <2>4 DEF CountInv, FailuresPay, Running
    <2> QED BY <2>2, <2>3, <2>4
  <1> QED BY <1>3, <1>4 DEF CountInv


\* What an Add, a Mark and their failures do to a tick: the rows it holds stay,
\* and only row e of tick t moves.
RowMoves(t, e) ==
    /\ UNCHANGED published
    /\ \A u \in Ticks :
        /\ tick'[u].batch = tick[u].batch /\ tick'[u].pc = tick[u].pc
        /\ u # t => tick'[u] = tick[u]
        /\ \A f \in Events \ {e} : /\ f \in tick'[u].toAdd <=> f \in tick[u].toAdd
                                   /\ f \in tick'[u].toMark <=> f \in tick[u].toMark
                                   /\ f \in tick'[u].marked <=> f \in tick[u].marked

\* Such a step keeps HeldOnce if the row does not get to both sides of Add.
LEMMA RowMovesHeldOnce ==
    ASSUME CountInv, TypeOK', NEW t \in Ticks, NEW e \in tick[t].batch, RowMoves(t, e),
           tick'[t].toAdd \cap (tick'[t].toMark \cup tick'[t].marked) = {}
    PROVE  HeldOnce'
  <1> SUFFICES ASSUME NEW u \in Ticks
               PROVE  /\ tick'[u].toAdd \cup tick'[u].toMark \cup tick'[u].marked
                             \subseteq tick'[u].batch
                      /\ tick'[u].toAdd \cap (tick'[u].toMark \cup tick'[u].marked) = {}
                      /\ tick'[u].batch \cap published' = {}
                      /\ tick'[u].pc = "idle" => tick'[u].batch = {}
                      /\ \A v \in Ticks : v # u => tick'[u].batch \cap tick'[v].batch = {}
    BY DEF HeldOnce
  <1>1. tick'[u].toAdd \cup tick'[u].toMark \cup tick'[u].marked \subseteq Events
    BY DEF TypeOK, Tick
  <1>2. tick'[u].toAdd \cup tick'[u].toMark \cup tick'[u].marked \subseteq tick'[u].batch
    BY <1>1 DEF CountInv, HeldOnce, RowMoves
  <1>3. tick'[u].toAdd \cap (tick'[u].toMark \cup tick'[u].marked) = {}
    BY DEF CountInv, HeldOnce, RowMoves
  <1> QED BY <1>2, <1>3 DEF CountInv, HeldOnce, RowMoves

\* An addition: the row was not recorded and is now.
LEMMA AddCounts ==
    ASSUME CountInv, TypeOK', NEW t \in Ticks, NEW e \in Events, Add(t, e)
    PROVE  CountInv'
  <1>1. /\ e \in tick[t].toAdd /\ e \in tick[t].batch
        /\ UNCHANGED <<published, failures>>
        /\ added' = [added EXCEPT ![e] = @ + 1]
    BY DEF Add, AddJob, CountInv, HeldOnce
  <1>2. /\ \A u \in Ticks : u # t => tick'[u] = tick[u]
        /\ tick'[t].pc = tick[t].pc /\ tick'[t].batch = tick[t].batch
        /\ tick'[t].toAdd = tick[t].toAdd \ {e}
        /\ tick'[t].toMark = tick[t].toMark \cup {e}
        /\ tick'[t].marked = tick[t].marked
        /\ tick'[t].aborted = tick[t].aborted
    BY DEF Add, CountInv, TypeOK, Tick
  <1>3. RowMoves(t, e)
    BY <1>1, <1>2 DEF RowMoves
  <1>4. HeldOnce'
    BY <1>1, <1>2, <1>3, RowMovesHeldOnce DEF CountInv, HeldOnce
  <1>5. ~Recorded(e)
    BY <1>1 DEF Recorded, CountInv, HeldOnce
  <1>6. Recorded(e)'
    BY <1>2 DEF Recorded
  <1>7. \A f \in Events \ {e} : Recorded(f) <=> Recorded(f)'
    BY <1>1, <1>2, <1>3 DEF Recorded, RowMoves
  <1>8. /\ added[e] <= failures /\ added'[e] = added[e] + 1
        /\ \A f \in Events \ {e} : added'[f] = added[f]
        /\ failures' = failures /\ failures \in Nat /\ added \in [Events -> Nat]
    BY <1>1, <1>5 DEF CountInv, FailuresPay, TypeOK
  <1>9. FailuresPay'
    <2> SUFFICES ASSUME NEW f \in Events
                 PROVE  /\ added'[f] <= failures + 1
                        /\ ~Recorded(f)' => added'[f] <= failures
                        /\ \A u \in Ticks : tick'[u].aborted =>
                              /\ f \in tick'[u].batch => added'[f] <= failures
                              /\ f \in tick'[u].toAdd => added'[f] < failures
      BY <1>1 DEF FailuresPay
    <2>1. CASE f # e
      BY <2>1, <1>2, <1>3, <1>7, <1>8 DEF CountInv, FailuresPay, RowMoves
    <2>2. CASE f = e
      <3>1. added'[e] <= failures + 1
        BY <1>8
      <3>2. ASSUME NEW u \in Ticks, tick'[u].aborted, e \in tick'[u].batch
            PROVE  u = t /\ added[e] < failures /\ e \notin tick'[u].toAdd
        BY <3>2, <1>1, <1>2, <1>3 DEF CountInv, FailuresPay, HeldOnce, RowMoves
      <3>3. ASSUME NEW u \in Ticks, tick'[u].aborted
            PROVE  /\ e \in tick'[u].batch => added'[e] <= failures
                   /\ e \in tick'[u].toAdd => added'[e] < failures
        BY <3>2, <3>3, <1>4, <1>8 DEF HeldOnce
      <3> QED BY <2>2, <3>1, <3>3, <1>6
    <2> QED BY <2>1, <2>2
  <1> QED BY <1>4, <1>9 DEF CountInv


\* An addition that failed pays for itself.
LEMMA AddFailsCounts ==
    ASSUME CountInv, TypeOK', NEW t \in Ticks, NEW e \in Events, AddFails(t, e)
    PROVE  CountInv'
  <1>1. /\ e \in tick[t].toAdd /\ e \in tick[t].batch
        /\ UNCHANGED published
        /\ failures' = failures + 1
        /\ added' = [added EXCEPT ![e] = @ + 1] \/ added' = added
    BY DEF AddFails, AddJob, Fail, CountInv, HeldOnce
  <1>2. /\ \A u \in Ticks : u # t => tick'[u] = tick[u]
        /\ tick'[t].pc = tick[t].pc /\ tick'[t].batch = tick[t].batch
        /\ tick'[t].toAdd = tick[t].toAdd \ {e}
        /\ tick'[t].toMark = tick[t].toMark
        /\ tick'[t].marked = tick[t].marked
        /\ tick'[t].aborted = tick[t].aborted
    BY DEF AddFails, CountInv, TypeOK, Tick
  <1>3. RowMoves(t, e)
    BY <1>1, <1>2 DEF RowMoves
  <1>4. HeldOnce'
    BY <1>1, <1>2, <1>3, RowMovesHeldOnce DEF CountInv, HeldOnce
  <1>5. ~Recorded(e)
    BY <1>1 DEF Recorded, CountInv, HeldOnce
  <1>6. \A f \in Events : Recorded(f) <=> Recorded(f)'
    BY <1>1, <1>2 DEF Recorded
  <1>7. /\ added[e] <= failures
        /\ added'[e] = added[e] + 1 \/ added'[e] = added[e]
        /\ \A f \in Events \ {e} : added'[f] = added[f]
        /\ failures \in Nat /\ added \in [Events -> Nat]
    BY <1>1, <1>5 DEF CountInv, FailuresPay, TypeOK
  <1>8. FailuresPay'
    <2> SUFFICES ASSUME NEW f \in Events
                 PROVE  /\ added'[f] <= failures' + 1
                        /\ ~Recorded(f)' => added'[f] <= failures'
                        /\ \A u \in Ticks : tick'[u].aborted =>
                              /\ f \in tick'[u].batch => added'[f] <= failures'
                              /\ f \in tick'[u].toAdd => added'[f] < failures'
      BY DEF FailuresPay
    <2>1. CASE f # e
      BY <2>1, <1>1, <1>2, <1>6, <1>7 DEF CountInv, FailuresPay
    <2>2. CASE f = e
      <3>1. added'[e] <= failures'
        BY <1>1, <1>7
      <3>2. \A u \in Ticks : e \notin tick'[u].toAdd
        BY <1>1, <1>2 DEF CountInv, HeldOnce
      <3> QED BY <2>2, <3>1, <3>2, <1>1, <1>7
    <2> QED BY <2>1, <2>2
  <1> QED BY <1>4, <1>8 DEF CountInv

\* A mark: the row stays recorded, or its aborted tick had paid for it.
LEMMA MarkCounts ==
    ASSUME CountInv, TypeOK', NEW t \in Ticks, NEW e \in Events, Mark(t, e)
    PROVE  CountInv'
  <1>1. /\ e \in tick[t].toMark /\ e \in tick[t].batch
        /\ UNCHANGED <<published, added, failures>>
    BY DEF Mark, CountInv, HeldOnce
  <1>2. /\ \A u \in Ticks : u # t => tick'[u] = tick[u]
        /\ tick'[t].pc = tick[t].pc /\ tick'[t].batch = tick[t].batch
        /\ tick'[t].toAdd = tick[t].toAdd
        /\ tick'[t].toMark = tick[t].toMark \ {e}
        /\ tick'[t].marked = IF tick[t].aborted THEN tick[t].marked
                                                ELSE tick[t].marked \cup {e}
        /\ tick'[t].aborted = tick[t].aborted
    BY DEF Mark, CountInv, TypeOK, Tick
  <1>3. RowMoves(t, e)
    BY <1>1, <1>2 DEF RowMoves
  <1>4. HeldOnce'
    BY <1>1, <1>2, <1>3, RowMovesHeldOnce DEF CountInv, HeldOnce
  <1>5. \A f \in Events \ {e} : Recorded(f) <=> Recorded(f)'
    BY <1>1, <1>2, <1>3 DEF Recorded, RowMoves
  <1>6. tick[t].aborted => added[e] <= failures
    BY <1>1 DEF CountInv, FailuresPay
  <1>7. ~tick[t].aborted => Recorded(e)'
    BY <1>2 DEF Recorded
  <1>8. FailuresPay'
    <2> SUFFICES ASSUME NEW f \in Events
                 PROVE  /\ added[f] <= failures + 1
                        /\ ~Recorded(f)' => added[f] <= failures
                        /\ \A u \in Ticks : tick'[u].aborted =>
                              /\ f \in tick'[u].batch => added[f] <= failures
                              /\ f \in tick'[u].toAdd => added[f] < failures
      BY <1>1 DEF FailuresPay
    <2>1. added[f] <= failures + 1
      BY DEF CountInv, FailuresPay
    <2>2. ~Recorded(f)' => added[f] <= failures
      BY <1>5, <1>6, <1>7 DEF CountInv, FailuresPay
    <2>3. ASSUME NEW u \in Ticks, tick'[u].aborted
          PROVE  /\ f \in tick'[u].batch => added[f] <= failures
                 /\ f \in tick'[u].toAdd => added[f] < failures
      BY <1>2, <2>3 DEF CountInv, FailuresPay
    <2> QED BY <2>1, <2>2, <2>3
  <1> QED BY <1>4, <1>8 DEF CountInv

\* A failed mark pays for every row of the tick, which it aborts.
LEMMA MarkFailsCounts ==
    ASSUME CountInv, TypeOK', NEW t \in Ticks, NEW e \in Events, MarkFails(t, e)
    PROVE  CountInv'
  <1>1. /\ e \in tick[t].toMark /\ e \in tick[t].batch
        /\ UNCHANGED <<published, added>>
        /\ failures' = failures + 1
        /\ failures \in Nat /\ added \in [Events -> Nat]
    BY DEF MarkFails, Fail, CountInv, HeldOnce, TypeOK
  <1>2. /\ \A u \in Ticks : u # t => tick'[u] = tick[u]
        /\ tick'[t].pc = tick[t].pc /\ tick'[t].batch = tick[t].batch
        /\ tick'[t].toAdd = tick[t].toAdd
        /\ tick'[t].toMark = tick[t].toMark \ {e}
        /\ tick'[t].marked = tick[t].marked
    BY DEF MarkFails, CountInv, TypeOK, Tick
  <1>3. RowMoves(t, e)
    BY <1>1, <1>2 DEF RowMoves
  <1>4. HeldOnce'
    BY <1>1, <1>2, <1>3, RowMovesHeldOnce DEF CountInv, HeldOnce
  <1>5. \A f \in Events : added[f] <= failures'
    BY <1>1 DEF CountInv, FailuresPay
  <1>6. \A u \in Ticks : \A f \in tick'[u].toAdd : added[f] < failures'
    <2> SUFFICES ASSUME NEW u \in Ticks, NEW f \in tick[u].toAdd PROVE added[f] <= failures
      BY <1>1, <1>2 DEF CountInv, TypeOK, Tick
    <2>1. f \in Events /\ ~Recorded(f)
      BY DEF CountInv, TypeOK, Tick, HeldOnce, Recorded
    <2> QED BY <2>1 DEF CountInv, FailuresPay
  <1>7. FailuresPay'
    BY <1>1, <1>5, <1>6 DEF FailuresPay
  <1> QED BY <1>4, <1>7 DEF CountInv


\* COMMIT records what was marked; of an aborted tick nothing, and that was paid.
LEMMA CommitCounts ==
    ASSUME CountInv, TypeOK', NEW t \in Ticks, Commit(t)
    PROVE  CountInv'
  <1>1. /\ UNCHANGED <<added, failures>>
        /\ tick[t].toAdd = {} /\ tick[t].toMark = {}
        /\ published' = published \cup Marked(t)
        /\ \A u \in Ticks : tick'[u] = IF u = t THEN IdleTick ELSE tick[u]
    BY DEF Commit, CountInv, TypeOK
  <1>2. Marked(t) \subseteq tick[t].batch
    BY MarkedWereMarked DEF CountInv, HeldOnce
  <1>3. HeldOnce'
    BY <1>1, <1>2 DEF CountInv, HeldOnce, IdleTick
  <1>4. FailuresPay'
    <2> SUFFICES ASSUME NEW e \in Events
                 PROVE  /\ added[e] <= failures + 1
                        /\ ~Recorded(e)' => added[e] <= failures
                        /\ \A u \in Ticks : tick'[u].aborted =>
                              /\ e \in tick'[u].batch => added[e] <= failures
                              /\ e \in tick'[u].toAdd => added[e] < failures
      BY <1>1 DEF FailuresPay
    <2>1. CASE tick[t].aborted /\ e \in tick[t].batch
      <3>1. added[e] <= failures
        BY <2>1 DEF CountInv, FailuresPay
      <3> QED BY <2>1, <3>1, <1>1 DEF CountInv, FailuresPay, IdleTick
    <2>2. CASE ~(tick[t].aborted /\ e \in tick[t].batch)
      <3>1. Recorded(e) => Recorded(e)'
        BY <2>2, <1>1 DEF Recorded, Marked, CountInv, HeldOnce
      <3> QED BY <3>1, <1>1 DEF CountInv, FailuresPay, IdleTick
    <2> QED BY <2>1, <2>2
  <1> QED BY <1>3, <1>4 DEF CountInv

\* A crash pays for every row of the tick.
LEMMA CrashCounts ==
    ASSUME CountInv, TypeOK', NEW t \in Ticks, Crash(t)
    PROVE  CountInv'
  <1>1. /\ UNCHANGED <<published, added>>
        /\ failures' = failures + 1
        /\ failures \in Nat /\ added \in [Events -> Nat]
        /\ \A u \in Ticks : tick'[u] = IF u = t THEN IdleTick ELSE tick[u]
    BY DEF Crash, Fail, CountInv, TypeOK
  <1>2. HeldOnce'
    BY <1>1 DEF CountInv, HeldOnce, IdleTick
  <1>3. \A e \in Events : added[e] <= failures'
    BY <1>1 DEF CountInv, FailuresPay
  <1>4. \A u \in Ticks : \A e \in Events :
            tick'[u].aborted /\ e \in tick'[u].toAdd => added[e] < failures'
    BY <1>1 DEF CountInv, FailuresPay, IdleTick
  <1>5. FailuresPay'
    BY <1>1, <1>3, <1>4 DEF FailuresPay
  <1> QED BY <1>2, <1>5 DEF CountInv

\* Every step keeps the count.
LEMMA StepCountInv == RelayInv /\ CountInv /\ [Next]_vars => CountInv'
  <1> SUFFICES ASSUME RelayInv, CountInv, [Next]_vars PROVE CountInv'
    OBVIOUS
  <1>1. TypeOK'
    BY StepRelayInv DEF RelayInv
  <1>2. CASE UNCHANGED <<published, tick, added, failures>>
    BY <1>1, <1>2 DEF CountInv, HeldOnce, FailuresPay, Recorded
  <1>3. ASSUME NEW t \in Ticks, Step(t) PROVE CountInv'
    BY <1>1, <1>3, SelectCounts, AddCounts, MarkCounts, CommitCounts DEF Step
  <1>4. ASSUME NEW t \in Ticks, NEW e \in Events, AddFails(t, e) \/ MarkFails(t, e)
        PROVE  CountInv'
    BY <1>1, <1>4, AddFailsCounts, MarkFailsCounts
  <1>5. ASSUME NEW t \in Ticks, Crash(t) PROVE CountInv'
    BY <1>1, <1>5, CrashCounts
  <1>6. (\E e \in Events : CommitRow(e) \/ Process(e)) \/ UNCHANGED vars
        => UNCHANGED <<published, tick, added, failures>>
    BY DEF CommitRow, Process, vars
  <1> QED BY <1>2, <1>3, <1>4, <1>5, <1>6 DEF Next

\* Overlapping ticks and workers never publish a row twice by themselves: a job is
\* added again at most as often as a query, Redis or a process failed.
THEOREM DuplicatesArePaidFor == Spec => []AddedAgainOnlyAfterFailure
  <1>1. CountInv => AddedAgainOnlyAfterFailure
    <2> SUFFICES ASSUME CountInv, NEW e \in Events PROVE added[e] <= 1 + failures
      BY DEF AddedAgainOnlyAfterFailure
    <2>1. added[e] <= failures + 1 /\ failures \in Nat /\ added[e] \in Nat
      BY DEF CountInv, FailuresPay, TypeOK
    <2> QED BY <2>1
  <1>2. Init => RelayInv /\ CountInv
    BY InitRelayInv, InitCountInv
  <1>3. RelayInv /\ CountInv /\ [Next]_vars => (RelayInv /\ CountInv)'
    BY StepRelayInv, StepCountInv
  <1> QED BY <1>1, <1>2, <1>3, PTL DEF Spec

==============================================================================
