--------------------------- MODULE PromoterProofs ---------------------------
(***************************************************************************)
(* Proofs about Promoter, for every set of events and tickers, every batch *)
(* and every limit.                                                        *)
(*                                                                         *)
(* The bound on the alerts of a day rests on who may still be alerted.  A  *)
(* ticker is spent once its alerts use up all the faults and the midnight  *)
(* allow; every ticker that the query could return, or that waits in the   *)
(* batch and was not seen, has an alert to spare.  A compose that computed *)
(* its midnight before it passed is the case by which the date's history   *)
(* enters the bound.                                                       *)
(***************************************************************************)
EXTENDS Promoter, FiniteSetTheorems, TLAPS

Composing == {"compose", "action", "suppress", "deliver"}

PromoterType ==
    /\ mode \in Modes
    /\ clock \in 0 .. DayLength - 1
    /\ tagged \subseteq Rows /\ batch \subseteq Rows /\ IsFiniteSet(tagged)
    /\ left \in [Tickers -> Nat] /\ shownToday \in [Tickers -> Nat]
    /\ ppc \in {"down", "idle", "pass"} \cup Composing
    /\ todo \subseteq Tickers /\ hold \in Nat /\ faults \in Nat
    /\ ppc # "pass" /\ ppc \notin Composing => batch = {}

(***************************************************************************)
(* Without the gate.                                                       *)
(***************************************************************************)
\* The composing steps are never taken.
NothingShown ==
    mode # "gate" => /\ ppc \notin Composing
                     /\ shown = {}
                     /\ shownToday = [t \in Tickers |-> 0]

SuppressedHasJob ==
    mode # "gate" => \A t \in Tickers : left[t] > 0 => \E e \in Events : <<e, t>> \in queued

\* What the pass may still enqueue is within its allowance.
PassIsWithin(jobs, limit) ==
    /\ IsFiniteSet(jobs) /\ IsFiniteSet(batch)
    /\ Cardinality(jobs) < limit + BatchSize
    /\ Cardinality(jobs) + Cardinality(batch) < limit + BatchSize

GuardsHold == mode # "gate" => PassIsWithin(open, MaxPending) /\ PassIsWithin(today, MaxPerDay)

(***************************************************************************)
(* Behind the gate.                                                        *)
(***************************************************************************)
ToMidnight == DayLength - clock

\* Suppressions and the hold of a compose end with the day.
EndsAtMidnight(n) == n = 0 \/ n = ToMidnight

\* The alerts the faults and the midnight account for.
Excused == faults + (IF straddled THEN 1 ELSE 0)
Spare(t) == shownToday[t] <= Excused

\* t has its action row, and its suppression is the next step.
Pending(t) == ppc = "suppress" /\ Lowest(t)

\* The event in hand names t, and t has its row.
Alerted(t) ==
    /\ ppc \in {"action", "suppress", "deliver"}
    /\ \E e \in Events : InHand(e) /\ t \in FreshTickers(e)
    /\ t \notin todo \/ Pending(t)

Suppressions ==
    /\ EndsAtMidnight(hold)
    /\ \A t \in Tickers : EndsAtMidnight(left[t])
    /\ \A t \in Tickers : left[t] > 0 => shownToday[t] > 0
    /\ hold > 0 => \A t \in Tickers : Pending(t) => shownToday[t] > 0

\* The tickers to be written are those of the event in hand.
TodoIsFresh ==
    ppc \in Composing => \E e \in Events : InHand(e) /\ todo \subseteq FreshTickers(e)

\* The midnight a compose computed has passed.
HoldIsOver ==
    ppc \in {"action", "suppress"} /\ hold = 0 =>
        /\ straddled
        /\ \A t \in todo : shownToday[t] <= IF Pending(t) THEN 1 ELSE 0

Spares ==
    /\ AlertedOnceUnlessFault
    /\ \A t \in Tickers : left[t] = 0 /\ ~Pending(t) => Spare(t)
    /\ \A t \in Tickers : (\E e \in Events : <<e, t>> \in batch) /\ t \notin seen =>
           Spare(t) \/ Alerted(t)

GateInv == mode = "gate" => Suppressions /\ TodoIsFresh /\ HoldIsOver /\ Spares

PromoterInv ==
    /\ PromoterType
    /\ NothingShown /\ SuppressedHasJob /\ GuardsHold
    /\ GateInv
-----------------------------------------------------------------------------
(***************************************************************************)
(* Types.                                                                  *)
(***************************************************************************)
USE DEF Composing

LEMMA NextTick ==
    ASSUME NEW n \in 0 .. DayLength - 1
    PROVE  /\ (n + 1) % DayLength = IF n = DayLength - 1 THEN 0 ELSE n + 1
           /\ (n + 1) % DayLength \in 0 .. DayLength - 1
<1>1. DayLength \in Nat \ {0}
  BY PromoterAssumption
<1>2. ASSUME NEW d \in Nat \ {0}, NEW m \in 0 .. d - 1
      PROVE  (m + 1) % d = IF m = d - 1 THEN 0 ELSE m + 1
  OBVIOUS
<1> QED BY <1>1, <1>2

LEMMA LessIsNat == \A n \in Nat : Less(n) \in Nat /\ (n > 0 => Less(n) = n - 1) /\ Less(0) = 0
BY DEF Less

LEMMA RowsArePairs ==
    \A p \in Rows : /\ p[1] \in Events /\ p[2] \in Tickers /\ p = <<p[1], p[2]>>
                   /\ p[1] \in Nat /\ p[2] \in Nat
<1>1. Events \subseteq Nat /\ Tickers \subseteq Nat
  BY PromoterAssumption
<1>2. Rows \subseteq Events \X Tickers
  BY DEF Rows
<1>3. ASSUME NEW p \in Rows
      PROVE  /\ p[1] \in Events /\ p[2] \in Tickers /\ p = <<p[1], p[2]>>
             /\ p[1] \in Nat /\ p[2] \in Nat
  <2>1. PICK e \in Events, t \in Tickers : p = <<e, t>>
    BY <1>2
  <2> QED BY <1>1, <2>1
<1> QED BY <1>3

LEMMA FetchedAreTagged == Candidates \subseteq tagged /\ Fetched \subseteq tagged
BY DEF Fetched, Candidates

LEMMA PromoterInitInv == PromoterInit => PromoterInv
<1> SUFFICES ASSUME PromoterInit PROVE PromoterInv
  OBVIOUS
<1>1. PromoterType
  <2>1. clock \in 0 .. DayLength - 1
    BY PromoterAssumption DEF PromoterInit
  <2> QED BY <2>1, FS_EmptySet DEF PromoterInit, PromoterType
<1>2. NothingShown /\ SuppressedHasJob
  BY DEF PromoterInit, NothingShown, SuppressedHasJob
<1>3. GuardsHold
  BY PromoterAssumption, FS_EmptySet DEF PromoterInit, GuardsHold, PassIsWithin
<1>4. GateInv
  BY PromoterAssumption
     DEF PromoterInit, GateInv, Suppressions, TodoIsFresh, HoldIsOver, Spares, Spare, Excused,
         EndsAtMidnight, AlertedOnceUnlessFault, Pending
<1> QED BY <1>1, <1>2, <1>3, <1>4 DEF PromoterInv

\* What a step does to the parts the types of which are not obvious.
LEMMA TypeKept == ASSUME PromoterType, PromoterNext PROVE PromoterType'
<1> USE DEF PromoterType
<1>1. CASE Boot \/ EndPass \/ CycleLost \/ Crash
  BY <1>1 DEF Boot, EndPass, CycleLost, Crash, tables, history
<1>12. CASE WriteLightBrief
  <2>1. DayLength - clock \in Nat
    BY PromoterAssumption
  <2> QED BY <1>12, <2>1 DEF WriteLightBrief, tables, history
<1>2. CASE BeginPass
  BY <1>2, FetchedAreTagged DEF BeginPass, tables
<1>3. ASSUME NEW e \in Events,
             SkipEvent(e) \/ Evaluate(e) \/ SummaryRaises(e) \/ DeliverLight(e) \/ ComposeRaises(e)
      PROVE PromoterType'
  <2>1. FreshTickers(e) \subseteq Tickers
    BY DEF FreshTickers
  <2> QED BY <1>3, <2>1
         DEF SkipEvent, Evaluate, SummaryRaises, DeliverLight, ComposeRaises, Leave, tables, history
<1>4. ASSUME NEW t \in Tickers, Suppress(t) PROVE PromoterType'
  BY <1>4 DEF Suppress, history
<1>5. ASSUME NEW e \in Events, NEW t \in Tickers, InsertAction(e, t) PROVE PromoterType'
  BY <1>5 DEF InsertAction
<1>6. ASSUME NEW p \in Rows, LegacyEnqueue(p) PROVE PromoterType'
  BY <1>6, RowsArePairs, PromoterAssumption DEF LegacyEnqueue
<1>7. ASSUME NEW p \in Rows, LegacyRaises(p) PROVE PromoterType'
  BY <1>7 DEF LegacyRaises, tables, history
<1>8. ASSUME NEW p \in Rows, Tag(p) PROVE PromoterType'
  <2>1. IsFiniteSet(tagged')
    BY <1>8, FS_AddElement DEF Tag
  <2> QED BY <1>8, <2>1 DEF Tag, history, process
<1>9. ASSUME NEW p \in Rows, Approve(p) \/ JobEnds(p) PROVE PromoterType'
  BY <1>9 DEF Approve, JobEnds, history, process
<1>10. ASSUME NEW t \in Tickers, Rewatch(t) PROVE PromoterType'
  BY <1>10 DEF Rewatch, history, process
<1>11. CASE Tick
  <2>1. clock' \in 0 .. DayLength - 1
    BY <1>11, NextTick, PromoterAssumption DEF Tick
  <2>2. left' \in [Tickers -> Nat] /\ hold' \in Nat
    BY <1>11, LessIsNat DEF Tick
  <2>3. shownToday' \in [Tickers -> Nat]
    BY <1>11 DEF Tick
  <2> QED BY <1>11, <2>1, <2>2, <2>3 DEF Tick
<1> QED BY <1>1, <1>2, <1>3, <1>4, <1>5, <1>6, <1>7, <1>8, <1>9, <1>10, <1>11, <1>12
       DEF PromoterNext, Pass, Compose
-----------------------------------------------------------------------------
(***************************************************************************)
(* A batch is no larger than the LIMIT of its query.                       *)
(***************************************************************************)
Earlier(p) == {q \in Candidates : Before(q, p)}

LEMMA BeforeIsAnOrder ==
    ASSUME NEW p \in Rows, NEW q \in Rows
    PROVE  /\ ~Before(p, p)
           /\ p # q => Before(p, q) \/ Before(q, p)
           /\ \A r \in Rows : Before(r, p) /\ Before(p, q) => Before(r, q)
<1>1. \A r \in Rows : r = <<r[1], r[2]>> /\ r[1] \in Nat /\ r[2] \in Nat
  BY RowsArePairs
<1>2. p # q => p[1] # q[1] \/ p[2] # q[2]
  BY <1>1
<1> QED BY <1>1, <1>2 DEF Before

\* The position in the order tells the rows of a batch apart.
LEMMA FetchedIsABatch ==
    ASSUME PromoterType
    PROVE  IsFiniteSet(Fetched) /\ Cardinality(Fetched) <= BatchSize
<1> DEFINE place == [p \in Fetched |-> Cardinality(Earlier(p))]
<1>1. /\ IsFiniteSet(Candidates) /\ Candidates \subseteq Rows
      /\ Fetched \subseteq Candidates
      /\ BatchSize \in Nat \ {0}
  <2>1. Candidates \subseteq tagged /\ Fetched \subseteq Candidates
    BY DEF Candidates, Fetched
  <2> QED BY <2>1, FS_Subset, PromoterAssumption DEF PromoterType
<1>2. \A p \in Candidates : IsFiniteSet(Earlier(p)) /\ Cardinality(Earlier(p)) \in Nat
  <2> SUFFICES ASSUME NEW p \in Candidates
               PROVE  IsFiniteSet(Earlier(p)) /\ Cardinality(Earlier(p)) \in Nat
    OBVIOUS
  <2>1. Earlier(p) \in SUBSET Candidates
    BY DEF Earlier
  <2>2. IsFiniteSet(Earlier(p))
    BY <1>1, <2>1, FS_Subset
  <2> QED BY <2>2, FS_CardinalityType
<1>3. ASSUME NEW p \in Candidates, NEW q \in Candidates, Before(p, q)
      PROVE  Cardinality(Earlier(p)) # Cardinality(Earlier(q))
  <2>1. Earlier(p) \in SUBSET Earlier(q)
    BY <1>1, <1>3, BeforeIsAnOrder DEF Earlier
  <2>2. p \in Earlier(q) /\ p \notin Earlier(p)
    BY <1>1, <1>3, BeforeIsAnOrder DEF Earlier
  <2>3. IsFiniteSet(Earlier(q)) /\ Earlier(p) # Earlier(q)
    BY <1>2, <2>2
  <2> QED BY <2>1, <2>3, FS_Subset
<1>4. place \in Injection(Fetched, 0 .. BatchSize - 1)
  <2>1. \A p \in Fetched : Cardinality(Earlier(p)) \in 0 .. BatchSize - 1
    <3>1. Fetched = {p \in Candidates : Cardinality(Earlier(p)) < BatchSize}
      BY DEF Fetched, Earlier
    <3> QED BY <1>1, <1>2, <3>1
  <2>2. \A p, q \in Fetched : place[p] = place[q] => p = q
    BY <1>1, <1>3, BeforeIsAnOrder
  <2> QED BY <2>1, <2>2 DEF Injection, IsInjective
<1>5. /\ IsFiniteSet(0 .. BatchSize - 1)
      /\ Cardinality(0 .. BatchSize - 1) = BatchSize
  BY <1>1, FS_Interval
<1> HIDE DEF place
<1> QED BY <1>4, <1>5, FS_Injection
-----------------------------------------------------------------------------
(***************************************************************************)
(* Without the gate.                                                       *)
(***************************************************************************)
LEMMA SettingIsFixed == PromoterNext => mode' = mode
BY DEF PromoterNext, Pass, Boot, BeginPass, EndPass, Compose, WriteLightBrief, Suppress,
       SummaryRaises, DeliverLight, InsertAction, SkipEvent, Evaluate, LegacyEnqueue, CycleLost,
       Crash, ComposeRaises, Rewatch, LegacyRaises, Tag, Approve, JobEnds, Tick

LEMMA NothingShownKept ==
    ASSUME PromoterInv, PromoterNext PROVE NothingShown'
<1> SUFFICES ASSUME mode' # "gate"
             PROVE  ppc' \notin Composing /\ shown' = {} /\ shownToday' = [t \in Tickers |-> 0]
  BY DEF NothingShown
<1>1. mode' = mode
  BY SettingIsFixed
<1>2. ppc \notin Composing /\ shown = {} /\ shownToday = [t \in Tickers |-> 0]
  BY <1>1 DEF PromoterInv, NothingShown
<1>3. CASE Tick
  BY <1>2, <1>3 DEF Tick
<1>4. CASE ~Tick
  BY <1>1, <1>2, <1>4
  DEF PromoterNext, Pass, Boot, BeginPass, EndPass, Compose, WriteLightBrief, Suppress,
         SummaryRaises, DeliverLight, InsertAction, SkipEvent, Evaluate, LegacyEnqueue, CycleLost,
         Crash, ComposeRaises, Rewatch, LegacyRaises, Tag, Approve, JobEnds, tables, history, process
<1> QED BY <1>3, <1>4

\* The steps an installation without the gate takes.
LEMMA LegacySteps ==
    ASSUME PromoterInv, PromoterNext, mode # "gate"
    PROVE  /\ mode' = mode
           /\ \/ Boot \/ BeginPass \/ EndPass \/ Crash \/ Tick
              \/ \E p \in Rows : LegacyEnqueue(p) \/ LegacyRaises(p) \/ Tag(p) \/ JobEnds(p)
              \/ \E t \in Tickers : Rewatch(t)
<1>1. ppc \notin Composing /\ shown = {}
  BY DEF PromoterInv, NothingShown
<1>2. \/ Boot \/ BeginPass \/ EndPass \/ Crash \/ Tick
      \/ \E p \in Rows : LegacyEnqueue(p) \/ LegacyRaises(p) \/ Tag(p) \/ JobEnds(p)
      \/ \E t \in Tickers : Rewatch(t)
  BY <1>1 DEF PromoterNext, Pass, Compose, WriteLightBrief, Suppress,
         SummaryRaises, DeliverLight, InsertAction, SkipEvent, Evaluate, CycleLost,
         ComposeRaises, Approve
<1> QED BY <1>2 DEF Boot, BeginPass, EndPass, Crash, Tick, LegacyEnqueue, LegacyRaises, Tag,
       JobEnds, Rewatch

LEMMA SuppressedHasJobKept ==
    ASSUME PromoterInv, PromoterNext PROVE SuppressedHasJob'
<1> SUFFICES ASSUME mode' # "gate", NEW t \in Tickers, left'[t] > 0
             PROVE  \E e \in Events : <<e, t>> \in queued'
  BY DEF SuppressedHasJob
<1>1. mode # "gate"
  BY SettingIsFixed
<1>2. left[t] > 0 => \E e \in Events : <<e, t>> \in queued
  BY <1>1 DEF PromoterInv, SuppressedHasJob
<1>3. left[t] \in Nat /\ left \in [Tickers -> Nat]
  BY DEF PromoterInv, PromoterType
<1>4. CASE Boot \/ BeginPass \/ EndPass \/ Crash
  BY <1>2, <1>4 DEF Boot, BeginPass, EndPass, Crash, tables
<1>5. CASE Tick
  BY <1>2, <1>3, <1>5, LessIsNat DEF Tick
<1>6. ASSUME NEW p \in Rows, LegacyEnqueue(p) PROVE \E e \in Events : <<e, t>> \in queued'
  BY <1>2, <1>3, <1>6, RowsArePairs DEF LegacyEnqueue
<1>7. ASSUME NEW p \in Rows, LegacyRaises(p) \/ Tag(p) \/ JobEnds(p)
      PROVE  \E e \in Events : <<e, t>> \in queued'
  BY <1>2, <1>7 DEF LegacyRaises, Tag, JobEnds, tables
<1>8. ASSUME NEW s \in Tickers, Rewatch(s) PROVE \E e \in Events : <<e, t>> \in queued'
  BY <1>2, <1>8 DEF Rewatch
<1> QED BY <1>1, <1>4, <1>5, <1>6, <1>7, <1>8, LegacySteps

\* Either set of jobs the guards count.
LEMMA JobMovesWithin ==
    ASSUME NEW jobs, NEW limit \in Nat, PassIsWithin(jobs, limit), BatchSize \in Nat,
           NEW jobs2, NEW batch2,
           \/ jobs2 \subseteq jobs /\ batch2 \subseteq batch
           \/ \E p \in batch : jobs2 = jobs \cup {p} /\ batch2 = batch \ {p}
    PROVE  /\ IsFiniteSet(jobs2) /\ IsFiniteSet(batch2)
           /\ Cardinality(jobs2) < limit + BatchSize
           /\ Cardinality(jobs2) + Cardinality(batch2) < limit + BatchSize
<1>1. /\ IsFiniteSet(jobs) /\ IsFiniteSet(batch)
      /\ Cardinality(jobs) + Cardinality(batch) < limit + BatchSize
      /\ Cardinality(jobs) < limit + BatchSize
  BY DEF PassIsWithin
<1>2. Cardinality(jobs) \in Nat /\ Cardinality(batch) \in Nat
  BY <1>1, FS_CardinalityType
<1>3. CASE jobs2 \in SUBSET jobs /\ batch2 \in SUBSET batch
  <2>1. IsFiniteSet(jobs2) /\ Cardinality(jobs2) <= Cardinality(jobs)
    BY <1>1, <1>3, FS_Subset
  <2>2. IsFiniteSet(batch2) /\ Cardinality(batch2) <= Cardinality(batch)
    BY <1>1, <1>3, FS_Subset
  <2>3. Cardinality(jobs2) \in Nat /\ Cardinality(batch2) \in Nat
    BY <2>1, <2>2, FS_CardinalityType
  <2> QED BY <1>1, <1>2, <2>1, <2>2, <2>3
<1>4. ASSUME NEW p \in batch, jobs2 = jobs \cup {p}, batch2 = batch \ {p}
      PROVE  /\ IsFiniteSet(jobs2) /\ IsFiniteSet(batch2)
             /\ Cardinality(jobs2) < limit + BatchSize
             /\ Cardinality(jobs2) + Cardinality(batch2) < limit + BatchSize
  <2>1. IsFiniteSet(jobs2) /\ Cardinality(jobs2) <= Cardinality(jobs) + 1
    <3>1. /\ IsFiniteSet(jobs \cup {p})
          /\ Cardinality(jobs \cup {p})
             = IF p \in jobs THEN Cardinality(jobs) ELSE Cardinality(jobs) + 1
      BY <1>1, FS_AddElement
    <3> QED BY <1>2, <1>4, <3>1
  <2>2. IsFiniteSet(batch2) /\ Cardinality(batch2) = Cardinality(batch) - 1
    BY <1>1, <1>4, FS_RemoveElement
  <2>3. Cardinality(jobs2) \in Nat /\ Cardinality(batch2) \in Nat
    BY <2>1, <2>2, FS_CardinalityType
  <2> QED BY <1>1, <1>2, <2>1, <2>2, <2>3
<1> QED BY <1>3, <1>4

\* The guard that a pass begins with leaves room for its batch.
LEMMA GuardLeavesRoom ==
    ASSUME NEW jobs, IsFiniteSet(jobs), NEW limit \in Nat, Cardinality(jobs) < limit,
           PromoterType
    PROVE  /\ IsFiniteSet(Fetched)
           /\ Cardinality(jobs) < limit + BatchSize
           /\ Cardinality(jobs) + Cardinality(Fetched) < limit + BatchSize
<1>1. IsFiniteSet(Fetched) /\ Cardinality(Fetched) <= BatchSize
  BY FetchedIsABatch
<1>2. Cardinality(jobs) \in Nat /\ Cardinality(Fetched) \in Nat /\ BatchSize \in Nat
  BY <1>1, FS_CardinalityType, PromoterAssumption
<1> QED BY <1>1, <1>2

LEMMA GuardsHoldKept ==
    ASSUME PromoterInv, PromoterNext PROVE GuardsHold'
<1> SUFFICES ASSUME mode' # "gate"
             PROVE  PassIsWithin(open, MaxPending)' /\ PassIsWithin(today, MaxPerDay)'
  BY DEF GuardsHold
<1> DEFINE Kept(jobs, jobs2) == \/ jobs2 \subseteq jobs /\ batch' \subseteq batch
                              \/ \E p \in batch : jobs2 = jobs \cup {p} /\ batch' = batch \ {p}
<1>1. mode # "gate"
  BY SettingIsFixed
<1>2. /\ PassIsWithin(open, MaxPending) /\ PassIsWithin(today, MaxPerDay)
      /\ MaxPending \in Nat /\ MaxPerDay \in Nat /\ BatchSize \in Nat
      /\ PromoterType
  BY <1>1, PromoterAssumption DEF PromoterInv, GuardsHold
<1>3. CASE BeginPass
  <2>1. /\ IsFiniteSet(open) /\ Cardinality(open) < MaxPending
        /\ IsFiniteSet(today) /\ Cardinality(today) < MaxPerDay
        /\ batch' = Fetched /\ open' = open /\ today' = today
    BY <1>2, <1>3 DEF BeginPass, GuardsPass, PassIsWithin, tables
  <2> QED BY <1>2, <2>1, GuardLeavesRoom DEF PassIsWithin
<1>4. Kept(open, open') /\ Kept(today, today')
      => PassIsWithin(open, MaxPending)' /\ PassIsWithin(today, MaxPerDay)'
  BY <1>2, JobMovesWithin DEF PassIsWithin
<1>5. CASE Boot \/ EndPass \/ Crash
  BY <1>4, <1>5 DEF Boot, EndPass, Crash, tables
<1>6. CASE Tick
  BY <1>4, <1>6 DEF Tick
<1>7. ASSUME NEW p \in Rows, LegacyEnqueue(p) PROVE Kept(open, open') /\ Kept(today, today')
  BY <1>7 DEF LegacyEnqueue, NextRow
<1>8. ASSUME NEW p \in Rows, LegacyRaises(p) \/ Tag(p) \/ JobEnds(p)
      PROVE  Kept(open, open') /\ Kept(today, today')
  BY <1>8 DEF LegacyRaises, Tag, JobEnds, tables, process
<1>9. ASSUME NEW t \in Tickers, Rewatch(t) PROVE Kept(open, open') /\ Kept(today, today')
  BY <1>9 DEF Rewatch, process
<1> HIDE DEF Kept
<1> QED BY <1>1, <1>3, <1>4, <1>5, <1>6, <1>7, <1>8, <1>9, LegacySteps
-----------------------------------------------------------------------------
(***************************************************************************)
(* Behind the gate.                                                        *)
(***************************************************************************)
LEMMA AddsOne == \A f \in Nat : \A s : f + (IF s THEN 1 ELSE 0) \in Nat
OBVIOUS

LEMMA ExcusedIsNat ==
    PromoterType => /\ Excused \in Nat
                    /\ AlertedOnceUnlessFault <=> \A t \in Tickers : shownToday[t] <= 1 + Excused
BY DEF PromoterType, Excused, AlertedOnceUnlessFault

LEMMA InHandIsOne ==
    ASSUME PromoterType, NEW e \in Events, NEW f \in Events, InHand(e), InHand(f)
    PROVE  e = f
BY PromoterAssumption DEF InHand

LEMMA LowestIsOne ==
    ASSUME PromoterType, NEW t, NEW u, Lowest(t), Lowest(u) PROVE t = u
BY PromoterAssumption DEF Lowest, PromoterType

\* The steps outside of a compose, and those that leave one: what they drop
\* from the batch is spare, seen, or excused by the fault they are.
LEMMA LeavingKeeps ==
    ASSUME PromoterType, PromoterType', Suppressions, AlertedOnceUnlessFault,
           UNCHANGED <<clock, left, shownToday, straddled>>,
           ppc' \notin Composing, hold' = hold \/ hold' = 0,
           \/ faults' = faults + 1
           \/ /\ faults' = faults
              /\ \A t \in Tickers : left[t] = 0 => Spare(t)
              /\ \A t \in Tickers : (\E e \in Events : <<e, t>> \in batch') /\ t \notin seen' => Spare(t)
    PROVE  Suppressions' /\ TodoIsFresh' /\ HoldIsOver' /\ Spares'
<1>1. Suppressions'
  BY DEF Suppressions, EndsAtMidnight, ToMidnight, Pending
<1>2. TodoIsFresh' /\ HoldIsOver'
  BY DEF TodoIsFresh, HoldIsOver
<1>3. /\ Excused \in Nat /\ Excused' \in Nat
      /\ \A t \in Tickers : shownToday[t] \in Nat /\ shownToday[t] <= 1 + Excused
  <2>1. Excused' \in Nat
    <3>1. faults' \in Nat
      BY DEF PromoterType
    <3> QED BY <3>1, AddsOne DEF Excused
  <2>2. \A t \in Tickers : shownToday[t] \in Nat
    BY DEF PromoterType
  <2> QED BY <2>1, <2>2, ExcusedIsNat
<1>4. CASE faults' = faults + 1
  <2>1. Excused' = 1 + Excused
    BY <1>4 DEF Excused, PromoterType
  <2>2. \A t \in Tickers : Spare(t)'
    BY <1>3, <2>1 DEF Spare
  <2>3. AlertedOnceUnlessFault'
    BY <1>3, <2>1, <2>2 DEF AlertedOnceUnlessFault, Excused, PromoterType
  <2> QED BY <1>1, <1>2, <2>2, <2>3 DEF Spares
<1>5. CASE /\ faults' = faults
           /\ \A t \in Tickers : left[t] = 0 => Spare(t)
           /\ \A t \in Tickers : (\E e \in Events : <<e, t>> \in batch') /\ t \notin seen' => Spare(t)
  <2>1. Excused' = Excused /\ \A t \in Tickers : Spare(t)' <=> Spare(t)
    BY <1>5 DEF Excused, Spare
  <2>2. AlertedOnceUnlessFault'
    BY <1>5 DEF AlertedOnceUnlessFault
  <2> QED BY <1>1, <1>2, <1>5, <2>1, <2>2 DEF Spares
<1> QED BY <1>4, <1>5

\* Outside of a compose nothing is half written, so everyone is spare.
LEMMA OutsideAllSpare ==
    ASSUME Spares, ppc \notin {"action", "suppress", "deliver"}
    PROVE  /\ \A t \in Tickers : left[t] = 0 => Spare(t)
           /\ \A t \in Tickers : (\E e \in Events : <<e, t>> \in batch) /\ t \notin seen => Spare(t)
BY DEF Spares, Pending, Alerted

LEMMA BeginPassKeeps ==
    ASSUME PromoterInv, PromoterType', mode = "gate", BeginPass
    PROVE  Suppressions' /\ TodoIsFresh' /\ HoldIsOver' /\ Spares'
<1>1. Suppressions /\ Spares /\ AlertedOnceUnlessFault
  BY DEF PromoterInv, GateInv, Spares
<1>2. \A t \in Tickers : left[t] = 0 => Spare(t)
  BY <1>1, OutsideAllSpare DEF BeginPass
<1>3. \A t \in Tickers : (\E e \in Events : <<e, t>> \in batch') => left[t] = 0
  BY DEF BeginPass, Fetched, Candidates
<1> QED BY <1>1, <1>2, <1>3, LeavingKeeps DEF BeginPass, tables, PromoterInv

LEMMA OutsideKeeps ==
    ASSUME PromoterInv, PromoterType', mode = "gate",
           NEW e,
           \/ Boot \/ EndPass \/ CycleLost \/ Crash
           \/ SkipEvent(e) \/ SummaryRaises(e) \/ ComposeRaises(e)
           \/ Evaluate(e) /\ ppc' = "pass"
    PROVE  Suppressions' /\ TodoIsFresh' /\ HoldIsOver' /\ Spares'
<1>1. Suppressions /\ Spares /\ AlertedOnceUnlessFault /\ PromoterType
  BY DEF PromoterInv, GateInv, Spares
<1>2. CASE CycleLost \/ Crash \/ ComposeRaises(e)
  BY <1>1, <1>2, LeavingKeeps DEF CycleLost, Crash, ComposeRaises, Leave, tables, history
<1>3. CASE Boot \/ EndPass \/ SkipEvent(e) \/ SummaryRaises(e) \/ (Evaluate(e) /\ ppc' = "pass")
  <2>1. /\ ppc \notin {"action", "suppress", "deliver"}
        /\ batch' \subseteq batch /\ (seen' = seen \/ batch' = {})
        /\ ppc' \notin Composing /\ faults' = faults
        /\ hold' = hold \/ hold' = 0
        /\ UNCHANGED <<clock, left, shownToday, straddled>>
    BY <1>3 DEF Boot, EndPass, SkipEvent, SummaryRaises, Evaluate, Leave, tables, history
  <2>2. /\ \A t \in Tickers : left[t] = 0 => Spare(t)
        /\ \A t \in Tickers : (\E x \in Events : <<x, t>> \in batch') /\ t \notin seen' => Spare(t)
    BY <1>1, <2>1, OutsideAllSpare
  <2> QED BY <1>1, <2>1, <2>2, LeavingKeeps
<1> QED BY <1>2, <1>3

LEMMA DeliverLightKeeps ==
    ASSUME PromoterInv, PromoterType', mode = "gate", NEW e \in Events, DeliverLight(e)
    PROVE  Suppressions' /\ TodoIsFresh' /\ HoldIsOver' /\ Spares'
<1>1. Suppressions /\ Spares /\ AlertedOnceUnlessFault /\ PromoterType
  BY DEF PromoterInv, GateInv, Spares
<1>2. \A t \in Tickers : left[t] = 0 => Spare(t)
  BY <1>1 DEF Spares, Pending, DeliverLight
<1>3. ASSUME NEW t \in Tickers, NEW f \in Events, <<f, t>> \in batch', t \notin seen'
      PROVE  Spare(t)
  <2>1. <<f, t>> \in batch /\ t \notin seen /\ t \notin FreshTickers(e)
    BY <1>3 DEF DeliverLight, Leave
  <2>2. ~Alerted(t)
    BY <1>1, <2>1, InHandIsOne DEF Alerted, DeliverLight
  <2> QED BY <1>1, <2>1, <2>2 DEF Spares
<1> QED BY <1>1, <1>2, <1>3, LeavingKeeps DEF DeliverLight, Leave, tables, history

LEMMA EvaluateKeeps ==
    ASSUME PromoterInv, PromoterType', mode = "gate", NEW e \in Events, Evaluate(e), ppc' = "compose"
    PROVE  Suppressions' /\ TodoIsFresh' /\ HoldIsOver' /\ Spares'
<1>1. Suppressions /\ Spares /\ PromoterType
  BY DEF PromoterInv, GateInv
<1>2. /\ ppc = "pass" /\ InHand(e) /\ todo' = FreshTickers(e)
      /\ UNCHANGED <<batch, seen, hold, clock, left, shownToday, straddled, faults>>
  BY DEF Evaluate, Leave, tables
<1>3. Suppressions'
  BY <1>1, <1>2 DEF Suppressions, EndsAtMidnight, ToMidnight, Pending
<1>4. TodoIsFresh' /\ HoldIsOver'
  <2>1. InHand(e)' /\ todo' \subseteq FreshTickers(e)'
    BY <1>2 DEF InHand, FreshTickers
  <2> QED BY <2>1 DEF TodoIsFresh, HoldIsOver
<1>5. Spares'
  <2>1. AlertedOnceUnlessFault'
    BY <1>1, <1>2 DEF Spares, AlertedOnceUnlessFault
  <2>2. \A t \in Tickers : Spare(t)' <=> Spare(t)
    BY <1>2 DEF Spare, Excused
  <2> QED BY <1>1, <1>2, <2>1, <2>2, OutsideAllSpare DEF Spares
<1> QED BY <1>3, <1>4, <1>5

LEMMA WriteLightBriefKeeps ==
    ASSUME PromoterInv, PromoterType', mode = "gate", WriteLightBrief
    PROVE  Suppressions' /\ TodoIsFresh' /\ HoldIsOver' /\ Spares'
<1>1. Suppressions /\ TodoIsFresh /\ Spares /\ PromoterType
  BY DEF PromoterInv, GateInv
<1>2. /\ ppc = "compose" /\ ppc' = "action" /\ hold' = ToMidnight
      /\ UNCHANGED <<batch, seen, todo, clock, left, shownToday, straddled, faults>>
  BY DEF WriteLightBrief, tables, history, ToMidnight
<1>3. hold' > 0
  BY <1>1, <1>2, PromoterAssumption DEF PromoterType, ToMidnight
<1>4. Suppressions'
  BY <1>1, <1>2 DEF Suppressions, EndsAtMidnight, ToMidnight, Pending
<1>5. TodoIsFresh' /\ HoldIsOver'
  BY <1>1, <1>2, <1>3 DEF TodoIsFresh, HoldIsOver, InHand, FreshTickers
<1>6. Spares'
  <2>1. AlertedOnceUnlessFault'
    BY <1>1, <1>2 DEF Spares, AlertedOnceUnlessFault
  <2>2. \A t \in Tickers : Spare(t)' <=> Spare(t)
    BY <1>2 DEF Spare, Excused
  <2> QED BY <1>1, <1>2, <2>1, <2>2, OutsideAllSpare DEF Spares
<1> QED BY <1>4, <1>5, <1>6

LEMMA InsertActionKeeps ==
    ASSUME PromoterInv, PromoterType', mode = "gate", NEW e \in Events, NEW t \in Tickers,
           InsertAction(e, t)
    PROVE  Suppressions' /\ TodoIsFresh' /\ HoldIsOver' /\ Spares'
<1>1. Suppressions /\ TodoIsFresh /\ HoldIsOver /\ Spares /\ PromoterType
  BY DEF PromoterInv, GateInv
<1>2. /\ ppc = "action" /\ ppc' = "suppress" /\ InHand(e) /\ Lowest(t) /\ t \in todo
      /\ shownToday'[t] = shownToday[t] + 1
      /\ \A u \in Tickers : shownToday[u] \in Nat /\ (u # t => shownToday'[u] = shownToday[u])
      /\ UNCHANGED <<batch, seen, todo, hold, clock, left, straddled, faults>>
  BY <1>1 DEF InsertAction, PromoterType, Lowest
<1>3. InHand(e)' /\ t \in FreshTickers(e) /\ todo \subseteq FreshTickers(e)
      /\ FreshTickers(e)' = FreshTickers(e)
  BY <1>1, <1>2, InHandIsOne DEF TodoIsFresh, InHand, FreshTickers
<1>4. Spare(t)
  <2>1. <<e, t>> \in batch /\ t \notin seen
    BY <1>3 DEF FreshTickers
  <2>2. ~Alerted(t)
    BY <1>2 DEF Alerted, Pending
  <2> QED BY <1>1, <2>1, <2>2 DEF Spares
<1>5. Lowest(t)' /\ Pending(t)' /\ \A u \in Tickers : Pending(u)' => u = t
  BY <1>1, <1>2, LowestIsOne DEF Pending, Lowest
<1>6. Suppressions'
  BY <1>1, <1>2, <1>5 DEF Suppressions, EndsAtMidnight, ToMidnight
<1>7. TodoIsFresh'
  BY <1>2, <1>3 DEF TodoIsFresh
<1>8. HoldIsOver'
  <2> SUFFICES ASSUME hold = 0, NEW u \in todo
               PROVE  straddled /\ shownToday'[u] <= IF Pending(u)' THEN 1 ELSE 0
    BY <1>2 DEF HoldIsOver
  <2>1. straddled /\ shownToday[u] <= 0 /\ u \in Tickers
    BY <1>1, <1>2 DEF HoldIsOver, Pending, PromoterType
  <2> QED BY <1>2, <1>5, <2>1
<1>9. Excused' = Excused /\ Excused \in Nat
  BY <1>1, <1>2, ExcusedIsNat DEF Excused
<1>10. AlertedOnceUnlessFault'
  <2>1. \A u \in Tickers : shownToday'[u] <= 1 + Excused
    BY <1>1, <1>2, <1>4, <1>9, ExcusedIsNat DEF Spares, Spare
  <2>2. faults \in Nat /\ \A u \in Tickers : shownToday'[u] \in Nat
    BY <1>1 DEF PromoterType
  <2> QED BY <1>2, <2>1, <2>2 DEF AlertedOnceUnlessFault, Excused
<1>11. \A u \in Tickers : u # t => (Spare(u) => Spare(u)')
  BY <1>2, <1>9 DEF Spare
<1>12. \A u \in Tickers : left'[u] = 0 /\ ~Pending(u)' => Spare(u)'
  BY <1>1, <1>2, <1>5, <1>11 DEF Spares, Pending
<1>13. ASSUME NEW u \in Tickers, NEW f \in Events, <<f, u>> \in batch', u \notin seen'
       PROVE  Spare(u)' \/ Alerted(u)'
  <2>1. CASE u = t
    BY <1>2, <1>3, <1>5, <2>1 DEF Alerted
  <2>2. CASE Spare(u) /\ u # t
    BY <1>11, <2>2
  <2>3. CASE Alerted(u) /\ u # t
    <3>1. u \notin todo' /\ u \in FreshTickers(e)'
      BY <1>1, <1>2, <1>3, <2>3, InHandIsOne DEF Alerted, Pending
    <3> QED BY <1>2, <1>3, <3>1 DEF Alerted
  <2> QED BY <1>1, <1>2, <1>13, <2>1, <2>2, <2>3 DEF Spares
<1> QED BY <1>6, <1>7, <1>8, <1>10, <1>12, <1>13 DEF Spares

LEMMA SuppressKeeps ==
    ASSUME PromoterInv, PromoterType', mode = "gate", NEW t \in Tickers, Suppress(t)
    PROVE  Suppressions' /\ TodoIsFresh' /\ HoldIsOver' /\ Spares'
<1>1. Suppressions /\ TodoIsFresh /\ HoldIsOver /\ Spares /\ PromoterType
  BY DEF PromoterInv, GateInv
<1>2. /\ ppc = "suppress" /\ ppc' \in {"action", "deliver"} /\ Lowest(t) /\ t \in todo
      /\ left'[t] = hold /\ \A u \in Tickers : u # t => left'[u] = left[u]
      /\ todo' = todo \ {t}
      /\ UNCHANGED <<batch, seen, hold, clock, shownToday, straddled, faults>>
      /\ \A u \in Tickers : shownToday[u] \in Nat
  BY <1>1 DEF Suppress, PromoterType, Lowest, history
<1>3. Pending(t) /\ \A u \in Tickers : Pending(u) => u = t
  BY <1>1, <1>2, LowestIsOne DEF Pending
<1>4. \A u : ~Pending(u)'
  BY <1>2 DEF Pending
<1>5. PICK e \in Events : InHand(e) /\ todo \subseteq FreshTickers(e)
  BY <1>1, <1>2 DEF TodoIsFresh
<1>6. InHand(e)' /\ FreshTickers(e)' = FreshTickers(e)
  BY <1>2, <1>5 DEF InHand, FreshTickers
<1>7. Suppressions'
  BY <1>1, <1>2, <1>3, <1>4 DEF Suppressions, EndsAtMidnight, ToMidnight, PromoterType
<1>8. TodoIsFresh'
  BY <1>2, <1>5, <1>6 DEF TodoIsFresh
<1>9. HoldIsOver'
  <2> SUFFICES ASSUME hold = 0
               PROVE  straddled /\ \A u \in todo' : shownToday[u] <= 0
    BY <1>2, <1>4 DEF HoldIsOver
  <2>0. straddled
    BY <1>1, <1>2 DEF HoldIsOver
  <2> SUFFICES ASSUME NEW u \in todo' PROVE shownToday[u] <= 0
    BY <2>0
  <2>1. u \in todo /\ u \in Tickers /\ u # t
    BY <1>1, <1>2 DEF PromoterType
  <2>2. ~Pending(u)
    BY <1>3, <2>1
  <2> QED BY <1>1, <1>2, <2>1, <2>2 DEF HoldIsOver
<1>10. Excused' = Excused /\ Excused \in Nat /\ \A u \in Tickers : Spare(u)' <=> Spare(u)
  BY <1>1, <1>2, ExcusedIsNat DEF Excused, Spare
<1>11. AlertedOnceUnlessFault'
  BY <1>1, <1>2 DEF Spares, AlertedOnceUnlessFault
<1>12. ASSUME NEW u \in Tickers, left'[u] = 0 PROVE Spare(u)
  <2>1. CASE u # t
    BY <1>1, <1>2, <1>3, <1>12, <2>1 DEF Spares
  <2>2. CASE u = t
    <3>1. straddled /\ shownToday[t] <= 1
      BY <1>1, <1>2, <1>3, <1>12, <2>2 DEF HoldIsOver
    <3>2. Excused >= 1
      BY <1>1, <3>1 DEF Excused, PromoterType
    <3> QED BY <1>2, <1>10, <2>2, <3>1, <3>2 DEF Spare
  <2> QED BY <2>1, <2>2
<1>13. ASSUME NEW u \in Tickers, NEW f \in Events, <<f, u>> \in batch', u \notin seen'
       PROVE  Spare(u) \/ Alerted(u)'
  <2>1. CASE u = t
    BY <1>2, <1>5, <1>6, <2>1 DEF Alerted
  <2>2. CASE Alerted(u) /\ u # t
    <3>1. u \notin todo' /\ u \in FreshTickers(e)
      BY <1>1, <1>2, <1>3, <1>5, <2>2, InHandIsOne DEF Alerted
    <3> QED BY <1>2, <1>5, <1>6, <3>1 DEF Alerted
  <2> QED BY <1>1, <1>2, <1>13, <2>1, <2>2 DEF Spares
<1> QED BY <1>7, <1>8, <1>9, <1>10, <1>11, <1>12, <1>13 DEF Spares

\* The day goes on, or it ends with every suppression and with what was shown.
LEMMA TickKeeps ==
    ASSUME PromoterInv, PromoterType', mode = "gate", Tick
    PROVE  Suppressions' /\ TodoIsFresh' /\ HoldIsOver' /\ Spares'
<1>1. Suppressions /\ TodoIsFresh /\ HoldIsOver /\ Spares /\ PromoterType
  BY DEF PromoterInv, GateInv
<1>2. /\ UNCHANGED <<ppc, batch, seen, todo, faults>>
      /\ hold' = Less(hold) /\ \A t \in Tickers : left'[t] = Less(left[t])
      /\ hold \in Nat /\ faults \in Nat
      /\ \A t \in Tickers : left[t] \in Nat /\ shownToday[t] \in Nat
      /\ todo \subseteq Tickers
  BY <1>1 DEF Tick, PromoterType
<1>3. /\ clock \in 0 .. DayLength - 1 /\ DayLength \in Nat \ {0}
      /\ clock' = IF clock = DayLength - 1 THEN 0 ELSE clock + 1
  BY <1>1, NextTick, PromoterAssumption DEF Tick, PromoterType
<1>4. TodoIsFresh'
  BY <1>1, <1>2 DEF TodoIsFresh, InHand, FreshTickers
<1>5. CASE clock' = 0
  <2>1. ToMidnight = 1
    BY <1>3, <1>5 DEF ToMidnight
  <2>2. hold' = 0 /\ \A t \in Tickers : left'[t] = 0
    BY <1>1, <1>2, <2>1, LessIsNat DEF Suppressions, EndsAtMidnight
  <2>3. /\ \A t \in Tickers : shownToday'[t] = 0
        /\ ppc \in {"action", "suppress"} => straddled'
    BY <1>5 DEF Tick
  <2>4. Suppressions'
    BY <2>2 DEF Suppressions, EndsAtMidnight
  <2>5. HoldIsOver'
    BY <1>2, <2>3 DEF HoldIsOver
  <2>6. Excused' \in Nat
    BY <1>2, AddsOne DEF Excused
  <2>7. \A t \in Tickers : Spare(t)'
    BY <2>3, <2>6 DEF Spare
  <2>8. AlertedOnceUnlessFault'
    BY <1>2, <2>3, AddsOne DEF AlertedOnceUnlessFault
  <2> QED BY <1>4, <2>4, <2>5, <2>7, <2>8 DEF Spares
<1>6. CASE clock' # 0
  <2>1. ToMidnight' = ToMidnight - 1 /\ ToMidnight \in Nat /\ ToMidnight > 1
    BY <1>3, <1>6 DEF ToMidnight
  <2>2. UNCHANGED <<shownToday, straddled>>
    BY <1>6 DEF Tick
  <2>3. /\ \A t \in Tickers : EndsAtMidnight(left[t])' /\ (left'[t] > 0 <=> left[t] > 0)
        /\ \A t \in Tickers : left'[t] = 0 <=> left[t] = 0
    BY <1>1, <1>2, <2>1, LessIsNat DEF Suppressions, EndsAtMidnight
  <2>4. EndsAtMidnight(hold)' /\ (hold' > 0 <=> hold > 0) /\ (hold' = 0 <=> hold = 0)
    BY <1>1, <1>2, <2>1, LessIsNat DEF Suppressions, EndsAtMidnight
  <2>5. \A t : (Pending(t)' <=> Pending(t)) /\ (Alerted(t)' <=> Alerted(t)) /\ (Spare(t)' <=> Spare(t))
    BY <1>2, <2>2 DEF Pending, Alerted, Spare, Excused, Lowest, InHand, FreshTickers
  <2>6. Suppressions'
    BY <1>1, <2>2, <2>3, <2>4, <2>5 DEF Suppressions
  <2>7. HoldIsOver'
    BY <1>1, <1>2, <2>2, <2>4, <2>5 DEF HoldIsOver
  <2>8. Spares'
    BY <1>1, <1>2, <2>2, <2>3, <2>5 DEF Spares, AlertedOnceUnlessFault
  <2> QED BY <1>4, <2>6, <2>7, <2>8
<1> QED BY <1>5, <1>6

LEMMA OthersKeep ==
    ASSUME PromoterInv, mode = "gate",
           \/ \E p \in Rows : Tag(p) \/ Approve(p) \/ JobEnds(p)
           \/ \E t \in Tickers : Rewatch(t)
    PROVE  Suppressions' /\ TodoIsFresh' /\ HoldIsOver' /\ Spares'
<1>1. Suppressions /\ TodoIsFresh /\ HoldIsOver /\ Spares
  BY DEF PromoterInv, GateInv
<1>2. UNCHANGED <<ppc, batch, seen, todo, faults, hold, left, clock, shownToday, straddled>>
  BY DEF Tag, Approve, JobEnds, Rewatch, history, process
<1>3. \A t : (Pending(t)' <=> Pending(t)) /\ (Alerted(t)' <=> Alerted(t)) /\ (Spare(t)' <=> Spare(t))
  BY <1>2 DEF Pending, Alerted, Spare, Excused, Lowest, InHand, FreshTickers
<1>4. Suppressions'
  BY <1>1, <1>2, <1>3 DEF Suppressions, EndsAtMidnight, ToMidnight
<1>5. TodoIsFresh' /\ HoldIsOver'
  BY <1>1, <1>2, <1>3 DEF TodoIsFresh, HoldIsOver, InHand, FreshTickers
<1>6. Spares'
  BY <1>1, <1>2, <1>3 DEF Spares, AlertedOnceUnlessFault
<1> QED BY <1>4, <1>5, <1>6

LEMMA GateInvKept ==
    ASSUME PromoterInv, PromoterNext, PromoterType' PROVE GateInv'
<1> SUFFICES ASSUME mode' = "gate"
             PROVE  Suppressions' /\ TodoIsFresh' /\ HoldIsOver' /\ Spares'
  BY DEF GateInv
<1>1. mode = "gate"
  BY SettingIsFixed
<1>2. ASSUME NEW e \in Events, Evaluate(e)
      PROVE  Suppressions' /\ TodoIsFresh' /\ HoldIsOver' /\ Spares'
  <2>1. ppc' = "compose" \/ ppc' = "pass"
    BY <1>2 DEF Evaluate, Leave
  <2> QED BY <1>1, <1>2, <2>1, EvaluateKeeps, OutsideKeeps
<1>3. \A p \in Rows : ~LegacyEnqueue(p) /\ ~LegacyRaises(p)
  BY <1>1 DEF LegacyEnqueue, LegacyRaises
<1>4. CASE BeginPass \/ Boot \/ EndPass \/ CycleLost \/ Crash
  BY <1>1, <1>4, BeginPassKeeps, OutsideKeeps
<1>5. ASSUME NEW e \in Events, SkipEvent(e) \/ SummaryRaises(e) \/ ComposeRaises(e)
      PROVE  Suppressions' /\ TodoIsFresh' /\ HoldIsOver' /\ Spares'
  BY <1>1, <1>5, OutsideKeeps
<1>6. CASE Compose
  BY <1>1, <1>5, <1>6, DeliverLightKeeps, WriteLightBriefKeeps, InsertActionKeeps,
     SuppressKeeps DEF Compose
<1>7. CASE \/ Tick \/ \E t \in Tickers : Rewatch(t)
           \/ \E p \in Rows : Tag(p) \/ Approve(p) \/ JobEnds(p)
  BY <1>1, <1>7, TickKeeps, OthersKeep
<1> QED BY <1>2, <1>3, <1>4, <1>5, <1>6, <1>7 DEF PromoterNext, Pass
-----------------------------------------------------------------------------
LEMMA PromoterInvKept ==
    ASSUME PromoterInv, [PromoterNext]_promoterVars PROVE PromoterInv'
<1>1. CASE PromoterNext
  <2>1. PromoterType'
    BY <1>1, TypeKept DEF PromoterInv
  <2> QED BY <1>1, <2>1, NothingShownKept, SuppressedHasJobKept, GuardsHoldKept, GateInvKept
         DEF PromoterInv
<1>2. CASE UNCHANGED promoterVars
  <2>1. UNCHANGED <<mode, clock, tagged, watched, left, queued, open, today, shown, shownToday,
                    treated, straddled, ppc, batch, seen, todo, hold, faults>>
    BY <1>2 DEF promoterVars, tables, history, process
  <2>2. \A t : (Pending(t)' <=> Pending(t)) /\ (Alerted(t)' <=> Alerted(t)) /\ (Spare(t)' <=> Spare(t))
    BY <2>1 DEF Pending, Alerted, Spare, Excused, Lowest, InHand, FreshTickers
  <2>3. PromoterType' /\ NothingShown' /\ SuppressedHasJob' /\ GuardsHold'
    BY <2>1 DEF PromoterInv, PromoterType, NothingShown, SuppressedHasJob, GuardsHold, PassIsWithin
  <2>4. Suppressions' <=> Suppressions
    BY <2>1, <2>2 DEF Suppressions, EndsAtMidnight, ToMidnight
  <2>5. (TodoIsFresh' <=> TodoIsFresh) /\ (HoldIsOver' <=> HoldIsOver) /\ (Spares' <=> Spares)
    BY <2>1, <2>2 DEF TodoIsFresh, HoldIsOver, InHand, FreshTickers, Spares, AlertedOnceUnlessFault
  <2> QED BY <2>1, <2>3, <2>4, <2>5 DEF PromoterInv, GateInv
<1> QED BY <1>1, <1>2

\* Promoter's inductive invariant holds in every reachable state.
THEOREM PromoterInvHolds == PromoterSpec => []PromoterInv
<1>1. PromoterInv /\ [PromoterNext]_promoterVars => PromoterInv'
  BY PromoterInvKept
<1> QED BY <1>1, PromoterInitInv, PTL DEF PromoterSpec

\* The evaluator's loop and compose_event_alert_light: a ticker is alerted
\* once a day, plus once per fault inside a pass and once for a midnight
\* inside a compose, for every stream of events and every batch.
THEOREM AlertsAreBounded == PromoterSpec => []AlertedOnceUnlessFault
<1>1. PromoterInv => AlertedOnceUnlessFault
  <2>1. ASSUME PromoterInv, mode # "gate" PROVE AlertedOnceUnlessFault
    BY <2>1, AddsOne DEF PromoterInv, NothingShown, PromoterType, AlertedOnceUnlessFault
  <2> QED BY <2>1 DEF PromoterInv, GateInv, Spares
<1> QED BY <1>1, PromoterInvHolds, PTL

\* alert_suppression rows: one in force stands for an action row of the same
\* local day or, without the gate, for a job, whatever crashed in between.
THEOREM SuppressionsHaveATrace == PromoterSpec => []SuppressedWasShown
<1>1. PromoterInv => SuppressedWasShown
  BY DEF PromoterInv, GateInv, Suppressions, SuppressedHasJob, SuppressedWasShown
<1> QED BY <1>1, PromoterInvHolds, PTL

\* QueueBackpressure.gate and QueueRateGuard.gate are read once per pass: the
\* queue exceeds either limit by less than one batch.
THEOREM GuardsOvershootByABatch == PromoterSpec => []GuardsOvershoot
<1>1. PromoterInv => GuardsOvershoot
  <2> SUFFICES ASSUME PromoterInv, mode = "legacy" PROVE GuardsOvershoot
    BY DEF GuardsOvershoot
  <2> QED BY DEF PromoterInv, GuardsHold, PassIsWithin, GuardsOvershoot
<1> QED BY <1>1, PromoterInvHolds, PTL
=============================================================================
