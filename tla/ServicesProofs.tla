--------------------------- MODULE ServicesProofs ---------------------------
(***************************************************************************)
(* Proofs about the components beside the pipeline, one after the other:   *)
(* the watchlist, the budget of the fallback model, and delivery.          *)
(***************************************************************************)
EXTENDS Watchlist, Availability, Delivery, SequenceTheorems, FiniteSetTheorems, TLAPS
-----------------------------------------------------------------------------
(***************************************************************************)
(* Proofs about Watchlist, for every set of tickers, lifetime and length   *)
(* of time.  Two facts carry the property across the reads of its writers: *)
(* an add that met no other write still sees the row it read, and a        *)
(* promotion under way on a curated ticker has read it as the user's.      *)
(***************************************************************************)
Rows == [there : BOOLEAN, until : Nat, user : BOOLEAN]
Adds == [pc : {"write"}, ticker : Watchable, seen : Rows, met : BOOLEAN]
Reading == [pc : {"read"}, ticker : Watchable, user : BOOLEAN]
Writing == [pc : {"write"}, ticker : Watchable, user : BOOLEAN, seen : Rows]

ListType ==
    /\ list \in [Watchable -> Rows] /\ now \in Nat
    /\ add \in {Rest} \cup Adds
    /\ promo \in {Rest} \cup Reading \cup Writing
    /\ curated \subseteq Watchable

SeenIsThere == add # Rest /\ ~add.met => add.seen.there = list[add.ticker].there
PromotedAsUser ==
    promo # Rest /\ promo.ticker \in curated \ torn => promo.user = TRUE

ListInv == ListType /\ SeenIsThere /\ PromotedAsUser /\ CuratedNeverExpires
-----------------------------------------------------------------------------
LEMMA NeverIsNat == Never \in Nat /\ \A n \in Nat : n + Ttl \in Nat
BY WatchlistAssumption DEF Never

LEMMA RestIsNone ==
    /\ \A a \in Adds : a # Rest
    /\ \A p \in Reading \cup Writing : p # Rest
BY DEF Adds, Reading, Writing, Rest

LEMMA ListedIsRow ==
    /\ Absent \in Rows
    /\ \A u \in Nat, b \in BOOLEAN :
          Listed(u, b) \in Rows /\ Listed(u, b).user = b /\ Listed(u, b).there = TRUE
BY DEF Listed, Rows, Absent

LEMMA ListInitInv == WatchlistInit => ListInv
BY ListedIsRow
   DEF WatchlistInit, ListInv, ListType, SeenIsThere, PromotedAsUser, CuratedNeverExpires

\* One row is written as it was read, or nothing is.
LEMMA UpsertRow ==
    ASSUME ListType, NEW t \in Watchable, NEW seen \in Rows, NEW until \in Nat,
           NEW user \in BOOLEAN, Upsert(t, seen, until, user)
    PROVE  /\ list' \in [Watchable -> Rows]
           /\ \A s \in Watchable : s # t => list'[s] = list[s]
           /\ list'[t] = IF seen.there = list[t].there
                         THEN Listed(until, user \/ seen.user) ELSE list[t]
<1>1. seen.user \in BOOLEAN /\ (user \/ seen.user) \in BOOLEAN
  BY DEF Rows
<1>2. Listed(until, user \/ seen.user) \in Rows
  BY <1>1, ListedIsRow
<1> QED BY <1>2 DEF Upsert, ListType

LEMMA PromoteKeeps ==
    ASSUME ListInv, NEW t \in Watchable, Promote(t) PROVE ListInv'
<1>1. promo' \in Reading /\ promo'.ticker = t /\ promo'.user = list[t].user
  BY DEF Promote, ListInv, ListType, Reading, Rows
<1>2. UNCHANGED <<list, now, add, curated, torn>>
  BY DEF Promote
<1>3. t \in curated \ torn => list[t].user = TRUE
  BY NeverIsNat, ListedIsRow DEF ListInv, CuratedNeverExpires
<1> QED BY <1>1, <1>2, <1>3
       DEF ListInv, ListType, SeenIsThere, PromotedAsUser, CuratedNeverExpires

LEMMA PromoteReadsKeeps ==
    ASSUME ListInv, PromoteReads PROVE ListInv'
<1>1. promo \in Reading /\ promo # Rest
  BY DEF PromoteReads, ListInv, ListType, Writing, Rest
<1>2. promo' \in Writing /\ promo'.ticker = promo.ticker /\ promo'.user = promo.user
  BY <1>1 DEF PromoteReads, ListInv, ListType, Reading, Writing
<1> QED BY <1>1, <1>2
       DEF PromoteReads, ListInv, ListType, SeenIsThere, PromotedAsUser, CuratedNeverExpires

LEMMA PromoteWritesKeeps ==
    ASSUME ListInv, PromoteWrites PROVE ListInv'
<1> DEFINE t == promo.ticker
           until == IF promo.user THEN Never ELSE now + Ttl
<1>1. promo \in Writing /\ promo # Rest
  BY DEF PromoteWrites, ListInv, ListType, Reading, Rest
<1>2. t \in Watchable /\ promo.user \in BOOLEAN /\ promo.seen \in Rows /\ until \in Nat
  BY <1>1, NeverIsNat DEF Writing, ListInv, ListType
<1>3. Upsert(t, promo.seen, until, promo.user)
  BY DEF PromoteWrites
<1>4. /\ list' \in [Watchable -> Rows]
      /\ \A s \in Watchable : s # t => list'[s] = list[s]
      /\ list'[t] = IF promo.seen.there = list[t].there
                    THEN Listed(until, promo.user \/ promo.seen.user) ELSE list[t]
  BY <1>2, <1>3, UpsertRow DEF ListInv
<1>5. /\ promo' = Rest /\ UNCHANGED <<now, curated>>
      /\ torn \subseteq torn'
      /\ add' = IF add # Rest /\ add.ticker = t THEN [add EXCEPT !.met = TRUE] ELSE add
  BY DEF PromoteWrites
<1>6. add' \in {Rest} \cup Adds
  BY <1>5 DEF ListInv, ListType, Adds
<1>7. SeenIsThere'
  <2>1. CASE add # Rest /\ add.ticker = t
    BY <1>5, <2>1 DEF ListInv, ListType, Adds, SeenIsThere
  <2>2. CASE add = Rest
    BY <1>5, <2>2 DEF SeenIsThere
  <2>3. CASE add # Rest /\ add.ticker # t
    <3>1. add' = add /\ add.ticker \in Watchable
      BY <1>5, <2>3 DEF ListInv, ListType, Adds
    <3> QED BY <1>4, <2>3, <3>1 DEF ListInv, SeenIsThere
  <2> QED BY <2>1, <2>2, <2>3
<1>8. CuratedNeverExpires'
  <2> SUFFICES ASSUME NEW s \in curated \ torn PROVE list'[s] = Listed(Never, TRUE)
    BY <1>5 DEF CuratedNeverExpires
  <2>1. s \in Watchable /\ list[s] = Listed(Never, TRUE)
    BY DEF ListInv, ListType, CuratedNeverExpires
  <2>2. CASE s = t
    <3>1. promo.user = TRUE
      BY <1>1, <2>2 DEF ListInv, PromotedAsUser
    <3>2. until = Never /\ (promo.user \/ promo.seen.user) = TRUE
      BY <3>1
    <3> QED BY <1>4, <2>1, <2>2, <3>2
  <2> QED BY <1>4, <2>1, <2>2
<1> QED BY <1>4, <1>5, <1>6, <1>7, <1>8 DEF ListInv, ListType, PromotedAsUser

LEMMA AddReadsKeeps ==
    ASSUME ListInv, NEW t \in Watchable, AddReads(t) PROVE ListInv'
<1>1. add' \in Adds /\ add'.ticker = t /\ add'.seen = list[t]
  BY DEF AddReads, ListInv, ListType, Adds
<1> QED BY <1>1
       DEF AddReads, ListInv, ListType, SeenIsThere, PromotedAsUser, CuratedNeverExpires

LEMMA AddWritesKeeps ==
    ASSUME ListInv, AddWrites PROVE ListInv'
<1> DEFINE t == add.ticker
<1>1. add # Rest /\ add \in Adds
  BY DEF AddWrites, ListInv, ListType
<1>2. t \in Watchable /\ add.seen \in Rows /\ add.met \in BOOLEAN /\ add.seen.user \in BOOLEAN
  BY <1>1 DEF Adds, Rows
<1>3. Upsert(t, add.seen, Never, TRUE)
  BY DEF AddWrites
<1>4. /\ list' \in [Watchable -> Rows]
      /\ \A s \in Watchable : s # t => list'[s] = list[s]
      /\ list'[t] = IF add.seen.there = list[t].there
                    THEN Listed(Never, TRUE) ELSE list[t]
  <2>1. (TRUE \/ add.seen.user) = TRUE
    BY <1>2
  <2>2. list' = IF add.seen.there = list[t].there
                THEN [list EXCEPT ![t] = Listed(Never, TRUE)] ELSE list
    BY <1>3, <2>1 DEF Upsert
  <2>3. Listed(Never, TRUE) \in Rows
    BY NeverIsNat, ListedIsRow
  <2>4. list \in [Watchable -> Rows]
    BY DEF ListInv, ListType
  <2> QED BY <1>2, <2>2, <2>3, <2>4
<1>5. /\ add' = Rest /\ curated' = curated \cup {t} /\ UNCHANGED <<now, promo>>
      /\ torn' = IF add.met \/ Promoting(t) THEN torn \cup {t} ELSE torn \ {t}
  BY DEF AddWrites
<1>6. t \notin torn' => ~add.met /\ ~Promoting(t) /\ list'[t] = Listed(Never, TRUE)
  BY <1>1, <1>4, <1>5 DEF ListInv, SeenIsThere
<1>7. CuratedNeverExpires'
  <2> SUFFICES ASSUME NEW s \in curated' \ torn' PROVE list'[s] = Listed(Never, TRUE)
    BY DEF CuratedNeverExpires
  <2>1. CASE s = t
    BY <1>6, <2>1
  <2>2. CASE s # t
    <3>1. s \in curated \ torn /\ s \in Watchable
      BY <1>5, <2>2 DEF ListInv, ListType
    <3> QED BY <1>4, <2>2, <3>1 DEF ListInv, CuratedNeverExpires
  <2> QED BY <2>1, <2>2
<1>8. PromotedAsUser'
  <2> SUFFICES ASSUME promo # Rest, promo.ticker \in curated' \ torn'
               PROVE  promo.user = TRUE
    BY <1>5 DEF PromotedAsUser
  <2>1. promo.ticker # t
    BY <1>6 DEF Promoting
  <2>2. promo.ticker \in curated \ torn
    BY <1>5, <2>1
  <2> QED BY <2>2 DEF ListInv, PromotedAsUser
<1>9. curated' \subseteq Watchable /\ SeenIsThere'
  BY <1>2, <1>5 DEF ListInv, ListType, SeenIsThere
<1> QED BY <1>4, <1>5, <1>7, <1>8, <1>9 DEF ListInv, ListType

\* A delete of tickers nobody curates.
LEMMA DeletedKeeps ==
    ASSUME ListInv, NEW T \in SUBSET Watchable, Deleted(T), UNCHANGED <<now, promo, torn>>,
           curated' \subseteq curated, T \cap (curated' \ torn) = {}
    PROVE  ListInv'
<1>1. list' = [t \in Watchable |-> IF t \in T THEN Absent ELSE list[t]]
      /\ add' = IF add # Rest /\ add.ticker \in T THEN [add EXCEPT !.met = TRUE] ELSE add
  BY DEF Deleted
<1>2. list' \in [Watchable -> Rows] /\ add' \in {Rest} \cup Adds
  BY <1>1, ListedIsRow DEF ListInv, ListType, Adds
<1>3. SeenIsThere'
  <2>1. CASE add # Rest /\ add.ticker \in T
    BY <1>1, <2>1 DEF ListInv, ListType, Adds, SeenIsThere
  <2>2. CASE add = Rest
    BY <1>1, <2>2 DEF SeenIsThere
  <2>3. CASE add # Rest /\ add.ticker \notin T
    <3>1. add' = add /\ add.ticker \in Watchable
      BY <1>1, <2>3 DEF ListInv, ListType, Adds
    <3> QED BY <1>1, <2>3, <3>1 DEF ListInv, SeenIsThere
  <2> QED BY <2>1, <2>2, <2>3
<1>4. CuratedNeverExpires'
  BY <1>1 DEF ListInv, ListType, CuratedNeverExpires
<1> QED BY <1>2, <1>3, <1>4 DEF ListInv, ListType, PromotedAsUser

LEMMA ListStepInv == ListInv /\ [WatchlistNext]_listVars => ListInv'
<1> SUFFICES ASSUME ListInv, [WatchlistNext]_listVars PROVE ListInv'
  OBVIOUS
<1>1. ASSUME NEW t \in Watchable, Promote(t) \/ AddReads(t) PROVE ListInv'
  BY <1>1, PromoteKeeps, AddReadsKeeps
<1>2. ASSUME NEW t \in Watchable, RemoveTicker(t) PROVE ListInv'
  <2>1. {t} \in SUBSET Watchable /\ curated' = curated \ {t} /\ UNCHANGED <<now, promo, torn>>
        /\ Deleted({t})
    BY <1>2 DEF RemoveTicker
  <2>2. curated' \subseteq curated /\ {t} \cap (curated' \ torn) = {}
    BY <2>1
  <2> QED BY <2>1, <2>2, DeletedKeeps
<1>3. CASE Sweep
  <2>1. Sweepable \in SUBSET Watchable /\ Deleted(Sweepable)
        /\ UNCHANGED <<now, promo, torn>> /\ curated' = curated
    BY <1>3 DEF Sweep, Sweepable
  <2>2. \A t \in curated \ torn : list[t].user = TRUE
    BY NeverIsNat, ListedIsRow DEF ListInv, CuratedNeverExpires
  <2>3. curated' \subseteq curated /\ Sweepable \cap (curated' \ torn) = {}
    BY <2>1, <2>2 DEF Sweepable
  <2> QED BY <2>1, <2>3, DeletedKeeps
<1>4. CASE PromoteReads \/ PromoteWrites \/ AddWrites
  BY <1>4, PromoteReadsKeeps, PromoteWritesKeeps, AddWritesKeeps
<1>5. CASE WatchTick \/ UNCHANGED listVars
  <2>1. now' \in Nat /\ UNCHANGED <<list, promo, add, curated, torn>>
    BY <1>5 DEF WatchTick, listVars, ListInv, ListType
  <2>2. ListType' /\ SeenIsThere'
    BY <2>1 DEF ListInv, ListType, SeenIsThere
  <2>3. PromotedAsUser' /\ CuratedNeverExpires'
    BY <2>1 DEF ListInv, PromotedAsUser, CuratedNeverExpires
  <2> QED BY <2>2, <2>3 DEF ListInv
<1> QED BY <1>1, <1>2, <1>3, <1>4, <1>5 DEF WatchlistNext

\* What the operator added never expires (watchlist_add, auto_promote,
\* sweep_expired), unless another write of the row came between a read and
\* its write.
THEOREM CuratedIsKept == WatchlistSpec => []CuratedNeverExpires
<1>1. WatchlistSpec => []ListInv
  BY ListInitInv, ListStepInv, PTL DEF WatchlistSpec
<1>2. ListInv => CuratedNeverExpires
  BY DEF ListInv
<1> QED BY <1>1, <1>2, PTL
-----------------------------------------------------------------------------
(***************************************************************************)
(* Proofs about Availability, for every number of threads, days, restarts  *)
(* and faults of the store: the daily budget of the fallback.  What was    *)
(* billed on a day is bounded by what the table says of it and by what the *)
(* process in memory says of it, each up to one budget per fault so far;   *)
(* what was not metered, by the calls past the check when the endpoint is  *)
(* swapped.                                                                *)
(***************************************************************************)
Steps == {"free", "resolve", "stick", "check", "invoke", "local", "budget", "paid", "api",
          "ok", "failed"}

BudgetType ==
    /\ today \in Day /\ table \in [Day -> Nat] /\ billed \in [Day -> Nat]
    /\ spent \in Nat /\ spentDay \in {0} \cup Day
    /\ storeFaults \in Nat /\ call \in [Calls -> Steps]

SwapType ==
    /\ llm \in {"local", "api"} /\ unmetered \in Nat /\ overtaken \in Nat /\ stops \in Nat
    /\ running \in BOOLEAN /\ engaged \in BOOLEAN

\* The calls past the check of used_fallback; one call less than there are
\* threads, for each process that was ended.
Passed == {c \in Calls : call[c] = "invoke"}
Others == Cardinality(Calls) - 1
Past(n) == Others * n

SwapInv ==
    /\ SwapType
    /\ engaged => llm = "api"
    /\ ~running => llm = "local"
    /\ \A c \in Calls : /\ call[c] = "stick" => llm = "api"
                        /\ ~running => call[c] = "free"
    /\ llm = "local" => unmetered <= Past(stops) + overtaken
    /\ llm = "api" => unmetered + Cardinality(Passed) <= Past(stops + 1) + overtaken

TableKnows == \A d \in Day : billed[d] <= table[d] + PerDay * storeFaults
MemoryKnows == spentDay \in Day => billed[spentDay] <= spent + PerDay * storeFaults

Metered == \A d \in Day : billed[d] <= PerDay * (1 + storeFaults)

BudgetInv == BudgetType /\ TableKnows /\ MemoryKnows /\ Metered
-----------------------------------------------------------------------------
LEMMA Distributes ==
    ASSUME NEW n \in Nat
    PROVE  /\ PerDay * n \in Nat
           /\ PerDay * (1 + n) = PerDay + PerDay * n
           /\ PerDay * (n + 1) = PerDay + PerDay * n
           /\ PerDay * (n + 2) = PerDay + PerDay + PerDay * n
BY AvailabilityAssumption

LEMMA FirstDay == 1 \in Day /\ 0 \notin Day /\ Day \subseteq Nat
BY AvailabilityAssumption DEF Day

LEMMA BudgetInitInv == AvailInit => BudgetInv
<1> SUFFICES ASSUME AvailInit PROVE BudgetInv
  OBVIOUS
<1>1. BudgetType
  BY FirstDay DEF AvailInit, BudgetType, Steps
<1>2. storeFaults = 0 /\ spentDay = 0 /\ \A d \in Day : billed[d] = 0 /\ table[d] = 0
  BY DEF AvailInit
<1>3. TableKnows /\ Metered
  BY <1>2, Distributes, AvailabilityAssumption DEF TableKnows, Metered
<1>4. MemoryKnows
  BY <1>2, FirstDay DEF MemoryKnows
<1> QED BY <1>1, <1>3, <1>4 DEF BudgetInv

\* The faults of one use of the budget, none, one or two.
LEMMA ConsumeKeeps ==
    ASSUME BudgetInv, NEW c \in Calls, TryConsume(c) PROVE BudgetInv'
<1>1. PICK readOk \in BOOLEAN, writeOk \in BOOLEAN :
         LET faulty == (IF readOk THEN 0 ELSE 1) + (IF writeOk THEN 0 ELSE 1)
             before == SpentToday(readOk)
         IN  /\ readOk \/ spentDay # today
             /\ writeOk \/ before < PerDay
             /\ storeFaults' = storeFaults + faulty
             /\ spentDay' = today
             /\ \/ /\ before >= PerDay /\ spent' = before
                   /\ call' = [call EXCEPT ![c] = "failed"]
                   /\ UNCHANGED <<table, billed>>
                \/ /\ before < PerDay /\ spent' = before + 1
                   /\ table' = IF writeOk THEN [table EXCEPT ![today] = @ + 1] ELSE table
                   /\ billed' = [billed EXCEPT ![today] = @ + 1]
                   /\ call' = [call EXCEPT ![c] = "paid"]
  BY DEF TryConsume
<1> DEFINE r == IF readOk THEN 0 ELSE 1
           w == IF writeOk THEN 0 ELSE 1
           before == SpentToday(readOk)
           d == today
<1>2. /\ today' = today /\ d \in Day /\ spent \in Nat /\ table[d] \in Nat /\ billed[d] \in Nat
      /\ storeFaults \in Nat /\ PerDay \in Nat /\ PerDay * storeFaults \in Nat
  BY Distributes, AvailabilityAssumption DEF TryConsume, worldVars, BudgetInv, BudgetType
<1>3. before \in Nat
  BY <1>2 DEF SpentToday
<1>4. /\ storeFaults' = storeFaults + r + w /\ storeFaults' \in Nat
      /\ PerDay * storeFaults' = PerDay * storeFaults + PerDay * r + PerDay * w
  <2>1. storeFaults' = storeFaults + (r + w) /\ r \in {0, 1} /\ w \in {0, 1}
    BY <1>1
  <2>2. PerDay * 0 = 0 /\ PerDay * 1 = PerDay
    BY <1>2
  <2> QED BY <1>2, <2>1, <2>2, Distributes
<1>5. billed[d] <= before + PerDay * storeFaults + PerDay * r
  <2>1. PerDay * 0 = 0 /\ PerDay * 1 = PerDay
    BY <1>2
  <2>2. CASE spentDay = today
    BY <1>2, <2>1, <2>2, <1>1 DEF SpentToday, BudgetInv, MemoryKnows
  <2>3. CASE spentDay # today /\ readOk
    BY <1>2, <2>1, <2>3 DEF SpentToday, BudgetInv, TableKnows
  <2>4. CASE spentDay # today /\ ~readOk
    <3>1. before = 0 /\ r = 1
      BY <2>4 DEF SpentToday
    <3>2. billed[d] <= PerDay + PerDay * storeFaults
      BY <1>2, Distributes DEF BudgetInv, Metered
    <3> QED BY <1>2, <2>1, <3>1, <3>2
  <2> QED BY <2>2, <2>3, <2>4
<1>6. PerDay * r \in Nat /\ PerDay * w \in Nat /\ (w = 1 => PerDay * w >= 1)
  <2>1. PerDay * 0 = 0 /\ PerDay * 1 = PerDay
    BY <1>2
  <2>2. w = 1 => PerDay >= 1
    BY <1>1, <1>2, <1>3
  <2> QED BY <1>2, <2>1, <2>2
<1>7. PerDay * (1 + storeFaults') = PerDay + PerDay * storeFaults'
  BY <1>4, Distributes
<1>8. CASE before >= PerDay /\ spent' = before /\ call' = [call EXCEPT ![c] = "failed"]
           /\ UNCHANGED <<table, billed>>
  <2>1. BudgetType'
    BY <1>1, <1>2, <1>3, <1>4, <1>8 DEF BudgetInv, BudgetType, Steps
  <2>2. TableKnows'
    BY <1>2, <1>4, <1>6, <1>8 DEF BudgetInv, BudgetType, TableKnows
  <2>3. MemoryKnows'
    BY <1>1, <1>2, <1>3, <1>4, <1>5, <1>6, <1>8 DEF MemoryKnows
  <2>4. Metered'
    <3>1. \A e \in Day : billed[e] <= PerDay + PerDay * storeFaults
      BY <1>2, Distributes DEF BudgetInv, Metered
    <3> QED BY <1>2, <1>4, <1>6, <1>7, <1>8, <3>1 DEF BudgetInv, BudgetType, Metered
  <2> QED BY <2>1, <2>2, <2>3, <2>4 DEF BudgetInv
<1>9. CASE /\ before < PerDay /\ spent' = before + 1
           /\ table' = IF writeOk THEN [table EXCEPT ![today] = @ + 1] ELSE table
           /\ billed' = [billed EXCEPT ![today] = @ + 1]
           /\ call' = [call EXCEPT ![c] = "paid"]
  <2>1. BudgetType'
    BY <1>1, <1>2, <1>3, <1>4, <1>9 DEF BudgetInv, BudgetType, Steps
  <2>2. billed'[d] = billed[d] + 1 /\ \A e \in Day : e # d => billed'[e] = billed[e]
    BY <1>2, <1>9 DEF BudgetInv, BudgetType
  <2>3. table'[d] + PerDay * w >= table[d] + 1 /\ \A e \in Day : e # d => table'[e] = table[e]
    BY <1>2, <1>6, <1>9 DEF BudgetInv, BudgetType
  <2>4. TableKnows'
    <3>1. billed'[d] <= table'[d] + PerDay * storeFaults'
      <4>1. billed[d] <= table[d] + PerDay * storeFaults /\ table'[d] \in Nat
        BY <1>2, <2>1 DEF BudgetInv, TableKnows, BudgetType
      <4> QED BY <1>2, <1>4, <1>6, <2>2, <2>3, <4>1
    <3>2. \A e \in Day : e # d => billed'[e] <= table'[e] + PerDay * storeFaults'
      BY <1>2, <1>4, <1>6, <2>2, <2>3 DEF BudgetInv, TableKnows, BudgetType
    <3> QED BY <3>1, <3>2 DEF TableKnows
  <2>5. MemoryKnows'
    BY <1>1, <1>2, <1>3, <1>4, <1>5, <1>6, <1>9, <2>2 DEF MemoryKnows
  <2>6. Metered'
    <3>1. \A e \in Day : billed[e] <= PerDay + PerDay * storeFaults
      BY <1>2, Distributes DEF BudgetInv, Metered
    <3>2. billed'[d] <= PerDay + PerDay * storeFaults'
      BY <1>2, <1>3, <1>4, <1>5, <1>6, <1>9, <2>2
    <3>3. \A e \in Day : e # d => billed'[e] <= PerDay + PerDay * storeFaults'
      BY <1>2, <1>4, <1>6, <2>2, <3>1 DEF BudgetInv, BudgetType
    <3> QED BY <1>7, <3>2, <3>3 DEF Metered
  <2> QED BY <2>1, <2>4, <2>5, <2>6 DEF BudgetInv
<1> QED BY <1>1, <1>8, <1>9

LEMMA BudgetStepInv == BudgetInv /\ SwapType /\ [AvailNext]_availVars => BudgetInv'
<1> SUFFICES ASSUME BudgetInv, SwapType, [AvailNext]_availVars PROVE BudgetInv'
  OBVIOUS
<1> USE DEF BudgetInv, BudgetType, TableKnows, MemoryKnows, Metered
<1>1. ASSUME NEW c \in Calls, TryConsume(c) PROVE BudgetInv'
  BY <1>1, ConsumeKeeps
<1>2. ASSUME NEW c \in Calls,
             \/ CheckThreshold(c) \/ ResolveGlobal(c) \/ Stick(c) \/ CheckSticky(c)
             \/ Answered(c) \/ RecordFailure(c) \/ RecordSuccess(c)
      PROVE  BudgetInv'
  <2>1. UNCHANGED <<today, budgetVars>>
    BY <1>2 DEF CheckThreshold, ResolveGlobal, Stick, CheckSticky, Answered, RecordFailure,
                RecordSuccess, worldVars
  <2>2. call' \in [Calls -> Steps]
    BY <1>2 DEF CheckThreshold, ResolveGlobal, Stick, CheckSticky, Answered, RecordFailure,
                RecordSuccess, Steps
  <2> QED BY <2>1, <2>2 DEF budgetVars
<1>6. ASSUME NEW c \in Calls, Invoke(c), SwapType PROVE BudgetInv'
  <2>1. UNCHANGED <<today, budgetVars>> /\ call' = [call EXCEPT ![c] = llm]
    BY <1>6 DEF Invoke, worldVars
  <2>2. call' \in [Calls -> Steps]
    BY <1>6, <2>1 DEF SwapType, Steps
  <2> QED BY <2>1, <2>2 DEF budgetVars
<1>3. CASE StopDaemon \/ Retry
  BY <1>3, FirstDay DEF StopDaemon, Retry, Fresh, Steps
<1>4. CASE EndpointFlips \/ UNCHANGED availVars
  BY <1>4 DEF EndpointFlips, availVars, worldVars, budgetVars
<1>5. CASE NewUtcDay
  <2>1. today' \in Day /\ UNCHANGED <<budgetVars, call>>
    BY <1>5, AvailabilityAssumption DEF NewUtcDay, Day
  <2> QED BY <2>1 DEF budgetVars
<1> QED BY <1>1, <1>2, <1>3, <1>4, <1>5, <1>6 DEF AvailNext, ScoringCall

(* The calls of the API that burn no budget. *)

LEMMA PastGrows ==
    /\ Others \in Nat /\ IsFiniteSet(Calls) /\ Cardinality(Calls) = Others + 1
    /\ Past(0) = 0
    /\ \A n \in Nat : Past(n) \in Nat /\ Past(n + 1) = Past(n) + Others /\ Past(1 + n) = Past(n + 1)
<1>1. /\ IsFiniteSet(Calls) /\ Cardinality(Calls) \in Nat /\ Cardinality(Calls) # 0
  BY AvailabilityAssumption, FS_EmptySet, FS_CardinalityType
<1>2. Others \in Nat /\ Cardinality(Calls) = Others + 1
  BY <1>1 DEF Others
<1>3. ASSUME NEW k \in Nat, NEW n \in Nat PROVE k * n \in Nat /\ k * (n + 1) = k * n + k /\ k * 0 = 0
  OBVIOUS
<1> QED BY <1>1, <1>2, <1>3 DEF Past

LEMMA PassedAreFew ==
    /\ IsFiniteSet(Passed) /\ Cardinality(Passed) \in Nat
    /\ \A c \in Calls : call[c] # "invoke" => Cardinality(Passed) <= Others
<1>1. Passed \in SUBSET Calls
  BY DEF Passed
<1>2. IsFiniteSet(Passed) /\ Cardinality(Passed) \in Nat
  BY <1>1, PastGrows, FS_Subset, FS_CardinalityType
<1>3. ASSUME NEW c \in Calls, call[c] # "invoke" PROVE Cardinality(Passed) <= Others
  <2>1. Passed \in SUBSET (Calls \ {c})
    BY <1>3 DEF Passed
  <2>2. IsFiniteSet(Calls \ {c}) /\ Cardinality(Calls \ {c}) = Cardinality(Calls) - 1
    BY PastGrows, FS_RemoveElement
  <2>3. Cardinality(Passed) <= Cardinality(Calls \ {c})
    BY <2>1, <2>2, FS_Subset
  <2> QED BY <1>2, <2>2, <2>3, PastGrows
<1> QED BY <1>2, <1>3

LEMMA PassedStay ==
    ASSUME call \in [Calls -> Steps], NEW c \in Calls, NEW x, call[c] # "invoke", x # "invoke",
           call' = [call EXCEPT ![c] = x]
    PROVE  Passed' = Passed
BY DEF Passed

LEMMA SwapInitInv == AvailInit => SwapInv
<1> SUFFICES ASSUME AvailInit PROVE SwapInv
  OBVIOUS
<1>1. /\ unmetered = 0 /\ overtaken = 0 /\ stops = 0 /\ llm \in {"local", "api"}
      /\ running \in BOOLEAN /\ engaged \in BOOLEAN
      /\ (engaged => llm = "api") /\ (~running => llm = "local")
      /\ \A c \in Calls : call[c] = "free"
  BY DEF AvailInit
<1>2. Passed = {}
  BY <1>1 DEF Passed
<1>3. Cardinality(Passed) = 0 /\ Past(0) = 0 /\ Past(0 + 1) \in Nat
  BY <1>2, FS_EmptySet, PastGrows
<1> QED BY <1>1, <1>3 DEF SwapInv, SwapType

LEMMA SwapStepInv == BudgetInv /\ SwapInv /\ [AvailNext]_availVars => SwapInv'
<1> SUFFICES ASSUME BudgetInv, SwapInv, [AvailNext]_availVars PROVE SwapInv'
  OBVIOUS
<1> DEFINE n == Cardinality(Passed)
<1>0. /\ SwapType /\ call \in [Calls -> Steps] /\ n \in Nat /\ Others \in Nat
      /\ Past(stops) \in Nat /\ Past(stops + 1) \in Nat /\ Past(stops + 1) = Past(stops) + Others
  BY PastGrows, PassedAreFew DEF SwapInv, SwapType, BudgetInv, BudgetType
<1>1. ASSUME NEW c \in Calls,
             CheckThreshold(c) \/ TryConsume(c) \/ Answered(c) \/ RecordFailure(c) \/ RecordSuccess(c)
      PROVE  SwapInv'
  <2>1. /\ UNCHANGED <<llm, unmetered, overtaken, stops, running, engaged>>
        /\ call[c] # "invoke" /\ (running \/ call[c] # "free")
        /\ \E x \in Steps \ {"invoke", "stick"} : call' = [call EXCEPT ![c] = x]
    BY <1>1 DEF CheckThreshold, TryConsume, Answered, RecordFailure, RecordSuccess, worldVars,
                stateVars, passVars, Steps
  <2>2. Passed' = Passed
    BY <1>0, <2>1, PassedStay
  <2>3. running
    BY <2>1 DEF SwapInv
  <2>4. Past(stops)' = Past(stops) /\ Past(stops + 1)' = Past(stops + 1)
    BY <2>1 DEF Past, Others
  <2>5. \A d \in Calls : call'[d] = "stick" => llm = "api"
    BY <1>0, <2>1 DEF SwapInv
  <2> QED BY <1>0, <2>1, <2>2, <2>3, <2>4, <2>5 DEF SwapInv, SwapType
<1>2. ASSUME NEW c \in Calls, ResolveGlobal(c) PROVE SwapInv'
  <2>1. /\ UNCHANGED <<unmetered, overtaken, stops, running, engaged>> /\ call[c] = "resolve"
        /\ \/ llm' = "api" /\ call' = [call EXCEPT ![c] = "stick"]
           \/ llm' = llm /\ call' = [call EXCEPT ![c] = "failed"]
    BY <1>2 DEF ResolveGlobal, worldVars, passVars
  <2>2. Passed' = Passed /\ n <= Others
    BY <1>0, <2>1, PassedStay, PassedAreFew
  <2>3. running
    BY <2>1 DEF SwapInv
  <2>4. Past(stops)' = Past(stops) /\ Past(stops + 1)' = Past(stops + 1)
    BY <2>1 DEF Past, Others
  <2>5. \A d \in Calls : call'[d] = "stick" => llm' = "api"
    BY <1>0, <2>1 DEF SwapInv
  <2>6. llm' = "api" => unmetered' + n <= Past(stops + 1) + overtaken
    BY <1>0, <2>1, <2>2 DEF SwapInv, SwapType
  <2> QED BY <1>0, <2>1, <2>2, <2>3, <2>4, <2>5, <2>6 DEF SwapInv, SwapType
<1>3. ASSUME NEW c \in Calls, Stick(c) PROVE SwapInv'
  <2>1. /\ UNCHANGED <<llm, unmetered, overtaken, stops, running>> /\ call[c] = "stick"
        /\ engaged' = TRUE /\ call' = [call EXCEPT ![c] = "check"]
    BY <1>3 DEF Stick, worldVars, passVars
  <2>2. Passed' = Passed
    BY <1>0, <2>1, PassedStay
  <2>3. running /\ llm = "api"
    BY <2>1 DEF SwapInv
  <2>4. Past(stops)' = Past(stops) /\ Past(stops + 1)' = Past(stops + 1)
    BY <2>1 DEF Past, Others
  <2>5. \A d \in Calls : call'[d] = "stick" => llm' = "api"
    BY <2>1, <2>3
  <2> QED BY <1>0, <2>1, <2>2, <2>3, <2>4, <2>5 DEF SwapInv, SwapType
<1>4. ASSUME NEW c \in Calls, CheckSticky(c) PROVE SwapInv'
  <2>1. /\ UNCHANGED <<llm, unmetered, stops, running, engaged>> /\ call[c] = "check"
        /\ call' = [call EXCEPT ![c] = IF engaged THEN "budget" ELSE "invoke"]
        /\ overtaken' = IF ~engaged /\ llm = "api" THEN overtaken + 1 ELSE overtaken
    BY <1>4 DEF CheckSticky, worldVars, stateVars
  <2>2. running
    BY <2>1 DEF SwapInv
  <2>3. Past(stops)' = Past(stops) /\ Past(stops + 1)' = Past(stops + 1)
    BY <2>1 DEF Past, Others
  <2>4. \A d \in Calls : call'[d] = "stick" => llm' = "api"
    BY <1>0, <2>1 DEF SwapInv
  <2>5. overtaken' \in Nat /\ overtaken <= overtaken'
    BY <1>0, <2>1 DEF SwapType
  <2>6. llm = "api" => unmetered + Cardinality(Passed)' <= Past(stops + 1) + overtaken'
    <3>1. CASE engaged
      <4>1. Passed' = Passed
        BY <1>0, <2>1, <3>1, PassedStay
      <4> QED BY <1>0, <2>1, <3>1, <4>1 DEF SwapInv, SwapType
    <3>2. CASE ~engaged /\ llm = "api"
      <4>1. Passed' = Passed \cup {c} /\ c \notin Passed
        BY <1>0, <2>1, <3>2 DEF Passed
      <4>2. Cardinality(Passed)' = n + 1
        BY <4>1, PassedAreFew, FS_AddElement
      <4> QED BY <1>0, <2>1, <3>2, <4>2 DEF SwapInv, SwapType
    <3> QED BY <3>1, <3>2
  <2> QED BY <1>0, <2>1, <2>2, <2>3, <2>4, <2>5, <2>6 DEF SwapInv, SwapType
<1>5. ASSUME NEW c \in Calls, Invoke(c) PROVE SwapInv'
  <2>1. /\ UNCHANGED <<llm, overtaken, stops, running, engaged>> /\ call[c] \in {"invoke", "paid"}
        /\ call' = [call EXCEPT ![c] = llm]
        /\ unmetered' = IF call[c] = "invoke" /\ llm = "api" THEN unmetered + 1 ELSE unmetered
    BY <1>5 DEF Invoke, worldVars, stateVars
  <2>2. running
    BY <2>1 DEF SwapInv
  <2>3. Past(stops)' = Past(stops) /\ Past(stops + 1)' = Past(stops + 1)
    BY <2>1 DEF Past, Others
  <2>4. \A d \in Calls : call'[d] = "stick" => llm' = "api"
    BY <1>0, <2>1 DEF SwapInv, SwapType
  <2>5. unmetered' \in Nat /\ (llm = "local" => unmetered' = unmetered)
    BY <1>0, <2>1 DEF SwapType
  <2>6. llm = "api" => unmetered' + Cardinality(Passed)' <= Past(stops + 1) + overtaken
    <3>1. CASE call[c] = "paid"
      <4>1. Passed' = Passed
        BY <1>0, <2>1, <3>1, PassedStay DEF SwapType
      <4> QED BY <1>0, <2>1, <3>1, <4>1 DEF SwapInv, SwapType
    <3>2. CASE call[c] = "invoke" /\ llm = "api"
      <4>1. Passed' = Passed \ {c} /\ c \in Passed
        BY <1>0, <2>1, <3>2 DEF Passed
      <4>2. Cardinality(Passed)' = n - 1
        BY <4>1, PassedAreFew, FS_RemoveElement
      <4> QED BY <1>0, <2>1, <3>2, <4>2 DEF SwapInv, SwapType
    <3> QED BY <2>1, <3>1, <3>2
  <2> QED BY <1>0, <2>1, <2>2, <2>3, <2>4, <2>5, <2>6 DEF SwapInv, SwapType
<1>6. ASSUME Fresh, Started, UNCHANGED passVars, stops' = stops + 1 \/ (stops' = stops /\ ~running)
      PROVE  SwapInv'
  <2>1. /\ llm' \in {"local", "api"} /\ running' \in BOOLEAN /\ engaged' \in BOOLEAN
        /\ (engaged' => llm' = "api") /\ (~running' => llm' = "local")
        /\ \A c \in Calls : call'[c] = "free"
        /\ UNCHANGED <<unmetered, overtaken>>
    BY <1>6 DEF Fresh, Started, passVars, SwapInv, SwapType
  <2>2. Cardinality(Passed)' = 0
    <3>1. Passed' = {}
      BY <2>1 DEF Passed
    <3> QED BY <3>1, FS_EmptySet
  <2>3. stops' \in Nat /\ unmetered <= Past(stops') + overtaken
    <3>1. CASE stops' = stops + 1
      BY <1>0, <3>1 DEF SwapInv, SwapType
    <3>2. CASE stops' = stops /\ ~running
      BY <1>0, <3>2 DEF SwapInv, SwapType
    <3> QED BY <1>6, <3>1, <3>2
  <2>4. Past(stops') \in Nat /\ Past(stops' + 1) = Past(stops') + Others
    BY <2>3, PastGrows
  <2>5. Past(stops)' = Past(stops') /\ Past(stops + 1)' = Past(stops' + 1)
    BY DEF Past, Others
  <2> QED BY <1>0, <2>1, <2>2, <2>3, <2>4, <2>5 DEF SwapInv, SwapType
<1>7. CASE StopDaemon \/ Retry
  BY <1>6, <1>7 DEF StopDaemon, Retry
<1>8. CASE EndpointFlips \/ NewUtcDay \/ UNCHANGED availVars
  <2>1. UNCHANGED <<llm, unmetered, overtaken, stops, running, engaged, call>>
    BY <1>8 DEF EndpointFlips, NewUtcDay, availVars, worldVars, stateVars, passVars
  <2> QED BY <2>1 DEF SwapInv, SwapType, Passed, Past, Others
<1> QED BY <1>1, <1>2, <1>3, <1>4, <1>5, <1>7, <1>8 DEF AvailNext, ScoringCall

\* The budget of a day is hard (DailyFallbackBudget.try_consume): threads,
\* midnights and restarts do not stretch it, each failing read or write of the
\* store by at most one budget; and the calls that slip past it are those that
\* other threads had under way when call_llm swapped the endpoint, or between
\* its two assignments.
THEOREM FallbackIsBounded == AvailSpec => []FallbackWithinBudget
<1>1. AvailInit => BudgetInv /\ SwapInv
  BY BudgetInitInv, SwapInitInv
<1>2. BudgetInv /\ SwapInv /\ [AvailNext]_availVars => (BudgetInv /\ SwapInv)'
  BY BudgetStepInv, SwapStepInv DEF SwapInv
<1>3. BudgetInv /\ SwapInv => FallbackWithinBudget
  <2> SUFFICES ASSUME BudgetInv, SwapInv PROVE FallbackWithinBudget
    OBVIOUS
  <2>1. /\ Past(stops + 1) = Past(stops) + Others /\ Others \in Nat
        /\ Past(stops) \in Nat /\ Past(stops + 1) \in Nat /\ Cardinality(Passed) \in Nat
        /\ Past(1 + stops) = Past(stops + 1)
    BY PastGrows, PassedAreFew DEF SwapInv, SwapType
  <2>2. unmetered <= Past(1 + stops) + overtaken
    BY <2>1 DEF SwapInv, SwapType
  <2> QED BY <2>2 DEF FallbackWithinBudget, BudgetInv, Metered, Past, Others
<1> QED BY <1>1, <1>2, <1>3, PTL DEF AvailSpec
-----------------------------------------------------------------------------
(***************************************************************************)
(* Proofs about Delivery, for every number of channels, briefs, answers    *)
(* and crashes.  The invariant follows the one brief at work through its   *)
(* channels (what is recorded of the channels behind it, the one in turn   *)
(* and those ahead), counts the offers of every brief against its answers, *)
(* and bounds every chain by the depth that was written plus what crashes  *)
(* may have hidden.                                                        *)
(***************************************************************************)
Briefs == [mode : AllModes, depth : Nat, chain : Nat]
OfferStates == {"pending", "accepted", "declined", "expired"}
SendStates == {"sent", "failed", "skipped"}
Delivering == {"gate", "send", "row", "count", "offer"}
Works == [step : {"depth"} \cup Delivering, brief : Nat, n : Nat, depth : Nat]

DeliveryType ==
    /\ briefs \in Seq(Briefs) /\ Len(briefs) <= MaxBriefs
    /\ sends \in [BriefIds \X ChannelSet -> Seq(SendStates)]
    /\ offers \in [BriefIds -> Seq(OfferStates)]
    /\ replies \in [BriefIds -> Nat] /\ answers \in [BriefIds -> Nat]
    /\ work \in {AtRest} \cup Works
    /\ click \in {Unpressed} \cup [brief : BriefIds, row : Nat]
    /\ whole \subseteq DOMAIN briefs /\ early \subseteq DOMAIN briefs
    /\ mishaps \in Nat

\* The process works on the newest brief, which it has not finished.
WorksOnNewest ==
    work # AtRest =>
        /\ work.brief = Len(briefs) /\ work.brief # 0
        /\ work.brief \notin whole
        /\ work.step = "depth" => briefs[work.brief].mode = "refined"
        /\ work.step \in Delivering => work.n \in DOMAIN Route

(***************************************************************************)
(* The chains of refinements.                                              *)
(***************************************************************************)
\* The depth a brief has, or gets when its composition goes on.
DueDepth(b) == IF work.step = "depth" /\ work.brief = b
               THEN work.depth ELSE briefs[b].depth

\* What the mishaps so far may have hidden of the depths.
Hidden == MaxDepth * mishaps

ChainsBounded ==
    \A b \in DOMAIN briefs : /\ briefs[b].depth <= MaxDepth /\ DueDepth(b) <= MaxDepth
                             /\ briefs[b].chain <= DueDepth(b) + Hidden

(***************************************************************************)
(* The rows of a channel.                                                  *)
(***************************************************************************)
Recorded(b, ch) ==
    /\ Len(sends[<<b, ch>>]) \in 1..2
    /\ Len(sends[<<b, ch>>]) = 2 => sends[<<b, ch>>] = <<"sent", "failed">>
    /\ "sent" \in Statuses(b, ch) => <<b, ch>> \in shown
    /\ <<b, ch>> \in shown => Statuses(b, ch) \cap {"sent", "failed"} # {}

Untouched(b, ch) == sends[<<b, ch>>] = <<>> /\ <<b, ch>> \notin shown

\* The channel in hand, by the step that comes next.
HandledSoFar(b, ch) ==
    /\ sends[<<b, ch>>] = IF work.step \in {"count", "offer"} THEN <<"sent">> ELSE <<>>
    /\ <<b, ch>> \in shown <=> work.step \in {"row", "count", "offer"}

WholeIsRecorded ==
    \A b \in whole, ch \in ChannelSet : Due(b, ch) => Recorded(b, ch)

NewIsUntouched == \A b \in BriefIds \ DOMAIN briefs, ch \in ChannelSet : Untouched(b, ch)

\* Route done with, the one in hand, and those still to come.
ChannelsByTurn ==
    work.step \in Delivering =>
        \A n \in DOMAIN Route :
            /\ n < work.n => Recorded(work.brief, Route[n])
            /\ n = work.n => HandledSoFar(work.brief, Route[n])
            /\ n > work.n => Untouched(work.brief, Route[n])

ChannelsInOrder == WholeIsRecorded /\ NewIsUntouched /\ ChannelsByTurn

(***************************************************************************)
(* The offers.                                                             *)
(***************************************************************************)
OneWaits(b) == \A i, j \in PendingOffers(b) : i = j

\* A channel has its 'sent' row and nothing failed after it.
ReachedBy(b, ch) == sends[<<b, ch>>] = <<"sent">>

NewBriefsAreBare ==
    \A b \in BriefIds \ DOMAIN briefs : offers[b] = <<>> /\ replies[b] = 0 /\ answers[b] = 0

OffersWithinAnswers ==
    \A b \in DOMAIN briefs \ early : OneWaits(b) /\ Len(offers[b]) <= 1 + answers[b]

\* Nobody was faster than the channels.
UnansweredAtWork ==
    work.step \in Delivering /\ work.brief \notin early =>
        /\ replies[work.brief] = 0 /\ answers[work.brief] = 0
        /\ work.step = "offer" => offers[work.brief] = <<>>

\* Who was reached has an offer, as soon as the channel is done with.
ReachedHasOffer ==
    /\ work.step \in {"count", "offer"} => Mode = "event_alert"
    /\ work.step \in Delivering /\ work.brief \notin early /\ Mode = "event_alert" =>
           \A n \in DOMAIN Route :
               n < work.n /\ ReachedBy(work.brief, Route[n]) => offers[work.brief] # <<>>
    /\ \A b \in whole \ early, ch \in ChannelSet :
           briefs[b].mode = "event_alert" /\ ReachedBy(b, ch) => offers[b] # <<>>

OffersCounted == NewBriefsAreBare /\ OffersWithinAnswers /\ UnansweredAtWork /\ ReachedHasOffer

DeliveryInv ==
    DeliveryType /\ WorksOnNewest /\ ChainsBounded /\ ChannelsInOrder /\ OffersCounted
-----------------------------------------------------------------------------
LEMMA RoutesAreApart ==
    \A mode :
        /\ Len(ChannelsFor(mode)) \in Nat \ {0}
        /\ DOMAIN ChannelsFor(mode) = 1..Len(ChannelsFor(mode))
        /\ \A n \in DOMAIN ChannelsFor(mode) : ChannelsFor(mode)[n] \in ChannelSet
        /\ \A m, n \in DOMAIN ChannelsFor(mode) :
              ChannelsFor(mode)[m] = ChannelsFor(mode)[n] => m = n
BY DeliveryAssumption DEF ChannelSet, ChannelsFor

\* The channels of the brief at work.
LEMMA ChannelsAreApart ==
    /\ Len(Route) \in Nat \ {0} /\ DOMAIN Route = 1..Len(Route)
    /\ \A n \in DOMAIN Route : Route[n] \in ChannelSet
    /\ \A m, n \in DOMAIN Route : Route[m] = Route[n] => m = n
    /\ \A ch : Due(work.brief, ch) => \E n \in DOMAIN Route : ch = Route[n]
BY RoutesAreApart DEF Route, Due, GoesTo, Mode

\* The channels of a brief stay what they are.
LEMMA RouteStays ==
    ASSUME NEW b, briefs'[b].mode = briefs[b].mode
    PROVE  /\ \A ch : Due(b, ch)' <=> Due(b, ch)
           /\ work.brief = b /\ work'.brief = b => Route' = Route /\ Mode' = Mode
BY DEF Due, Route, Mode

LEMMA AppendToBriefs ==
    ASSUME DeliveryType, NEW brief \in Briefs, briefs' = Append(briefs, brief)
    PROVE  /\ briefs' \in Seq(Briefs) /\ Len(briefs') = Len(briefs) + 1
           /\ DOMAIN briefs' = DOMAIN briefs \cup {Len(briefs) + 1}
           /\ \A b \in DOMAIN briefs : briefs'[b] = briefs[b]
           /\ briefs'[Len(briefs) + 1] = brief /\ Len(briefs) + 1 \notin DOMAIN briefs
BY DEF DeliveryType

LEMMA BriefsAreNumbered ==
    DeliveryType => /\ DOMAIN briefs = 1..Len(briefs) /\ Len(briefs) \in Nat
                    /\ DOMAIN briefs \subseteq BriefIds
                    /\ \A b \in DOMAIN briefs : briefs[b] \in Briefs
BY DeliveryAssumption DEF DeliveryType, BriefIds

\* Where the process is when it delivers.
LEMMA AtWork ==
    ASSUME DeliveryType, WorksOnNewest, work # AtRest
    PROVE  /\ work \in Works /\ work.step # "rest"
           /\ work.brief \in DOMAIN briefs /\ work.brief \in BriefIds
           /\ work.brief \notin whole
           /\ work.step \in Delivering =>
                /\ work.n \in DOMAIN Route /\ Channel \in ChannelSet
                /\ Here \in BriefIds \X ChannelSet
<1>1. work \in Works /\ work.step # "rest"
  BY DEF DeliveryType, Works, Delivering
<1>2. work.brief \in DOMAIN briefs /\ work.brief \in BriefIds /\ work.brief \notin whole
  BY BriefsAreNumbered DEF WorksOnNewest
<1>3. work.step \in Delivering => work.n \in DOMAIN Route /\ Channel \in ChannelSet
  BY ChannelsAreApart DEF WorksOnNewest, Channel
<1> QED BY <1>1, <1>2, <1>3 DEF Here

LEMMA DeliveryInitInv == DeliveryInit => DeliveryInv
<1> SUFFICES ASSUME DeliveryInit PROVE DeliveryInv
  OBVIOUS
<1>1. work = AtRest /\ work.step = "rest" /\ Len(briefs) = 0 /\ DOMAIN briefs = {}
  BY DEF DeliveryInit, AtRest
<1>2. DeliveryType
  BY <1>1, DeliveryAssumption DEF DeliveryInit, DeliveryType
<1>3. WorksOnNewest /\ ChainsBounded /\ ChannelsInOrder
  BY <1>1 DEF DeliveryInit, WorksOnNewest, ChainsBounded, ChannelsInOrder, WholeIsRecorded,
              NewIsUntouched, ChannelsByTurn, Untouched, Delivering
<1>4. OffersCounted
  BY <1>1 DEF DeliveryInit, OffersCounted, NewBriefsAreBare, OffersWithinAnswers,
              UnansweredAtWork, ReachedHasOffer, Delivering
<1> QED BY <1>2, <1>3, <1>4 DEF DeliveryInv
-----------------------------------------------------------------------------
(* Types, and what the process works on. *)

LEMMA NextChannelType ==
    ASSUME DeliveryType, WorksOnNewest, NextChannel, work.step \in Delivering
    PROVE  /\ work' \in {AtRest} \cup Works /\ whole' \subseteq DOMAIN briefs
           /\ work' # AtRest => /\ work'.brief = work.brief /\ work'.brief \notin whole'
                               /\ work'.step = "gate" /\ work'.n = work.n + 1
                               /\ work'.n \in DOMAIN Route /\ whole' = whole
           /\ work' = AtRest => whole' = whole \cup {work.brief} /\ work.n = Len(Route)
<1>1. work # AtRest
  BY DEF AtRest, Delivering
<1>2. /\ work \in Works /\ work.brief \in DOMAIN briefs /\ work.brief \notin whole
      /\ work.n \in 1..Len(Route)
  BY <1>1, AtWork, ChannelsAreApart
<1>3. CASE work.n < Len(Route)
  <2>1. work' = [work EXCEPT !.n = @ + 1, !.step = "gate"] /\ whole' = whole
    BY <1>3 DEF NextChannel
  <2>2. /\ work' \in Works /\ work'.brief = work.brief /\ work'.step = "gate"
        /\ work'.n = work.n + 1
    <3>1. work' = [step |-> "gate", brief |-> work.brief, n |-> work.n + 1, depth |-> work.depth]
      BY <1>2, <2>1 DEF Works
    <3>2. work.n + 1 \in Nat
      BY <1>2, ChannelsAreApart
    <3>3. work.brief \in Nat /\ work.depth \in Nat
      BY <1>2 DEF Works
    <3> QED BY <3>1, <3>2, <3>3 DEF Works, Delivering
  <2>3. work'.n \in DOMAIN Route /\ work' # AtRest
    BY <1>2, <1>3, <2>2, ChannelsAreApart DEF AtRest
  <2> QED BY <1>2, <2>1, <2>2, <2>3 DEF DeliveryType
<1>4. CASE ~(work.n < Len(Route))
  BY <1>2, <1>4, ChannelsAreApart DEF NextChannel, DeliveryType
<1> QED BY <1>3, <1>4

LEMMA InsertDeliveryType ==
    ASSUME DeliveryType, WorksOnNewest, work.step \in Delivering,
           NEW result \in SendStates, InsertDelivery(result)
    PROVE  /\ sends' \in [BriefIds \X ChannelSet -> Seq(SendStates)]
           /\ sends'[Here] = Append(sends[Here], result)
           /\ \A s \in BriefIds \X ChannelSet : s # Here => sends'[s] = sends[s]
<1>1. Here \in BriefIds \X ChannelSet
  BY AtWork DEF AtRest, Delivering
<1> QED BY <1>1 DEF InsertDelivery, DeliveryType

LEMMA StepOn ==
    ASSUME DeliveryType, WorksOnNewest, work.step \in Delivering,
           NEW st \in Delivering, work' = [work EXCEPT !.step = st]
    PROVE  /\ work' \in Works /\ work' # AtRest
           /\ work'.step = st /\ work'.brief = work.brief /\ work'.n = work.n
<1>1. work \in Works
  BY AtWork DEF AtRest, Delivering
<1>2. work' = [step |-> st, brief |-> work.brief, n |-> work.n, depth |-> work.depth]
  BY <1>1 DEF Works
<1> QED BY <1>1, <1>2 DEF Works, Delivering, AtRest

\* A step of a delivery: the same brief, or the end of it.
OnTheWay ==
    /\ work.step \in Delivering /\ briefs' = briefs
    /\ work' \in {AtRest} \cup Works
    /\ work' # AtRest => /\ work'.step \in Delivering /\ work'.brief = work.brief
                        /\ work'.n \in {work.n, work.n + 1} /\ work'.n \in DOMAIN Route
                        /\ whole' = whole
    /\ work' = AtRest => whole' \in {whole, whole \cup {work.brief}}

LEMMA DeliverIsOnTheWay ==
    ASSUME DeliveryType, WorksOnNewest, Deliver \/ (ComposerDies /\ work.step \in Delivering)
    PROVE  OnTheWay
<1>1. work.step \in Delivering
  BY DEF Deliver, Gate, RenderFails, SendImpl, SendFails, SentRow, EnsureCounts, EnsureInserts, SendRowFails,
         Delivering
<1>2. work \in Works /\ work.n \in DOMAIN Route
  BY <1>1, AtWork DEF AtRest, Delivering
<1>3. NextChannel /\ briefs' = briefs => OnTheWay
  BY <1>1, NextChannelType DEF OnTheWay, Delivering
<1>4. ASSUME NEW st \in Delivering, work' = [work EXCEPT !.step = st], whole' = whole, briefs' = briefs
      PROVE  OnTheWay
  BY <1>1, <1>2, <1>4, StepOn DEF OnTheWay
<1>5. CASE Gate \/ SendImpl
  BY <1>3, <1>4, <1>5 DEF Gate, SendImpl, Delivering
<1>6. CASE RenderFails \/ SendFails \/ SendRowFails
  BY <1>3, <1>6 DEF RenderFails, SendFails, SendRowFails
<1>7. CASE SentRow \/ EnsureCounts \/ EnsureInserts
  BY <1>3, <1>4, <1>7 DEF SentRow, EnsureCounts, EnsureInserts, Delivering
<1>8. CASE ComposerDies
  BY <1>1, <1>8 DEF ComposerDies, OnTheWay
<1> QED BY <1>5, <1>6, <1>7, <1>8 DEF Deliver

LEMMA OnTheWayWorks ==
    ASSUME DeliveryType, WorksOnNewest, OnTheWay
    PROVE  /\ WorksOnNewest' /\ whole' \subseteq DOMAIN briefs'
           /\ work' \in {AtRest} \cup Works /\ briefs' = briefs
<1>1. /\ work # AtRest /\ work.brief \in DOMAIN briefs /\ work.brief \notin whole
      /\ work.brief = Len(briefs) /\ work.brief # 0
  BY AtWork DEF OnTheWay, AtRest, Delivering, WorksOnNewest
<1>2. whole' \subseteq DOMAIN briefs'
  BY <1>1 DEF OnTheWay, DeliveryType
<1>3. WorksOnNewest'
  <2>1. work' # AtRest => Route' = Route
    BY <1>1, RouteStays DEF OnTheWay
  <2> QED BY <1>1, <2>1 DEF OnTheWay, WorksOnNewest, Delivering
<1> QED BY <1>2, <1>3 DEF OnTheWay

\* The update of a row that waits.
LEMMA LapsedIsSeq ==
    ASSUME NEW s \in Seq(OfferStates)
    PROVE  LET e == [n \in DOMAIN s |-> IF s[n] = "pending" THEN "expired" ELSE s[n]]
           IN  e \in Seq(OfferStates) /\ Len(e) = Len(s) /\ DOMAIN e = DOMAIN s
<1> DEFINE e == [n \in DOMAIN s |-> IF s[n] = "pending" THEN "expired" ELSE s[n]]
<1>1. /\ Len(s) \in Nat /\ DOMAIN s = 1..Len(s)
      /\ \A n \in 1..Len(s) : s[n] \in OfferStates
  OBVIOUS
<1>2. e \in [1..Len(s) -> OfferStates]
  BY <1>1 DEF OfferStates
<1>3. e \in Seq(OfferStates) /\ DOMAIN e = 1..Len(s)
  BY <1>1, <1>2, SeqDef
<1>4. Len(e) = Len(s)
  BY <1>1, <1>3
<1> QED BY <1>1, <1>3, <1>4

LEMMA VerdictIsSeq ==
    ASSUME NEW s \in Seq(OfferStates), NEW n, NEW v \in OfferStates
    PROVE  LET e == [s EXCEPT ![n] = v]
           IN  e \in Seq(OfferStates) /\ Len(e) = Len(s) /\ DOMAIN e = DOMAIN s
<1> DEFINE e == [s EXCEPT ![n] = v]
<1>1. /\ Len(s) \in Nat /\ DOMAIN s = 1..Len(s)
      /\ \A i \in 1..Len(s) : s[i] \in OfferStates
      /\ s \in [1..Len(s) -> OfferStates]
  OBVIOUS
<1>2. e \in [1..Len(s) -> OfferStates]
  BY <1>1
<1>3. e \in Seq(OfferStates) /\ DOMAIN e = 1..Len(s)
  BY <1>1, <1>2, SeqDef
<1>4. Len(e) = Len(s)
  BY <1>1, <1>3
<1> QED BY <1>1, <1>3, <1>4

LEMMA DeliveryTypeKept ==
    ASSUME DeliveryType, WorksOnNewest, DeliveryNext PROVE DeliveryType' /\ WorksOnNewest'
<1>1. ASSUME NEW mode \in Modes, Compose(mode) PROVE DeliveryType' /\ WorksOnNewest'
  <2> DEFINE brief == [mode |-> mode, depth |-> 0, chain |-> 0]
  <2>1. brief \in Briefs /\ briefs' = Append(briefs, brief)
    BY <1>1, DeliveryAssumption DEF Compose, InsertBrief, Briefs
  <2> HIDE DEF brief
  <2>2. /\ briefs' \in Seq(Briefs) /\ Len(briefs') = Len(briefs) + 1
        /\ DOMAIN briefs' = DOMAIN briefs \cup {Len(briefs) + 1}
        /\ Len(briefs) + 1 \notin DOMAIN briefs /\ Len(briefs) \in Nat
    BY <2>1, AppendToBriefs, BriefsAreNumbered
  <2>3. /\ work' = [step |-> "gate", brief |-> Len(briefs) + 1, n |-> 1, depth |-> 0]
        /\ Len(briefs') <= MaxBriefs
        /\ UNCHANGED <<sends, offers, replies, answers, click, whole, early, mishaps>>
    BY <1>1, <2>2, DeliveryAssumption DEF Compose, InsertBrief, Working
  <2>4. work' \in Works /\ 1 \in DOMAIN Route'
    BY <2>2, <2>3, RoutesAreApart DEF Works, Delivering, Route
  <2>5. DeliveryType'
    BY <2>2, <2>3, <2>4 DEF DeliveryType
  <2> QED BY <2>2, <2>3, <2>4, <2>5 DEF WorksOnNewest, DeliveryType
<1>2. ASSUME NEW b \in DOMAIN briefs, ComposeRefinement(b) PROVE DeliveryType' /\ WorksOnNewest'
  <2> DEFINE brief == [mode |-> "refined", depth |-> 0, chain |-> briefs[b].chain + 1]
  <2>1. briefs[b] \in Briefs
    BY BriefsAreNumbered
  <2>2. brief \in Briefs /\ briefs' = Append(briefs, brief) /\ brief.mode = "refined"
    BY <1>2, <2>1 DEF ComposeRefinement, InsertBrief, Briefs, AllModes
  <2> HIDE DEF brief
  <2>3. /\ briefs' \in Seq(Briefs) /\ Len(briefs') = Len(briefs) + 1
        /\ DOMAIN briefs' = DOMAIN briefs \cup {Len(briefs) + 1}
        /\ Len(briefs) + 1 \notin DOMAIN briefs /\ Len(briefs) \in Nat
        /\ briefs'[Len(briefs) + 1].mode = "refined"
    BY <2>2, AppendToBriefs, BriefsAreNumbered
  <2>4. /\ work' = [step |-> "depth", brief |-> Len(briefs) + 1, n |-> 0, depth |-> briefs[b].depth + 1]
        /\ Len(briefs') <= MaxBriefs
        /\ UNCHANGED <<sends, offers, replies, answers, click, whole, early, mishaps>>
    BY <1>2, <2>3, DeliveryAssumption DEF ComposeRefinement, InsertBrief, Working
  <2>5. work' \in Works
    BY <2>1, <2>3, <2>4 DEF Works, Briefs
  <2>6. DeliveryType'
    BY <2>3, <2>4, <2>5 DEF DeliveryType
  <2> QED BY <2>3, <2>4, <2>6 DEF WorksOnNewest, DeliveryType, Delivering
<1>3. CASE UpdateRefineMetadata
  <2>1. work # AtRest /\ work \in Works /\ work.brief \in DOMAIN briefs
    BY <1>3, AtWork DEF UpdateRefineMetadata, AtRest
  <2>2. /\ briefs' \in Seq(Briefs) /\ Len(briefs') = Len(briefs) /\ DOMAIN briefs' = DOMAIN briefs
    <3>1. [briefs[work.brief] EXCEPT !.depth = work.depth] \in Briefs
      BY <2>1, BriefsAreNumbered DEF Briefs, Works
    <3>2. briefs' = [briefs EXCEPT ![work.brief] = [briefs[work.brief] EXCEPT !.depth = work.depth]]
      BY <1>3 DEF UpdateRefineMetadata
    <3> QED BY <2>1, <3>1, <3>2, BriefsAreNumbered, ExceptSeq DEF DeliveryType
  <2> QED BY <1>3, <2>1, <2>2 DEF UpdateRefineMetadata, DeliveryType, WorksOnNewest
<1>4. CASE Deliver \/ (ComposerDies /\ work.step \in Delivering)
  <2>1. /\ WorksOnNewest' /\ whole' \subseteq DOMAIN briefs'
        /\ work' \in {AtRest} \cup Works /\ briefs' = briefs
    BY <1>4, DeliverIsOnTheWay, OnTheWayWorks
  <2>2. sends' \in [BriefIds \X ChannelSet -> Seq(SendStates)]
    BY <1>4, InsertDeliveryType
       DEF Deliver, Gate, RenderFails, SendImpl, SendFails, SentRow, EnsureCounts, EnsureInserts, SendRowFails,
           ComposerDies, Delivering, SendStates, DeliveryType
  <2>3. offers' \in [BriefIds -> Seq(OfferStates)]
    <3>1. CASE EnsureInserts
      <4>1. work.brief \in BriefIds
        BY <3>1, AtWork DEF EnsureInserts, AtRest
      <4> QED BY <3>1, <4>1 DEF EnsureInserts, DeliveryType, OfferStates
    <3>2. CASE ~EnsureInserts
      BY <1>4, <3>2
         DEF Deliver, Gate, RenderFails, SendImpl, SendFails, SentRow, EnsureCounts, SendRowFails,
             ComposerDies, DeliveryType
    <3> QED BY <3>1, <3>2
  <2>4. UNCHANGED <<replies, answers, click, early>>
    BY <1>4 DEF Deliver, Gate, RenderFails, SendImpl, SendFails, SentRow, EnsureCounts, EnsureInserts,
                SendRowFails, ComposerDies
  <2>5. mishaps' \in Nat
    BY <1>4 DEF Deliver, Gate, RenderFails, SendImpl, SendFails, SentRow, EnsureCounts, EnsureInserts,
                SendRowFails, ComposerDies, Mishap, DeliveryType
  <2> QED BY <2>1, <2>2, <2>3, <2>4, <2>5 DEF DeliveryType
<1>5. CASE ComposerDies
  BY <1>5 DEF ComposerDies, Mishap, DeliveryType, WorksOnNewest
<1>6. ASSUME NEW b \in DOMAIN briefs, Press(b) PROVE DeliveryType' /\ WorksOnNewest'
  <2>1. b \in BriefIds
    BY BriefsAreNumbered
  <2>2. /\ answers' \in [BriefIds -> Nat] /\ early' \subseteq DOMAIN briefs
    BY <1>6, <2>1 DEF Press, Answering, DeliveryType
  <2>3. offers[b] \in Seq(OfferStates) /\ offers' \in [BriefIds -> Seq(OfferStates)]
    <3>1. offers[b] \in Seq(OfferStates) /\ Append(offers[b], "pending") \in Seq(OfferStates)
      BY <2>1 DEF DeliveryType, OfferStates
    <3>2. \/ offers' = offers
          \/ offers' = [offers EXCEPT ![b] = Append(offers[b], "pending")]
      BY <1>6 DEF Press
    <3> QED BY <2>1, <3>1, <3>2 DEF DeliveryType
  <2>4. click' \in [brief : BriefIds, row : Nat]
    <3>1. Len(offers[b]) + 1 \in Nat /\ PendingOffers(b) \subseteq Nat
      BY <2>3 DEF PendingOffers
    <3> QED BY <1>6, <2>1, <3>1 DEF Press
  <2> QED BY <1>6, <2>2, <2>3, <2>4 DEF Press, DeliveryType, WorksOnNewest, Route, Mode
<1>7. CASE PressUpdates
  <2>1. click.brief \in BriefIds
    BY <1>7 DEF PressUpdates, DeliveryType
  <2>2. offers' \in [BriefIds -> Seq(OfferStates)]
    BY <1>7, <2>1, VerdictIsSeq DEF PressUpdates, DeliveryType, OfferStates
  <2> QED BY <1>7, <2>2 DEF PressUpdates, DeliveryType, WorksOnNewest, Route, Mode
<1>8. ASSUME NEW b \in DOMAIN briefs, Reply(b) PROVE DeliveryType' /\ WorksOnNewest'
  BY <1>8, BriefsAreNumbered DEF Reply, Answering, DeliveryType, WorksOnNewest, Route, Mode
<1>9. ASSUME NEW b \in DOMAIN briefs, OfferLapses(b) PROVE DeliveryType' /\ WorksOnNewest'
  <2>1. offers' \in [BriefIds -> Seq(OfferStates)]
    BY <1>9, BriefsAreNumbered, LapsedIsSeq DEF OfferLapses, DeliveryType
  <2> QED BY <1>9, <2>1 DEF OfferLapses, DeliveryType, WorksOnNewest, Route, Mode
<1>10. CASE QuietFlips
  BY <1>10 DEF QuietFlips, DeliveryType, WorksOnNewest, Route, Mode
<1> QED BY <1>1, <1>2, <1>3, <1>4, <1>5, <1>6, <1>7, <1>8, <1>9, <1>10 DEF DeliveryNext
-----------------------------------------------------------------------------
(* The chains of refinements. *)

LEMMA HiddenGrows ==
    ASSUME mishaps \in Nat
    PROVE  /\ Hidden \in Nat /\ MaxDepth \in Nat /\ MaxDepth * (1 + mishaps) = MaxDepth + Hidden
           /\ mishaps' = mishaps => Hidden' = Hidden
           /\ mishaps' = mishaps + 1 => Hidden' = Hidden + MaxDepth
<1>1. ASSUME NEW d \in Nat, NEW m \in Nat
      PROVE  d * m \in Nat /\ d * (m + 1) = d * m + d /\ d * (1 + m) = d + d * m
  OBVIOUS
<1>2. MaxDepth \in Nat
  BY DeliveryAssumption
<1> QED BY <1>1, <1>2 DEF Hidden

LEMMA ChainsOfNewBrief ==
    ASSUME DeliveryType, ChainsBounded, work = AtRest,
           NEW brief \in Briefs, briefs' = Append(briefs, brief), mishaps' = mishaps,
           brief.depth <= MaxDepth, work'.brief = Len(briefs) + 1,
           LET due == IF work'.step = "depth" THEN work'.depth ELSE brief.depth
           IN  due <= MaxDepth /\ brief.chain <= due + Hidden
    PROVE  ChainsBounded'
<1>1. /\ DOMAIN briefs' = DOMAIN briefs \cup {Len(briefs) + 1}
      /\ \A b \in DOMAIN briefs : briefs'[b] = briefs[b] /\ b # Len(briefs) + 1
      /\ briefs'[Len(briefs) + 1] = brief
  BY AppendToBriefs
<1>2. Hidden' = Hidden
  BY DEF Hidden
<1>3. \A b \in DOMAIN briefs : DueDepth(b)' = DueDepth(b)
  BY <1>1 DEF DueDepth, AtRest
<1>4. \A b \in DOMAIN briefs' : b \notin DOMAIN briefs =>
         DueDepth(b)' = IF work'.step = "depth" THEN work'.depth ELSE brief.depth
  BY <1>1 DEF DueDepth
<1> QED BY <1>1, <1>2, <1>3, <1>4 DEF ChainsBounded

LEMMA ChainsKept ==
    ASSUME DeliveryType, WorksOnNewest, ChainsBounded, DeliveryNext PROVE ChainsBounded'
<1>1. /\ \A b \in DOMAIN briefs : briefs[b].depth \in Nat /\ briefs[b].chain \in Nat
      /\ mishaps \in Nat
  BY BriefsAreNumbered DEF Briefs, DeliveryType
<1>2. CASE /\ briefs' = briefs /\ mishaps' = mishaps
           /\ work' = work \/ (work.step # "depth" /\ work'.step # "depth")
  BY <1>2 DEF ChainsBounded, DueDepth, Hidden
<1>3. CASE /\ briefs' = briefs /\ mishaps' = mishaps + 1 /\ work'.step # "depth"
  <2> SUFFICES ASSUME NEW b \in DOMAIN briefs
               PROVE  /\ briefs[b].depth <= MaxDepth
                      /\ briefs[b].chain <= briefs[b].depth + Hidden'
    BY <1>3 DEF ChainsBounded, DueDepth
  <2>1. /\ briefs[b].depth <= MaxDepth /\ DueDepth(b) <= MaxDepth
        /\ briefs[b].chain <= DueDepth(b) + Hidden
    BY DEF ChainsBounded
  <2>2. DueDepth(b) \in Nat
    BY <1>1, AtWork DEF DueDepth, AtRest, Works
  <2> QED BY <1>1, <1>3, <2>1, <2>2, HiddenGrows
<1>5. ASSUME NEW mode \in Modes, Compose(mode) PROVE ChainsBounded'
  <2>1. [mode |-> mode, depth |-> 0, chain |-> 0] \in Briefs
    BY DeliveryAssumption DEF Briefs
  <2>2. /\ briefs' = Append(briefs, [mode |-> mode, depth |-> 0, chain |-> 0])
        /\ work' = [step |-> "gate", brief |-> Len(briefs) + 1, n |-> 1, depth |-> 0]
        /\ work = AtRest /\ mishaps' = mishaps
    BY <1>5 DEF Compose, InsertBrief, Working
  <2> QED BY <1>1, <2>1, <2>2, HiddenGrows, ChainsOfNewBrief
<1>6. ASSUME NEW b \in DOMAIN briefs, ComposeRefinement(b) PROVE ChainsBounded'
  <2> DEFINE brief == [mode |-> "refined", depth |-> 0, chain |-> briefs[b].chain + 1]
  <2>1. brief \in Briefs /\ briefs' = Append(briefs, brief) /\ brief.chain = briefs[b].chain + 1
        /\ brief.depth = 0
    <3>1. briefs' = Append(briefs, brief)
      BY <1>6 DEF ComposeRefinement, InsertBrief
    <3>2. briefs[b].chain + 1 \in Nat
      BY <1>1
    <3> QED BY <3>1, <3>2 DEF Briefs, AllModes
  <2>2. /\ work' = [step |-> "depth", brief |-> Len(briefs) + 1, n |-> 0, depth |-> briefs[b].depth + 1]
        /\ mishaps' = mishaps /\ work = AtRest /\ briefs[b].depth < MaxDepth
    BY <1>6 DEF ComposeRefinement, Working, MayRefine
  <2>3. briefs[b].chain <= briefs[b].depth + Hidden
    BY <2>2 DEF ChainsBounded, DueDepth, AtRest
  <2> HIDE DEF brief
  <2>4. /\ brief.chain <= (briefs[b].depth + 1) + Hidden
        /\ brief.depth <= MaxDepth /\ briefs[b].depth + 1 <= MaxDepth
    BY <1>1, <2>1, <2>2, <2>3, HiddenGrows
  <2> QED BY <2>1, <2>2, <2>4, ChainsOfNewBrief
<1>7. CASE UpdateRefineMetadata
  <2>1. /\ work.step = "depth" /\ work # AtRest /\ work.brief \in DOMAIN briefs /\ work'.step # "depth"
        /\ work.depth \in Nat
    BY <1>7, AtWork DEF UpdateRefineMetadata, AtRest, Works
  <2>2. /\ DOMAIN briefs' = DOMAIN briefs /\ mishaps' = mishaps
        /\ \A b \in DOMAIN briefs : /\ briefs'[b].chain = briefs[b].chain
                                   /\ briefs'[b].depth = DueDepth(b)
    <3>1. briefs' = [briefs EXCEPT ![work.brief].depth = work.depth] /\ mishaps' = mishaps
      BY <1>7 DEF UpdateRefineMetadata
    <3>2. \A b \in DOMAIN briefs : briefs[b] \in Briefs
      BY BriefsAreNumbered
    <3> QED BY <2>1, <3>1, <3>2 DEF DueDepth, Briefs
  <2> QED BY <2>1, <2>2 DEF ChainsBounded, DueDepth, Hidden
<1>8. CASE Deliver \/ ComposerDies
  <2>1. briefs' = briefs /\ mishaps' \in {mishaps, mishaps + 1} /\ (ComposerDies => mishaps' = mishaps + 1)
    BY <1>8 DEF Deliver, Gate, RenderFails, SendImpl, SendFails, SentRow, EnsureCounts, EnsureInserts,
                SendRowFails, ComposerDies, Mishap
  <2>2. work'.step # "depth" /\ (Deliver => work.step # "depth")
    BY <1>8, DeliverIsOnTheWay DEF OnTheWay, ComposerDies, AtRest, Delivering
  <2> QED BY <1>2, <1>3, <1>8, <2>1, <2>2
<1>9. CASE \/ PressUpdates \/ QuietFlips
           \/ \E b \in DOMAIN briefs : Press(b) \/ Reply(b) \/ OfferLapses(b)
  BY <1>2, <1>9 DEF PressUpdates, QuietFlips, Press, Reply, OfferLapses
<1> QED BY <1>5, <1>6, <1>7, <1>8, <1>9 DEF DeliveryNext
-----------------------------------------------------------------------------
(* The rows of a channel. *)

LEMMA PairFramed ==
    ASSUME NEW b, NEW ch, sends'[<<b, ch>>] = sends[<<b, ch>>],
           <<b, ch>> \in shown' <=> <<b, ch>> \in shown
    PROVE  /\ Recorded(b, ch)' <=> Recorded(b, ch)
           /\ Untouched(b, ch)' <=> Untouched(b, ch)
           /\ ReachedBy(b, ch)' <=> ReachedBy(b, ch)
<1>1. Statuses(b, ch)' = Statuses(b, ch)
  BY DEF Statuses, SentRows
<1> QED BY <1>1 DEF Recorded, Untouched, ReachedBy

\* A step writes at most the rows of the channel in hand.
OnlyHere ==
    \A s \in BriefIds \X ChannelSet :
        s # Here => sends'[s] = sends[s] /\ (s \in shown' <=> s \in shown)

LEMMA DeliverWritesHere ==
    ASSUME DeliveryType, WorksOnNewest, Deliver \/ ComposerDies PROVE OnlyHere
<1>1. CASE ComposerDies
  BY <1>1 DEF ComposerDies, OnlyHere
<1>2. CASE Deliver
  <2>1. work.step \in Delivering
    BY <1>2, DeliverIsOnTheWay DEF OnTheWay
  <2>2. \A s : s # Here => (s \in shown' <=> s \in shown)
    BY <1>2 DEF Deliver, Gate, RenderFails, SendImpl, SendFails, SentRow, EnsureCounts, EnsureInserts,
                SendRowFails
  <2>3. sends' = sends \/ \E result \in SendStates : InsertDelivery(result)
    BY <1>2 DEF Deliver, Gate, RenderFails, SendImpl, SendFails, SentRow, EnsureCounts, EnsureInserts,
                SendRowFails, SendStates
  <2> QED BY <2>1, <2>2, <2>3, InsertDeliveryType DEF OnlyHere
<1> QED BY <1>1, <1>2

LEMMA OthersUnwritten ==
    ASSUME DeliveryType, WorksOnNewest, ChannelsInOrder, OnTheWay, OnlyHere,
           NEW b, b = work.brief, NEW route, route = Route
    PROVE  /\ \A c \in whole, ch \in ChannelSet : Due(c, ch)' => Recorded(c, ch)'
           /\ NewIsUntouched'
           /\ \A n \in DOMAIN Route :
                 /\ n < work.n => Recorded(b, route[n])'
                 /\ n > work.n => Untouched(b, route[n])'
<1>1. /\ work.step \in Delivering /\ briefs' = briefs
      /\ work.brief \in DOMAIN briefs /\ work.brief \notin whole /\ work.brief \in BriefIds
      /\ whole \subseteq BriefIds /\ work.n \in DOMAIN Route /\ work.n \in Nat
  BY AtWork, BriefsAreNumbered, ChannelsAreApart DEF OnTheWay, AtRest, Delivering, DeliveryType
<1>2. ASSUME NEW c \in BriefIds, NEW ch \in ChannelSet, c # work.brief \/ ch # Channel
      PROVE  /\ Recorded(c, ch)' <=> Recorded(c, ch)
             /\ Untouched(c, ch)' <=> Untouched(c, ch)
             /\ Due(c, ch)' <=> Due(c, ch)
  <2>1. <<c, ch>> # Here
    BY <1>2 DEF Here
  <2> QED BY <1>1, <2>1, PairFramed, RouteStays DEF OnlyHere
<1>3. \A c \in whole, ch \in ChannelSet : Due(c, ch)' => Recorded(c, ch)'
  BY <1>1, <1>2 DEF ChannelsInOrder, WholeIsRecorded
<1>4. NewIsUntouched'
  BY <1>1, <1>2 DEF ChannelsInOrder, NewIsUntouched
<1>5. \A n \in DOMAIN Route : n # work.n => Route[n] \in ChannelSet /\ Route[n] # Channel
  BY <1>1, ChannelsAreApart DEF Channel
<1>6. ASSUME NEW n \in DOMAIN Route
      PROVE  /\ n < work.n => Recorded(b, route[n])'
             /\ n > work.n => Untouched(b, route[n])'
  <2>1. n \in Nat /\ (n < work.n \/ n > work.n => n # work.n)
    BY <1>1, ChannelsAreApart
  <2>2. CASE n # work.n
    <3>1. /\ n < work.n => Recorded(work.brief, Route[n])
          /\ n > work.n => Untouched(work.brief, Route[n])
      BY <1>1 DEF ChannelsInOrder, ChannelsByTurn
    <3>2. PICK ch \in ChannelSet : ch = Route[n] /\ ch # Channel
      BY <1>1, <1>5, <2>2
    <3>3. /\ Recorded(b, ch)' <=> Recorded(b, ch)
          /\ Untouched(b, ch)' <=> Untouched(b, ch)
      BY <1>1, <1>2, <3>2
    <3> QED BY <3>1, <3>2, <3>3
  <2> QED BY <2>1, <2>2
<1> QED BY <1>3, <1>4, <1>6

LEMMA ChannelDone ==
    ASSUME DeliveryType, WorksOnNewest, ChannelsInOrder, OnTheWay, OnlyHere, NextChannel,
           NEW b, NEW ch, NEW route, b = work.brief, ch = Channel, route = Route, Recorded(b, ch)'
    PROVE  ChannelsInOrder'
<1>1. /\ \A c \in whole, k \in ChannelSet : Due(c, k)' => Recorded(c, k)'
      /\ NewIsUntouched'
      /\ work.step \in Delivering
  BY OthersUnwritten DEF OnTheWay
<1>2. b \in BriefIds /\ ch = Route[work.n] /\ work.n \in 1..Len(Route)
  BY <1>1, AtWork, ChannelsAreApart DEF Channel, AtRest, Delivering
<1>3. \A n \in DOMAIN Route :
         /\ n <= work.n => Recorded(b, route[n])'
         /\ n > work.n => Untouched(b, route[n])'
  <2> SUFFICES ASSUME NEW n \in DOMAIN Route
               PROVE  /\ n <= work.n => Recorded(b, route[n])'
                      /\ n > work.n => Untouched(b, route[n])'
    OBVIOUS
  <2>0. n \in Nat /\ work.n \in Nat
    BY <1>2, ChannelsAreApart
  <2>1. CASE n = work.n
    BY <1>2, <2>0, <2>1
  <2>2. CASE n < work.n
    BY <2>0, <2>2, OthersUnwritten
  <2>3. CASE n > work.n
    BY <2>0, <2>3, OthersUnwritten
  <2> QED BY <2>0, <2>1, <2>2, <2>3
<1>4. CASE work' # AtRest
  <2>1. /\ work'.brief = b /\ work'.step = "gate" /\ work'.n = work.n + 1 /\ whole' = whole
    BY <1>1, <1>4, NextChannelType
  <2>2. ChannelsByTurn'
    <3>0. Route' = route
      BY <1>1, <2>1, RouteStays DEF OnTheWay
    <3> SUFFICES ASSUME NEW n \in DOMAIN route
                 PROVE  /\ n < work.n + 1 => Recorded(b, route[n])'
                        /\ n = work.n + 1 => HandledSoFar(b, route[n])'
                        /\ n > work.n + 1 => Untouched(b, route[n])'
      BY <2>1, <3>0 DEF ChannelsByTurn
    <3>1. n \in Nat /\ work.n \in Nat
      BY <1>2, ChannelsAreApart
    <3>2. Untouched(b, route[n])' => HandledSoFar(b, route[n])'
      BY <2>1 DEF Untouched, HandledSoFar
    <3> QED BY <1>3, <3>1, <3>2
  <2> QED BY <1>1, <2>1, <2>2 DEF ChannelsInOrder, WholeIsRecorded
<1>5. CASE work' = AtRest
  <2>1. whole' = whole \cup {b} /\ work.n = Len(Route)
    BY <1>1, <1>5, NextChannelType
  <2>2. ASSUME NEW k \in ChannelSet, Due(b, k)' PROVE Recorded(b, k)'
    <3>1. Due(b, k)
      BY <2>2, RouteStays DEF OnTheWay
    <3>2. PICK n \in DOMAIN Route : k = route[n]
      BY <3>1, ChannelsAreApart
    <3>3. n <= work.n
      BY <1>2, <2>1, <3>2, ChannelsAreApart
    <3> QED BY <1>3, <3>2, <3>3
  <2>3. ChannelsByTurn'
    BY <1>5 DEF ChannelsByTurn, AtRest, Delivering
  <2> QED BY <1>1, <2>1, <2>2, <2>3 DEF ChannelsInOrder, WholeIsRecorded
<1> QED BY <1>4, <1>5

LEMMA ChannelStays ==
    ASSUME DeliveryType, WorksOnNewest, ChannelsInOrder, OnTheWay, OnlyHere,
           NEW b, NEW ch, NEW route, b = work.brief, ch = Channel, route = Route,
           work'.brief = work.brief, work'.n = work.n, whole' = whole, HandledSoFar(b, ch)'
    PROVE  ChannelsInOrder'
<1>1. /\ \A c \in whole, k \in ChannelSet : Due(c, k)' => Recorded(c, k)'
      /\ NewIsUntouched'
      /\ \A n \in DOMAIN Route : /\ n < work.n => Recorded(b, route[n])'
                                 /\ n > work.n => Untouched(b, route[n])'
  BY OthersUnwritten
<1>2. ChannelsByTurn'
  <2>0. Route' = route
    BY RouteStays DEF OnTheWay
  <2> SUFFICES ASSUME NEW n \in DOMAIN route
               PROVE  /\ n < work.n => Recorded(b, route[n])'
                      /\ n = work.n => HandledSoFar(b, route[n])'
                      /\ n > work.n => Untouched(b, route[n])'
    BY <2>0 DEF ChannelsByTurn
  <2>1. CASE n = work.n
    <3>1. Route[n] = ch /\ n \in Nat
      BY <2>1, ChannelsAreApart DEF Channel
    <3> QED BY <2>1, <3>1
  <2>2. CASE n # work.n
    <3>0. work.n \in Nat /\ n \in Nat
      BY AtWork, ChannelsAreApart DEF OnTheWay, AtRest, Delivering
    <3>1. CASE n < work.n
      BY <3>0, <3>1, OthersUnwritten
    <3>2. CASE n > work.n
      BY <3>0, <3>2, OthersUnwritten
    <3> QED BY <2>2, <3>0, <3>1, <3>2
  <2> QED BY <2>1, <2>2
<1> QED BY <1>1, <1>2 DEF ChannelsInOrder, WholeIsRecorded

LEMMA RowForms ==
    /\ \A x : /\ Append(<<>>, x) = <<x>> /\ Len(<<x>>) = 1
              /\ {<<x>>[n] : n \in DOMAIN <<x>>} = {x}
    /\ \A x, y : /\ Append(<<x>>, y) = <<x, y>> /\ Len(<<x, y>>) = 2
                 /\ {<<x, y>>[n] : n \in DOMAIN <<x, y>>} = {x, y}
<1>1. \A x : Append(<<>>, x) = <<x>> /\ Len(<<x>>) = 1 /\ DOMAIN <<x>> = {1}
  OBVIOUS
<1>2. ASSUME NEW x, NEW y
      PROVE  Append(<<x>>, y) = <<x, y>> /\ Len(<<x, y>>) = 2 /\ DOMAIN <<x, y>> = {1, 2}
  <2> DEFINE S == {x, y}
  <2>1. <<x>> \in Seq(S) /\ <<x, y>> \in Seq(S) /\ y \in S /\ Len(<<x>>) = 1 /\ Len(<<x, y>>) = 2
    OBVIOUS
  <2>2. Append(<<x>>, y) \in Seq(S) /\ Len(Append(<<x>>, y)) = 2
    BY <2>1
  <2>3. \A n \in 1..2 : Append(<<x>>, y)[n] = <<x, y>>[n]
    BY <2>1
  <2>4. Append(<<x>>, y) = <<x, y>>
    BY <2>1, <2>2, <2>3, SeqEqual
  <2> QED BY <2>1, <2>4
<1> QED BY <1>1, <1>2

\* The forms of the rows of a channel that is done with.
LEMMA FormsAreRecorded ==
    ASSUME NEW b, NEW ch, NEW rows, sends' = rows,
           \/ rows[<<b, ch>>] = <<"skipped">> /\ <<b, ch>> \notin shown'
           \/ rows[<<b, ch>>] = <<"failed">>
           \/ rows[<<b, ch>>] \in {<<"sent">>, <<"sent", "failed">>} /\ <<b, ch>> \in shown'
    PROVE  Recorded(b, ch)'
<1>1. CASE rows[<<b, ch>>] = <<"skipped">> /\ <<b, ch>> \notin shown'
  <2>1. Statuses(b, ch)' = {"skipped"} /\ Len(rows[<<b, ch>>]) = 1
    BY <1>1, RowForms DEF Statuses, SentRows
  <2> QED BY <1>1, <2>1 DEF Recorded
<1>2. CASE rows[<<b, ch>>] = <<"failed">>
  <2>1. Statuses(b, ch)' = {"failed"} /\ Len(rows[<<b, ch>>]) = 1
    BY <1>2, RowForms DEF Statuses, SentRows
  <2> QED BY <1>2, <2>1 DEF Recorded
<1>3. CASE rows[<<b, ch>>] = <<"sent">> /\ <<b, ch>> \in shown'
  <2>1. Statuses(b, ch)' = {"sent"} /\ Len(rows[<<b, ch>>]) = 1
    BY <1>3, RowForms DEF Statuses, SentRows
  <2> QED BY <1>3, <2>1 DEF Recorded
<1>4. CASE rows[<<b, ch>>] = <<"sent", "failed">> /\ <<b, ch>> \in shown'
  <2>1. Statuses(b, ch)' = {"sent", "failed"} /\ Len(rows[<<b, ch>>]) = 2
    BY <1>4, RowForms DEF Statuses, SentRows
  <2> QED BY <1>4, <2>1 DEF Recorded
<1> QED BY <1>1, <1>2, <1>3, <1>4

LEMMA ChannelInHand ==
    ASSUME DeliveryType, WorksOnNewest, ChannelsInOrder, work.step \in Delivering,
           NEW b, NEW ch, b = work.brief, ch = Channel
    PROVE  /\ Here = <<b, ch>> /\ Here \in BriefIds \X ChannelSet /\ HandledSoFar(b, ch)
<1>1. work.n \in DOMAIN Route /\ work.n \in Nat
  BY AtWork, ChannelsAreApart DEF AtRest, Delivering
<1>2. HandledSoFar(work.brief, Route[work.n])
  BY <1>1 DEF ChannelsInOrder, ChannelsByTurn
<1> QED BY <1>2, AtWork DEF Here, Channel, AtRest, Delivering

LEMMA DeliverKeepsOrder ==
    ASSUME DeliveryType, WorksOnNewest, ChannelsInOrder, Deliver PROVE ChannelsInOrder'
<1>1. OnTheWay /\ OnlyHere /\ work.step \in Delivering
  BY DeliverIsOnTheWay, DeliverWritesHere DEF OnTheWay
<1>2. PICK b, ch : b = work.brief /\ ch = Channel
  OBVIOUS
<1>3. Here = <<b, ch>> /\ Here \in BriefIds \X ChannelSet /\ HandledSoFar(b, ch)
  BY <1>1, <1>2, ChannelInHand
<1>4. \A result \in SendStates : InsertDelivery(result) =>
         sends'[<<b, ch>>] = Append(sends[<<b, ch>>], result)
  BY <1>1, <1>3, InsertDeliveryType
<1>5. NextChannel /\ Recorded(b, ch)' => ChannelsInOrder'
  BY <1>1, <1>2, ChannelDone
<1>6. ASSUME NEW st \in Delivering, work' = [work EXCEPT !.step = st], whole' = whole,
             HandledSoFar(b, ch)'
      PROVE  ChannelsInOrder'
  BY <1>1, <1>2, <1>6, StepOn, ChannelStays
<1>0. CASE RenderFails
  <2>1. sends'[<<b, ch>>] = <<"failed">> /\ NextChannel
    BY <1>0, <1>3, <1>4, RowForms DEF RenderFails, HandledSoFar, SendStates
  <2> QED BY <1>5, <2>1, FormsAreRecorded
<1>7. CASE Gate
  <2>1. sends[<<b, ch>>] = <<>> /\ <<b, ch>> \notin shown /\ shown' = shown
    BY <1>3, <1>7 DEF Gate, HandledSoFar
  <2>2. CASE Skipped(work.brief, Channel)
    <3>1. sends'[<<b, ch>>] = <<"skipped">> /\ NextChannel
      BY <1>4, <1>7, <2>1, <2>2, RowForms DEF Gate, SendStates
    <3> QED BY <1>5, <2>1, <3>1, FormsAreRecorded
  <2>3. CASE ~Skipped(work.brief, Channel)
    <3>1. work' = [work EXCEPT !.step = "send"] /\ whole' = whole /\ sends' = sends
      BY <1>7, <2>3 DEF Gate
    <3>2. work'.step = "send"
      BY <1>1, <3>1, StepOn DEF Delivering
    <3>3. HandledSoFar(b, ch)'
      BY <2>1, <3>1, <3>2 DEF HandledSoFar
    <3> QED BY <1>6, <3>1, <3>3 DEF Delivering
  <2> QED BY <2>2, <2>3
<1>8. CASE SendImpl
  <2>1. work' = [work EXCEPT !.step = "row"] /\ whole' = whole /\ sends' = sends
        /\ sends[<<b, ch>>] = <<>> /\ <<b, ch>> \in shown'
    BY <1>3, <1>8 DEF SendImpl, HandledSoFar
  <2>2. work'.step = "row"
    BY <1>1, <2>1, StepOn DEF Delivering
  <2>3. HandledSoFar(b, ch)'
    BY <2>1, <2>2 DEF HandledSoFar
  <2> QED BY <1>6, <2>1, <2>3 DEF Delivering
<1>9. CASE SendFails
  <2>1. sends'[<<b, ch>>] = <<"failed">> /\ NextChannel
    BY <1>3, <1>4, <1>9, RowForms DEF SendFails, HandledSoFar, SendStates
  <2> QED BY <1>5, <2>1, FormsAreRecorded
<1>10. CASE SentRow
  <2>1. sends'[<<b, ch>>] = <<"sent">> /\ <<b, ch>> \in shown'
    BY <1>3, <1>4, <1>10, RowForms DEF SentRow, HandledSoFar, SendStates
  <2>2. CASE NextChannel
    BY <1>5, <2>1, <2>2, FormsAreRecorded
  <2>3. CASE work' = [work EXCEPT !.step = "count"] /\ whole' = whole
    <3>1. work'.step = "count"
      BY <1>1, <2>3, StepOn DEF Delivering
    <3>2. HandledSoFar(b, ch)'
      BY <2>1, <3>1 DEF HandledSoFar
    <3> QED BY <1>6, <2>3, <3>2 DEF Delivering
  <2> QED BY <1>10, <2>2, <2>3 DEF SentRow
<1>11. CASE EnsureCounts \/ EnsureInserts
  <2>1. sends' = sends /\ sends[<<b, ch>>] = <<"sent">> /\ <<b, ch>> \in shown'
    BY <1>3, <1>11 DEF EnsureCounts, EnsureInserts, HandledSoFar
  <2>2. CASE NextChannel
    BY <1>5, <2>1, <2>2, FormsAreRecorded
  <2>3. CASE work' = [work EXCEPT !.step = "offer"] /\ whole' = whole
    <3>1. work'.step = "offer"
      BY <1>1, <2>3, StepOn DEF Delivering
    <3>2. HandledSoFar(b, ch)'
      BY <2>1, <3>1 DEF HandledSoFar
    <3> QED BY <1>6, <2>3, <3>2 DEF Delivering
  <2> QED BY <1>11, <2>2, <2>3 DEF EnsureCounts, EnsureInserts
<1>12. CASE SendRowFails
  <2>1. /\ sends'[<<b, ch>>] \in {<<"failed">>, <<"sent", "failed">>}
        /\ <<b, ch>> \in shown' /\ NextChannel
    BY <1>3, <1>4, <1>12, RowForms DEF SendRowFails, HandledSoFar, SendStates
  <2> QED BY <1>5, <2>1, FormsAreRecorded
<1> QED BY <1>0, <1>7, <1>8, <1>9, <1>10, <1>11, <1>12 DEF Deliver

LEMMA ChannelsKept ==
    ASSUME DeliveryType, DeliveryType', WorksOnNewest, ChannelsInOrder, DeliveryNext
    PROVE  ChannelsInOrder'
<1>1. CASE Deliver
  BY <1>1, DeliverKeepsOrder
<1>2. ASSUME UNCHANGED <<sends, shown, whole>>,
             DOMAIN briefs \subseteq DOMAIN briefs',
             \A b \in DOMAIN briefs : briefs'[b].mode = briefs[b].mode
      PROVE  WholeIsRecorded' /\ NewIsUntouched'
  <2>1. \A b \in BriefIds, ch \in ChannelSet :
           (Recorded(b, ch)' <=> Recorded(b, ch)) /\ (Untouched(b, ch)' <=> Untouched(b, ch))
    BY <1>2, PairFramed
  <2>2. whole \subseteq DOMAIN briefs /\ whole \subseteq BriefIds
    BY BriefsAreNumbered DEF DeliveryType
  <2>3. \A b \in whole, ch \in ChannelSet : Due(b, ch)' <=> Due(b, ch)
    BY <1>2, <2>2, RouteStays
  <2> QED BY <1>2, <2>1, <2>2, <2>3 DEF ChannelsInOrder, WholeIsRecorded, NewIsUntouched
<1>3. CASE \/ PressUpdates \/ QuietFlips
           \/ \E b \in DOMAIN briefs : Press(b) \/ Reply(b) \/ OfferLapses(b)
  <2>1. UNCHANGED <<sends, shown, whole, briefs, work>>
    BY <1>3 DEF PressUpdates, QuietFlips, Press, Reply, OfferLapses
  <2>2. ChannelsByTurn'
    <3>1. \A b, ch : /\ Recorded(b, ch)' <=> Recorded(b, ch)
                     /\ Untouched(b, ch)' <=> Untouched(b, ch)
                     /\ HandledSoFar(b, ch)' <=> HandledSoFar(b, ch)
      BY <2>1, PairFramed DEF HandledSoFar
    <3>2. Route' = Route
      BY <2>1, RouteStays
    <3> QED BY <2>1, <3>1, <3>2 DEF ChannelsInOrder, ChannelsByTurn
  <2> QED BY <1>2, <2>1, <2>2 DEF ChannelsInOrder
<1>4. CASE ComposerDies
  <2>1. UNCHANGED <<sends, shown, whole, briefs>> /\ work'.step \notin Delivering
    BY <1>4 DEF ComposerDies, AtRest, Delivering
  <2> QED BY <1>2, <2>1 DEF ChannelsInOrder, ChannelsByTurn
<1>5. ASSUME NEW mode \in Modes, Compose(mode) PROVE ChannelsInOrder'
  <2> DEFINE b == Len(briefs) + 1
  <2>1. /\ briefs' = Append(briefs, [mode |-> mode, depth |-> 0, chain |-> 0])
        /\ work' = [step |-> "gate", brief |-> b, n |-> 1, depth |-> 0]
        /\ UNCHANGED <<sends, shown, whole>>
    BY <1>5 DEF Compose, InsertBrief, Working
  <2>2. [mode |-> mode, depth |-> 0, chain |-> 0] \in Briefs
    BY DeliveryAssumption DEF Briefs
  <2>3. /\ DOMAIN briefs' = DOMAIN briefs \cup {b} /\ b \notin DOMAIN briefs
        /\ \A c \in DOMAIN briefs : briefs'[c] = briefs[c]
        /\ b \in BriefIds
    <3>1. DOMAIN briefs' \subseteq BriefIds
      <4>1. /\ briefs' \in Seq(Briefs) /\ Len(briefs') <= MaxBriefs
            /\ MaxBriefs \in Nat
        BY DeliveryAssumption DEF DeliveryType
      <4>2. DOMAIN briefs' = 1..Len(briefs') /\ Len(briefs') \in Nat
        BY <4>1
      <4> QED BY <4>1, <4>2 DEF BriefIds
    <3> QED BY <2>1, <2>2, <3>1, AppendToBriefs
  <2>4. WholeIsRecorded' /\ NewIsUntouched'
    BY <1>2, <2>1, <2>3
  <2>5. ChannelsByTurn'
    <3>0. PICK route : route = ChannelsFor(Mode') /\ route = Route'
      BY DEF Route
    <3> SUFFICES ASSUME NEW n \in DOMAIN route
                 PROVE  /\ n < 1 => Recorded(work.brief, route[n])'
                        /\ n = 1 => HandledSoFar(work.brief, route[n])'
                        /\ n > 1 => Untouched(work.brief, route[n])'
      BY <2>1, <3>0 DEF ChannelsByTurn
    <3>1. ~(n < 1) /\ route[n] \in ChannelSet
      <4>1. PICK kind : route = ChannelsFor(kind)
        BY <3>0
      <4> QED BY <4>1, RoutesAreApart
    <3>2. sends[<<b, route[n]>>] = <<>> /\ <<b, route[n]>> \notin shown
      BY <2>3, <3>1 DEF ChannelsInOrder, NewIsUntouched, Untouched
    <3> QED BY <2>1, <3>1, <3>2 DEF HandledSoFar, Untouched
  <2> QED BY <2>4, <2>5 DEF ChannelsInOrder
<1>6. ASSUME NEW c \in DOMAIN briefs, ComposeRefinement(c) PROVE ChannelsInOrder'
  <2> DEFINE brief == [mode |-> "refined", depth |-> 0, chain |-> briefs[c].chain + 1]
  <2>1. /\ briefs' = Append(briefs, brief) /\ brief \in Briefs
        /\ work'.step = "depth" /\ UNCHANGED <<sends, shown, whole>>
    BY <1>6, BriefsAreNumbered DEF ComposeRefinement, InsertBrief, Working, Briefs, AllModes
  <2> HIDE DEF brief
  <2>2. WholeIsRecorded' /\ NewIsUntouched'
    BY <1>2, <2>1, AppendToBriefs
  <2> QED BY <2>1, <2>2 DEF ChannelsInOrder, ChannelsByTurn, Delivering
<1>7. CASE UpdateRefineMetadata
  <2>1. /\ work.step = "depth" /\ work # AtRest /\ work.brief \in DOMAIN briefs
        /\ briefs[work.brief].mode = "refined"
    BY <1>7, AtWork DEF UpdateRefineMetadata, AtRest, WorksOnNewest
  <2>2. /\ briefs' = [briefs EXCEPT ![work.brief].depth = work.depth]
        /\ work'.step \notin Delivering /\ whole' = whole \cup {work.brief}
        /\ UNCHANGED <<sends, shown>>
    BY <1>7 DEF UpdateRefineMetadata, AtRest, Delivering
  <2>3. /\ DOMAIN briefs' = DOMAIN briefs
        /\ \A b \in DOMAIN briefs : briefs'[b].mode = briefs[b].mode
    BY <2>1, <2>2, BriefsAreNumbered DEF Briefs
  <2>4. \A b \in BriefIds, ch \in ChannelSet :
           (Recorded(b, ch)' <=> Recorded(b, ch)) /\ (Untouched(b, ch)' <=> Untouched(b, ch))
    BY <2>2, PairFramed
  <2>5. whole \subseteq DOMAIN briefs /\ whole \subseteq BriefIds
    BY BriefsAreNumbered DEF DeliveryType
  <2>6. /\ \A b \in DOMAIN briefs : \A ch : Due(b, ch)' <=> Due(b, ch)
        /\ \A ch : ~Due(work.brief, ch)
    BY <2>1, <2>3, RouteStays DEF Due
  <2> QED BY <2>1, <2>2, <2>3, <2>4, <2>5, <2>6
         DEF ChannelsInOrder, WholeIsRecorded, NewIsUntouched, ChannelsByTurn
<1> QED BY <1>1, <1>3, <1>4, <1>5, <1>6, <1>7 DEF DeliveryNext
-----------------------------------------------------------------------------
(* The offers of an alert. *)

LEMMA OffersAreRows ==
    DeliveryType => \A b \in BriefIds : /\ offers[b] \in Seq(OfferStates) /\ Len(offers[b]) \in Nat
                                        /\ DOMAIN offers[b] = 1..Len(offers[b])
                                        /\ offers[b] = <<>> <=> Len(offers[b]) = 0
                                        /\ replies[b] \in Nat /\ answers[b] \in Nat
BY DEF DeliveryType

LEMMA OffersFramed ==
    ASSUME NEW b, offers'[b] = offers[b] PROVE OneWaits(b)' <=> OneWaits(b)
<1>1. PendingOffers(b)' = PendingOffers(b)
  BY DEF PendingOffers
<1> QED BY <1>1 DEF OneWaits

\* A step that closes rows and makes none.
ClosesRows ==
    \A b \in BriefIds : /\ Len(offers'[b]) = Len(offers[b])
                        /\ OneWaits(b) => OneWaits(b)'

LEMMA ClosedRows ==
    ASSUME DeliveryType, WorksOnNewest,
           PressUpdates \/ QuietFlips \/ \E b \in DOMAIN briefs : OfferLapses(b)
    PROVE  ClosesRows
<1>1. ASSUME NEW b \in BriefIds, offers'[b] = offers[b]
      PROVE  Len(offers'[b]) = Len(offers[b]) /\ (OneWaits(b) => OneWaits(b)')
  BY <1>1, OffersFramed
<1>2. ASSUME NEW b \in BriefIds, Len(offers'[b]) = Len(offers[b]),
             \A n \in PendingOffers(b)' : n \in PendingOffers(b)
      PROVE  Len(offers'[b]) = Len(offers[b]) /\ (OneWaits(b) => OneWaits(b)')
  BY <1>2 DEF OneWaits
<1>3. CASE QuietFlips
  BY <1>1, <1>3 DEF QuietFlips, ClosesRows
<1>4. ASSUME NEW c \in DOMAIN briefs, OfferLapses(c) PROVE ClosesRows
  <2>1. c \in BriefIds /\ offers[c] \in Seq(OfferStates) /\ offers \in [BriefIds -> Seq(OfferStates)]
    BY BriefsAreNumbered, OffersAreRows DEF DeliveryType
  <2>2. offers'[c] = [n \in DOMAIN offers[c] |-> IF offers[c][n] = "pending" THEN "expired"
                                                 ELSE offers[c][n]]
    BY <1>4, <2>1 DEF OfferLapses
  <2>3. Len(offers'[c]) = Len(offers[c]) /\ DOMAIN offers'[c] = DOMAIN offers[c]
    BY <2>1, <2>2, LapsedIsSeq
  <2>4. \A n \in DOMAIN offers[c] : offers'[c][n] # "pending"
    BY <2>2
  <2>5. \A n \in PendingOffers(c)' : n \in PendingOffers(c)
    BY <2>3, <2>4 DEF PendingOffers
  <2>6. \A b \in BriefIds : b # c => offers'[b] = offers[b]
    BY <1>4, <2>1 DEF OfferLapses
  <2> QED BY <1>1, <1>2, <2>1, <2>3, <2>5, <2>6 DEF ClosesRows
<1>5. CASE PressUpdates
  <2>1. PICK verdict \in {"accepted", "declined"} :
           offers' = [offers EXCEPT ![click.brief][click.row] = verdict]
    BY <1>5 DEF PressUpdates
  <2>2. PICK c, r : c = click.brief /\ r = click.row /\ c \in BriefIds
    BY <1>5 DEF PressUpdates, DeliveryType
  <2>3. offers[c] \in Seq(OfferStates) /\ offers \in [BriefIds -> Seq(OfferStates)]
    BY <2>2, OffersAreRows DEF DeliveryType
  <2>4. offers'[c] = [offers[c] EXCEPT ![r] = verdict]
        /\ \A b \in BriefIds : b # c => offers'[b] = offers[b]
    BY <2>1, <2>2, <2>3
  <2>5. Len(offers'[c]) = Len(offers[c]) /\ DOMAIN offers'[c] = DOMAIN offers[c]
    BY <2>3, <2>4, VerdictIsSeq DEF OfferStates
  <2>6. \A n \in DOMAIN offers[c] : offers'[c][n] \in {verdict, offers[c][n]}
    BY <2>4
  <2>7. \A n \in PendingOffers(c)' : n \in PendingOffers(c)
    BY <2>5, <2>6 DEF PendingOffers
  <2> QED BY <1>1, <1>2, <2>2, <2>4, <2>5, <2>7 DEF ClosesRows
<1> QED BY <1>3, <1>4, <1>5

LEMMA ClosingKeepsOffers ==
    ASSUME DeliveryType, DeliveryType', WorksOnNewest, OffersCounted,
           PressUpdates \/ QuietFlips \/ \E b \in DOMAIN briefs : OfferLapses(b)
    PROVE  OffersCounted'
<1>1. UNCHANGED <<briefs, sends, shown, replies, work, whole, early, answers>>
  BY DEF PressUpdates, QuietFlips, OfferLapses
<1>2. /\ \A b \in BriefIds : /\ OneWaits(b) => OneWaits(b)'
                             /\ Len(offers'[b]) = Len(offers[b])
                             /\ offers'[b] = <<>> <=> offers[b] = <<>>
  <2>1. \A b \in BriefIds : /\ offers[b] = <<>> <=> Len(offers[b]) = 0
                            /\ offers'[b] = <<>> <=> Len(offers'[b]) = 0
    BY DEF DeliveryType
  <2> QED BY <2>1, ClosedRows DEF ClosesRows
<1>3. /\ DOMAIN briefs \subseteq BriefIds /\ whole \subseteq BriefIds
      /\ work # AtRest => work.brief \in BriefIds
  BY BriefsAreNumbered, AtWork DEF DeliveryType
<1>4. NewBriefsAreBare' /\ OffersWithinAnswers'
  BY <1>1, <1>2, <1>3 DEF OffersCounted, NewBriefsAreBare, OffersWithinAnswers
<1>5. work.step \in Delivering => work.brief \in BriefIds
  BY <1>3 DEF AtRest, Delivering
<1>6. UnansweredAtWork'
  BY <1>1, <1>2, <1>5 DEF OffersCounted, UnansweredAtWork
<1>7. \A b, ch : ReachedBy(b, ch)' <=> ReachedBy(b, ch)
  BY <1>1, PairFramed
<1>8. ReachedHasOffer'
  BY <1>1, <1>2, <1>3, <1>5, <1>7 DEF OffersCounted, ReachedHasOffer, Mode, Route
<1> QED BY <1>4, <1>6, <1>8 DEF OffersCounted

LEMMA AnsweringKeepsOffers ==
    ASSUME DeliveryType, DeliveryType', WorksOnNewest, OffersCounted,
           NEW c \in DOMAIN briefs, Press(c) \/ Reply(c)
    PROVE  OffersCounted'
<1>1. /\ UNCHANGED <<briefs, sends, shown, work, whole>>
      /\ early \subseteq early' /\ (work # AtRest /\ work.brief = c => c \in early')
      /\ c \in BriefIds /\ DOMAIN briefs \subseteq BriefIds /\ whole \subseteq BriefIds
      /\ answers'[c] = answers[c] + 1
      /\ \A b \in BriefIds : b # c => /\ answers'[b] = answers[b] /\ replies'[b] = replies[b]
                                      /\ offers'[b] = offers[b]
  BY BriefsAreNumbered DEF Press, Reply, Answering, DeliveryType
<1>2. \/ offers'[c] = offers[c]
      \/ PendingOffers(c) = {} /\ offers'[c] = Append(offers[c], "pending")
  BY <1>1 DEF Press, Reply, DeliveryType
<1>3. /\ offers[c] \in Seq(OfferStates) /\ Len(offers[c]) \in Nat /\ answers[c] \in Nat
      /\ \A b \in BriefIds : /\ offers'[b] = <<>> => offers[b] = <<>>
  <2>1. \A b \in BriefIds : offers[b] \in Seq(OfferStates)
    BY OffersAreRows
  <2>2. Append(offers[c], "pending") # <<>>
    BY <1>1, <2>1, AppendProperties DEF OfferStates
  <2> QED BY <1>1, <1>2, <2>1, <2>2, OffersAreRows
<1>4. c \notin early' => OneWaits(c)' /\ Len(offers'[c]) <= 1 + answers'[c]
  <2> SUFFICES ASSUME c \notin early' PROVE OneWaits(c)' /\ Len(offers'[c]) <= 1 + answers'[c]
    OBVIOUS
  <2>1. OneWaits(c) /\ Len(offers[c]) <= 1 + answers[c]
    BY <1>1 DEF OffersCounted, OffersWithinAnswers
  <2>2. CASE offers'[c] = offers[c]
    BY <1>1, <1>3, <2>1, <2>2, OffersFramed
  <2>3. CASE PendingOffers(c) = {} /\ offers'[c] = Append(offers[c], "pending")
    <3>1. /\ Len(offers'[c]) = Len(offers[c]) + 1
          /\ DOMAIN offers'[c] = 1..(Len(offers[c]) + 1) /\ DOMAIN offers[c] = 1..Len(offers[c])
          /\ \A n \in 1..Len(offers[c]) : offers'[c][n] = offers[c][n]
      BY <1>3, <2>3
    <3>2. \A n \in PendingOffers(c)' : n = Len(offers[c]) + 1
      BY <1>3, <2>3, <3>1 DEF PendingOffers
    <3> QED BY <1>1, <1>3, <2>1, <3>1, <3>2 DEF OneWaits
  <2> QED BY <1>2, <2>2, <2>3
<1>5. \A b \in DOMAIN briefs \ early' : OneWaits(b)' /\ Len(offers'[b]) <= 1 + answers'[b]
  <2> SUFFICES ASSUME NEW b \in DOMAIN briefs \ early', b # c
               PROVE  OneWaits(b)' /\ Len(offers'[b]) <= 1 + answers'[b]
    BY <1>4
  <2>1. OneWaits(b) /\ Len(offers[b]) <= 1 + answers[b] /\ b \in BriefIds
    BY <1>1 DEF OffersCounted, OffersWithinAnswers
  <2>2. offers'[b] = offers[b] /\ answers'[b] = answers[b]
    BY <1>1, <2>1
  <2> QED BY <2>1, <2>2, OffersFramed
<1>6. NewBriefsAreBare'
  BY <1>1 DEF OffersCounted, NewBriefsAreBare
<1>7. work.step \in Delivering => work.brief \in BriefIds /\ work # AtRest
  BY AtWork DEF AtRest, Delivering
<1>8. UnansweredAtWork'
  BY <1>1, <1>7 DEF OffersCounted, UnansweredAtWork
<1>9. \A b, ch : ReachedBy(b, ch)' <=> ReachedBy(b, ch)
  BY <1>1, PairFramed
<1>10. ReachedHasOffer'
  BY <1>1, <1>3, <1>7, <1>9 DEF OffersCounted, ReachedHasOffer, Mode, Route
<1> QED BY <1>1, <1>5, <1>6, <1>8, <1>10 DEF OffersCounted, OffersWithinAnswers

LEMMA ComposingKeepsOffers ==
    ASSUME DeliveryType, DeliveryType', WorksOnNewest, OffersCounted,
           \/ \E mode \in Modes : Compose(mode)
           \/ \E b \in DOMAIN briefs : ComposeRefinement(b)
           \/ UpdateRefineMetadata
    PROVE  OffersCounted'
<1> USE DEF OffersCounted
<1>0. DOMAIN briefs \subseteq BriefIds /\ DOMAIN briefs' \subseteq BriefIds
  <2>1. ASSUME NEW s, s \in Seq(Briefs), Len(s) <= MaxBriefs PROVE DOMAIN s \subseteq BriefIds
    <3>1. DOMAIN s = 1..Len(s) /\ Len(s) \in Nat
      BY <2>1
    <3> QED BY <2>1, <3>1, DeliveryAssumption DEF BriefIds
  <2> QED BY <2>1 DEF DeliveryType
<1>1. ASSUME NEW brief \in Briefs, briefs' = Append(briefs, brief),
             work'.step = "depth" \/ (work'.step = "gate" /\ work'.n = 1),
             work'.brief = Len(briefs) + 1,
             UNCHANGED <<sends, shown, offers, replies, answers, whole, early>>
      PROVE  OffersCounted'
  <2> DEFINE b == Len(briefs) + 1
  <2>1. /\ DOMAIN briefs' = DOMAIN briefs \cup {b} /\ b \notin DOMAIN briefs
        /\ \A c \in DOMAIN briefs : briefs'[c] = briefs[c]
    BY <1>1, AppendToBriefs
  <2>2. offers[b] = <<>> /\ replies[b] = 0 /\ answers[b] = 0
    BY <1>0, <2>1 DEF NewBriefsAreBare
  <2>3. \A c \in BriefIds : OneWaits(c)' <=> OneWaits(c)
    BY <1>1, OffersFramed
  <2>4. OneWaits(b)
    BY <2>2 DEF OneWaits, PendingOffers
  <2>5. NewBriefsAreBare'
    BY <1>1, <2>1 DEF NewBriefsAreBare
  <2>6. OffersWithinAnswers'
    <3>1. Len(offers[b]) <= 1 + answers[b]
      BY <2>2
    <3> QED BY <1>0, <1>1, <2>1, <2>3, <2>4, <3>1 DEF OffersWithinAnswers
  <2>7. UnansweredAtWork'
    BY <1>1, <2>2 DEF UnansweredAtWork, Delivering
  <2>8. \A c, ch : ReachedBy(c, ch)' <=> ReachedBy(c, ch)
    BY <1>1, PairFramed
  <2>9. \A n \in DOMAIN Route' : ~(n < 1)
    BY RoutesAreApart DEF Route
  <2>10. ReachedHasOffer'
    BY <1>1, <2>1, <2>8, <2>9 DEF ReachedHasOffer, DeliveryType, Delivering
  <2> QED BY <2>5, <2>6, <2>7, <2>10
<1>2. ASSUME NEW mode \in Modes, Compose(mode) PROVE OffersCounted'
  <2>1. [mode |-> mode, depth |-> 0, chain |-> 0] \in Briefs
    BY DeliveryAssumption DEF Briefs
  <2>2. /\ briefs' = Append(briefs, [mode |-> mode, depth |-> 0, chain |-> 0])
        /\ work'.step = "gate" /\ work'.n = 1 /\ work'.brief = Len(briefs) + 1
        /\ UNCHANGED <<sends, shown, offers, replies, answers, whole, early>>
    BY <1>2 DEF Compose, InsertBrief, Working
  <2> QED BY <1>1, <2>1, <2>2
<1>3. ASSUME NEW c \in DOMAIN briefs, ComposeRefinement(c) PROVE OffersCounted'
  <2> DEFINE brief == [mode |-> "refined", depth |-> 0, chain |-> briefs[c].chain + 1]
  <2>1. /\ briefs' = Append(briefs, brief) /\ brief \in Briefs
        /\ work'.step = "depth" /\ work'.brief = Len(briefs) + 1
        /\ UNCHANGED <<sends, shown, offers, replies, answers, whole, early>>
    BY <1>3, BriefsAreNumbered DEF ComposeRefinement, InsertBrief, Working, Briefs, AllModes
  <2> HIDE DEF brief
  <2> QED BY <1>1, <2>1
<1>4. CASE UpdateRefineMetadata
  <2>1. /\ work.step = "depth" /\ work # AtRest /\ work.brief \in DOMAIN briefs
        /\ briefs[work.brief].mode = "refined"
    BY <1>4, AtWork DEF UpdateRefineMetadata, AtRest, WorksOnNewest
  <2>2. /\ briefs' = [briefs EXCEPT ![work.brief].depth = work.depth]
        /\ work'.step = "rest" /\ whole' = whole \cup {work.brief}
        /\ UNCHANGED <<sends, shown, offers, replies, answers, early>>
    BY <1>4 DEF UpdateRefineMetadata, AtRest
  <2>3. /\ DOMAIN briefs' = DOMAIN briefs
        /\ \A b \in DOMAIN briefs : briefs'[b].mode = briefs[b].mode
    BY <2>1, <2>2, BriefsAreNumbered DEF Briefs
  <2>4. \A c \in BriefIds : OneWaits(c)' <=> OneWaits(c)
    BY <2>2, OffersFramed
  <2>5. \A c, ch : ReachedBy(c, ch)' <=> ReachedBy(c, ch)
    BY <2>2, PairFramed
  <2>6. NewBriefsAreBare' /\ OffersWithinAnswers' /\ UnansweredAtWork'
    BY <1>0, <2>2, <2>3, <2>4 DEF NewBriefsAreBare, OffersWithinAnswers, UnansweredAtWork, Delivering
  <2>7. ReachedHasOffer'
    BY <2>1, <2>2, <2>3, <2>5 DEF ReachedHasOffer, DeliveryType, Delivering
  <2> QED BY <2>6, <2>7
<1> QED BY <1>2, <1>3, <1>4

\* A channel is done with: whoever it reached has an offer by now.
LEMMA DoneIsOffered ==
    ASSUME DeliveryType, DeliveryType', WorksOnNewest, ChannelsInOrder, OffersCounted,
           Deliver, NextChannel,
           NEW b, NEW ch, b = work.brief, ch = Channel,
           b \notin early, Mode = "event_alert", ReachedBy(b, ch)'
    PROVE  offers'[b] # <<>>
<1>1. /\ work.step \in Delivering /\ b \in BriefIds
      /\ Here = <<b, ch>> /\ Here \in BriefIds \X ChannelSet /\ HandledSoFar(b, ch)
  BY DeliverIsOnTheWay, ChannelInHand, AtWork DEF OnTheWay, AtRest, Delivering
<1>2. \A result \in SendStates : InsertDelivery(result) =>
         sends'[<<b, ch>>] = Append(sends[<<b, ch>>], result)
  BY <1>1, InsertDeliveryType
<1>3. sends'[<<b, ch>>] = <<"sent">>
  BY DEF ReachedBy
<1>4. /\ <<"skipped">> # <<"sent">> /\ <<"failed">> # <<"sent">>
      /\ <<"sent", "failed">> # <<"sent">>
  <2>1. /\ <<"skipped">>[1] = "skipped" /\ <<"failed">>[1] = "failed" /\ <<"sent">>[1] = "sent"
        /\ Len(<<"sent", "failed">>) = 2 /\ Len(<<"sent">>) = 1
    BY RowForms
  <2> QED BY <2>1
<1>5. ~Gate /\ ~SendImpl
  <2>1. ASSUME Gate PROVE FALSE
    <3>1. sends[<<b, ch>>] = <<>>
      BY <1>1, <2>1 DEF Gate, HandledSoFar
    <3>2. CASE Skipped(work.brief, Channel)
      BY <1>2, <1>3, <1>4, <2>1, <3>1, <3>2, RowForms DEF Gate, SendStates
    <3>3. CASE ~Skipped(work.brief, Channel)
      <4>1. sends' = sends
        BY <2>1, <3>3 DEF Gate
      <4>2. Len(<<"sent">>) = 1 /\ Len(<<>>) = 0
        BY RowForms
      <4> QED BY <1>3, <3>1, <4>1, <4>2
    <3> QED BY <3>2, <3>3
  <2>2. ASSUME SendImpl PROVE FALSE
    <3>1. sends' = sends /\ sends[<<b, ch>>] = <<>>
      BY <1>1, <2>2 DEF SendImpl, HandledSoFar
    <3>2. Len(<<"sent">>) = 1 /\ Len(<<>>) = 0
      BY RowForms
    <3> QED BY <1>3, <3>1, <3>2
  <2> QED BY <2>1, <2>2
<1>6. ~SendFails /\ ~SendRowFails /\ ~RenderFails
  <2>1. ASSUME SendFails \/ RenderFails PROVE FALSE
    BY <1>1, <1>2, <1>3, <1>4, <2>1, RowForms DEF SendFails, RenderFails, HandledSoFar, SendStates
  <2>2. ASSUME SendRowFails PROVE FALSE
    <3>1. sends[<<b, ch>>] \in {<<>>, <<"sent">>}
      BY <1>1 DEF HandledSoFar
    <3>2. sends'[<<b, ch>>] = Append(sends[<<b, ch>>], "failed")
      BY <1>2, <2>2 DEF SendRowFails, SendStates
    <3>3. CASE sends[<<b, ch>>] = <<>>
      BY <1>3, <1>4, <3>2, <3>3, RowForms
    <3>4. CASE sends[<<b, ch>>] = <<"sent">>
      BY <1>3, <1>4, <3>2, <3>4, RowForms
    <3> QED BY <3>1, <3>3, <3>4
  <2> QED BY <2>1, <2>2
<1>7. ASSUME SentRow PROVE FALSE
  <2>1. work.step = "row" /\ work'.step = "count"
    <3>1. work' = [work EXCEPT !.step = "count"]
      BY <1>7 DEF SentRow
    <3> QED BY <1>1, <1>7, <3>1, StepOn DEF SentRow, Delivering
  <2>2. work'.step \in {"gate", "rest"}
    BY <1>1, NextChannelType DEF AtRest
  <2> QED BY <2>1, <2>2
<1>8. CASE EnsureCounts
  <2>1. CASE CountActions(work.brief) > 0
    <3>1. replies[b] = 0 /\ offers' = offers
      BY <1>1, <1>8 DEF OffersCounted, UnansweredAtWork, EnsureCounts
    <3>2. Len(offers[b]) \in Nat /\ (offers[b] = <<>> => Len(offers[b]) = 0)
      BY <1>1, OffersAreRows
    <3>3. Len(offers[b]) > 0
      BY <2>1, <3>1, <3>2 DEF CountActions
    <3> QED BY <3>1, <3>2, <3>3
  <2>2. CASE ~(CountActions(work.brief) > 0)
    <3>1. work' = [work EXCEPT !.step = "offer"]
      BY <1>8, <2>2 DEF EnsureCounts
    <3>2. work'.step = "offer"
      BY <1>1, <3>1, StepOn DEF Delivering
    <3>3. work'.step \in {"gate", "rest"}
      BY <1>1, NextChannelType DEF AtRest
    <3> QED BY <3>2, <3>3
  <2> QED BY <2>1, <2>2
<1>9. CASE EnsureInserts
  <2>1. offers'[b] = Append(offers[b], "pending") /\ offers[b] \in Seq(OfferStates)
    BY <1>1, <1>9, OffersAreRows DEF EnsureInserts, DeliveryType
  <2> QED BY <2>1, AppendProperties DEF OfferStates
<1> QED BY <1>5, <1>6, <1>7, <1>8, <1>9 DEF Deliver

\* What a step of the delivery does to the offers.
LEMMA DeliverOffers ==
    ASSUME DeliveryType, DeliveryType', WorksOnNewest, OffersCounted, Deliver,
           NEW b, b = work.brief
    PROVE  /\ UNCHANGED <<replies, answers, early>>
           /\ \A c \in BriefIds : c # b => offers'[c] = offers[c]
           /\ \/ offers' = offers
              \/ b \notin early => OneWaits(b)' /\ Len(offers'[b]) = 1
           /\ \A c \in BriefIds : offers'[c] = <<>> => offers[c] = <<>>
           /\ work'.step = "offer" /\ b \notin early => offers'[b] = <<>>
<1>1. work.step \in Delivering /\ b \in BriefIds /\ OnTheWay
  BY DeliverIsOnTheWay, AtWork DEF OnTheWay, AtRest, Delivering
<1>2. UNCHANGED <<replies, answers, early>>
  BY DEF Deliver, Gate, RenderFails, SendImpl, SendFails, SentRow, EnsureCounts, EnsureInserts, SendRowFails
<1>3. NextChannel => work'.step # "offer"
  BY <1>1, NextChannelType DEF AtRest
<1>4. CASE EnsureInserts
  <2>1. offers'[b] = Append(offers[b], "pending") /\ offers[b] \in Seq(OfferStates)
        /\ \A c \in BriefIds : c # b => offers'[c] = offers[c]
    BY <1>1, <1>4, OffersAreRows DEF EnsureInserts, DeliveryType
  <2>2. offers'[b] # <<>>
    BY <2>1, AppendProperties DEF OfferStates
  <2>3. ASSUME b \notin early PROVE OneWaits(b)' /\ Len(offers'[b]) = 1
    <3>1. offers[b] = <<>>
      BY <1>4, <2>3 DEF OffersCounted, UnansweredAtWork, EnsureInserts, Delivering
    <3>2. offers'[b] = <<"pending">>
      BY <2>1, <3>1, RowForms
    <3>3. Len(offers'[b]) = 1 /\ DOMAIN offers'[b] = {1}
      BY <3>2
    <3> QED BY <3>3 DEF OneWaits, PendingOffers
  <2>4. work'.step # "offer"
    BY <1>3, <1>4 DEF EnsureInserts
  <2> QED BY <1>2, <2>1, <2>2, <2>3, <2>4
<1>5. CASE EnsureCounts
  <2>1. offers' = offers
    BY <1>5 DEF EnsureCounts
  <2>2. work'.step = "offer" => ~(CountActions(b) > 0)
    BY <1>3, <1>5 DEF EnsureCounts
  <2>3. Len(offers[b]) \in Nat /\ replies[b] \in Nat /\ (Len(offers[b]) = 0 => offers[b] = <<>>)
    BY <1>1, OffersAreRows
  <2>4. ~(CountActions(b) > 0) => Len(offers[b]) = 0
    BY <2>3 DEF CountActions
  <2> QED BY <1>2, <2>1, <2>2, <2>3, <2>4
<1>6. CASE Gate \/ RenderFails \/ SendImpl \/ SendFails \/ SentRow \/ SendRowFails
  <2>1. offers' = offers
    BY <1>6 DEF Gate, RenderFails, SendImpl, SendFails, SentRow, SendRowFails
  <2>2. \A st \in {"send", "row", "count"} : work' = [work EXCEPT !.step = st] => work'.step # "offer"
    BY <1>1, StepOn DEF Delivering
  <2>3. work'.step # "offer"
    BY <1>3, <1>6, <2>2 DEF Gate, RenderFails, SendImpl, SendFails, SentRow, SendRowFails
  <2> QED BY <1>2, <2>1, <2>3
<1> QED BY <1>4, <1>5, <1>6 DEF Deliver

\* Where a step of the delivery leads: to the next channel, or on with this one.
LEMMA DeliverGoesOn ==
    ASSUME DeliveryType, WorksOnNewest, OffersCounted, Deliver
    PROVE  /\ NextChannel \/ (/\ work'.step \in Delivering /\ work'.brief = work.brief
                              /\ work'.n = work.n /\ whole' = whole)
           /\ work'.step \in {"count", "offer"} => Mode = "event_alert"
<1>1. work.step \in Delivering
  BY DeliverIsOnTheWay DEF OnTheWay
<1>2. \A st \in Delivering : work' = [work EXCEPT !.step = st] =>
         work'.step = st /\ work'.brief = work.brief /\ work'.n = work.n
  BY <1>1, StepOn
<1>3. NextChannel => work'.step \in {"gate", "rest"}
  BY <1>1, NextChannelType DEF AtRest
<1>4. work.step \in {"count", "offer"} => Mode = "event_alert"
  BY DEF OffersCounted, ReachedHasOffer
<1>5. CASE Gate \/ RenderFails \/ SendImpl \/ SendFails \/ SendRowFails
  <2>1. \/ NextChannel
        \/ whole' = whole /\ \E st \in {"send", "row"} : work' = [work EXCEPT !.step = st]
    BY <1>5 DEF Gate, RenderFails, SendImpl, SendFails, SendRowFails
  <2> QED BY <1>2, <1>3, <2>1 DEF Delivering
<1>6. CASE SentRow
  <2>1. NextChannel \/ (Mode = "event_alert" /\ whole' = whole /\ work' = [work EXCEPT !.step = "count"])
    BY <1>6 DEF SentRow
  <2> QED BY <1>2, <1>3, <2>1 DEF Delivering
<1>7. CASE EnsureCounts \/ EnsureInserts
  <2>1. NextChannel \/ (whole' = whole /\ work' = [work EXCEPT !.step = "offer"])
    BY <1>7 DEF EnsureCounts, EnsureInserts
  <2>2. Mode = "event_alert"
    BY <1>4, <1>7 DEF EnsureCounts, EnsureInserts
  <2> QED BY <1>2, <1>3, <2>1, <2>2 DEF Delivering
<1> QED BY <1>5, <1>6, <1>7 DEF Deliver

LEMMA DeliverKeepsOffers ==
    ASSUME DeliveryType, DeliveryType', WorksOnNewest, ChannelsInOrder, OffersCounted, Deliver
    PROVE  OffersCounted'
<1>1. PICK b, ch : b = work.brief /\ ch = Channel
  OBVIOUS
<1>2. /\ OnTheWay /\ OnlyHere /\ work.step \in Delivering /\ work # AtRest
      /\ b \in DOMAIN briefs /\ b \in BriefIds /\ b \notin whole /\ briefs' = briefs
      /\ DOMAIN briefs \subseteq BriefIds /\ whole \subseteq BriefIds
      /\ work.n \in DOMAIN Route
  <2>1. OnTheWay /\ OnlyHere
    BY DeliverIsOnTheWay, DeliverWritesHere
  <2>2. work.step \in Delivering /\ work # AtRest /\ briefs' = briefs
    BY <2>1 DEF OnTheWay, AtRest, Delivering
  <2> QED BY <1>1, <2>1, <2>2, AtWork, BriefsAreNumbered DEF DeliveryType
<1>3. /\ UNCHANGED <<replies, answers, early>>
      /\ \A c \in BriefIds : c # b => offers'[c] = offers[c]
      /\ \/ offers' = offers
         \/ b \notin early => OneWaits(b)' /\ Len(offers'[b]) = 1
      /\ \A c \in BriefIds : offers'[c] = <<>> => offers[c] = <<>>
      /\ work'.step = "offer" /\ b \notin early => offers'[b] = <<>>
  BY <1>1, DeliverOffers
<1>4. NewBriefsAreBare'
  BY <1>2, <1>3 DEF OffersCounted, NewBriefsAreBare
<1>5. OffersWithinAnswers'
  <2> SUFFICES ASSUME NEW c \in DOMAIN briefs, c \notin early
               PROVE  OneWaits(c)' /\ Len(offers'[c]) <= 1 + answers[c]
    BY <1>2, <1>3 DEF OffersWithinAnswers
  <2>1. c \in BriefIds /\ OneWaits(c) /\ Len(offers[c]) <= 1 + answers[c] /\ answers[c] \in Nat
    BY <1>2, OffersAreRows DEF OffersCounted, OffersWithinAnswers
  <2>2. CASE offers'[c] = offers[c]
    BY <2>1, <2>2, OffersFramed
  <2>3. CASE c = b /\ OneWaits(b)' /\ Len(offers'[b]) = 1
    <3>1. PICK k \in Nat : k = answers[c]
      BY <2>1
    <3>2. 1 <= 1 + k
      OBVIOUS
    <3>3. Len(offers'[c]) <= 1 + answers[c]
      BY <2>3, <3>1, <3>2
    <3>4. OneWaits(c)'
      BY <2>3
    <3> QED BY <3>3, <3>4
  <2> QED BY <1>3, <2>1, <2>2, <2>3
<1>6. work' # AtRest => work'.brief = b
  BY <1>1, <1>2 DEF OnTheWay
<1>7. work'.step \in Delivering => work' # AtRest
  BY DEF AtRest, Delivering
<1>8. UnansweredAtWork'
  BY <1>1, <1>2, <1>3, <1>6, <1>7 DEF OffersCounted, UnansweredAtWork
<1>9. ASSUME NEW c \in BriefIds, NEW k \in ChannelSet, c # b \/ k # ch
      PROVE  ReachedBy(c, k)' <=> ReachedBy(c, k)
  <2>1. <<c, k>> # Here
    BY <1>1, <1>9 DEF Here
  <2> QED BY <1>2, <2>1, PairFramed DEF OnlyHere
<1>0. PICK route : route = Route
  OBVIOUS
<1>10. \A n \in DOMAIN Route :
          /\ route[n] \in ChannelSet /\ n \in Nat
          /\ route[n] = ch <=> n = work.n
  BY <1>0, <1>1, <1>2, ChannelsAreApart DEF Channel
<1>11. ASSUME b \notin early, Mode = "event_alert"
       PROVE  /\ \A n \in DOMAIN Route : n < work.n /\ ReachedBy(b, route[n])' => offers'[b] # <<>>
              /\ NextChannel /\ ReachedBy(b, ch)' => offers'[b] # <<>>
  <2>1. \A n \in DOMAIN Route : n < work.n /\ ReachedBy(b, route[n]) => offers[b] # <<>>
    BY <1>0, <1>1, <1>2, <1>11 DEF OffersCounted, ReachedHasOffer
  <2>2. \A n \in DOMAIN Route : n < work.n => route[n] # ch
    BY <1>2, <1>10, ChannelsAreApart
  <2>3. \A n \in DOMAIN Route : n < work.n => (ReachedBy(b, route[n])' <=> ReachedBy(b, route[n]))
    BY <1>2, <1>9, <1>10, <2>2
  <2>4. NextChannel /\ ReachedBy(b, ch)' => offers'[b] # <<>>
    BY <1>1, <1>11, DoneIsOffered
  <2> QED BY <1>2, <1>3, <2>1, <2>3, <2>4
<1>12. /\ NextChannel \/ (/\ work'.step \in Delivering /\ work'.brief = work.brief
                          /\ work'.n = work.n /\ whole' = whole)
       /\ work'.step \in {"count", "offer"} => Mode = "event_alert"
  BY DeliverGoesOn
<1>13. work'.step \in {"count", "offer"} => Mode' = "event_alert"
  <2>1. work'.step \in {"count", "offer"} => work'.brief = work.brief
    BY <1>1, <1>6, <1>7 DEF Delivering
  <2> QED BY <1>2, <1>12, <2>1 DEF Mode
<1>14. ASSUME work'.step \in Delivering, work'.brief \notin early', Mode' = "event_alert",
              NEW n \in DOMAIN Route, n < work'.n, ReachedBy(b, route[n])'
       PROVE  offers'[b] # <<>>
  <2>1. work'.brief = work.brief /\ b \notin early /\ Mode = "event_alert"
    BY <1>1, <1>2, <1>3, <1>6, <1>7, <1>14 DEF Mode
  <2>2. CASE NextChannel
    <3>1. work'.n = work.n + 1
      BY <1>2, <1>7, <1>14, <2>2, NextChannelType
    <3>2. n < work.n \/ n = work.n
      BY <1>2, <1>10, <1>14, <3>1, ChannelsAreApart
    <3>3. CASE n = work.n
      BY <1>1, <1>10, <1>11, <1>14, <2>1, <2>2, <3>3
    <3>4. CASE n < work.n
      BY <1>1, <1>11, <1>14, <2>1, <3>4
    <3> QED BY <3>2, <3>3, <3>4
  <2>3. CASE work'.n = work.n
    BY <1>1, <1>11, <1>14, <2>1, <2>3
  <2> QED BY <1>12, <2>2, <2>3
<1>15. ASSUME NEW c \in whole' \ early', NEW k \in ChannelSet, briefs'[c].mode = "event_alert",
              ReachedBy(c, k)'
       PROVE  offers'[c] # <<>>
  <2>1. CASE c \in whole
    <3>1. c # b /\ c \in BriefIds
      BY <1>2, <2>1
    <3>2. ReachedBy(c, k)
      BY <1>9, <1>15, <3>1
    <3>3. offers[c] # <<>>
      BY <1>2, <1>3, <1>15, <2>1, <3>2 DEF OffersCounted, ReachedHasOffer
    <3> QED BY <1>3, <3>1, <3>3
  <2>2. CASE c \notin whole
    <3>1. NextChannel
      BY <1>12, <2>2
    <3>2. work' = AtRest /\ whole' = whole \cup {b} /\ work.n = Len(Route)
      BY <1>1, <1>2, <2>2, <3>1, NextChannelType
    <3>3. c = b /\ b \notin early /\ Mode = "event_alert"
      BY <1>1, <1>2, <1>3, <1>15, <2>2, <3>2 DEF Mode
    <3>4. PICK n \in DOMAIN Route : k = route[n]
      BY <1>0, <3>3 DEF Route, ChannelsFor, ChannelSet
    <3>5. n < work.n \/ n = work.n
      BY <3>2, ChannelsAreApart
    <3>6. CASE n < work.n
      BY <1>11, <1>15, <3>3, <3>4, <3>6
    <3>7. CASE n = work.n
      BY <1>10, <1>11, <1>15, <3>1, <3>3, <3>4, <3>7
    <3> QED BY <3>5, <3>6, <3>7
  <2> QED BY <2>1, <2>2
<1>16. ReachedHasOffer'
  <2>1. work'.step \in Delivering => work'.brief = b /\ Route' = route
    BY <1>0, <1>1, <1>2, <1>6, <1>7, RouteStays
  <2> QED BY <1>0, <1>13, <1>14, <1>15, <2>1 DEF ReachedHasOffer
<1> QED BY <1>4, <1>5, <1>8, <1>16 DEF OffersCounted

LEMMA DyingKeepsOffers ==
    ASSUME DeliveryType, OffersCounted, ComposerDies PROVE OffersCounted'
<1>1. /\ UNCHANGED <<briefs, shown, sends, offers, replies, whole, early, answers>>
      /\ work'.step = "rest"
  BY DEF ComposerDies, AtRest
<1>2. \A b, ch : ReachedBy(b, ch)' <=> ReachedBy(b, ch)
  BY <1>1, PairFramed
<1>3. \A b : OneWaits(b)' <=> OneWaits(b)
  BY <1>1, OffersFramed
<1> QED BY <1>1, <1>2, <1>3 DEF OffersCounted, NewBriefsAreBare, OffersWithinAnswers,
        UnansweredAtWork, ReachedHasOffer, Delivering

LEMMA OffersKept ==
    ASSUME DeliveryType, DeliveryType', WorksOnNewest, ChannelsInOrder, OffersCounted, DeliveryNext
    PROVE  OffersCounted'
BY ClosingKeepsOffers, AnsweringKeepsOffers, ComposingKeepsOffers, DeliverKeepsOffers,
   DyingKeepsOffers DEF DeliveryNext
-----------------------------------------------------------------------------
LEMMA DeliveryInvKept == DeliveryInv /\ [DeliveryNext]_deliveryVars => DeliveryInv'
<1> SUFFICES ASSUME DeliveryInv, [DeliveryNext]_deliveryVars PROVE DeliveryInv'
  OBVIOUS
<1> USE DEF DeliveryInv
<1>1. CASE DeliveryNext
  <2>1. DeliveryType' /\ WorksOnNewest'
    BY <1>1, DeliveryTypeKept
  <2> QED BY <1>1, <2>1, ChainsKept, ChannelsKept, OffersKept
<1>2. CASE UNCHANGED deliveryVars
  <2>1. UNCHANGED <<briefs, shown, sends, offers, replies, quietNow, work, click,
                    whole, early, answers, mishaps>>
    BY <1>2 DEF deliveryVars
  <2>2. DeliveryType' /\ WorksOnNewest' /\ ChainsBounded'
    BY <2>1 DEF DeliveryType, WorksOnNewest, Route, Mode, ChainsBounded, DueDepth, Hidden
  <2>3. \A b, ch : /\ Recorded(b, ch)' <=> Recorded(b, ch)
                   /\ Untouched(b, ch)' <=> Untouched(b, ch)
                   /\ ReachedBy(b, ch)' <=> ReachedBy(b, ch)
                   /\ HandledSoFar(b, ch)' <=> HandledSoFar(b, ch)
    BY <2>1, PairFramed DEF HandledSoFar
  <2>4. ChannelsInOrder'
    <3>1. Route' = Route /\ \A b, ch : Due(b, ch)' <=> Due(b, ch)
      BY <2>1, RouteStays
    <3> QED BY <2>1, <2>3, <3>1 DEF ChannelsInOrder, WholeIsRecorded, NewIsUntouched, ChannelsByTurn
  <2>5. \A b : OneWaits(b)' <=> OneWaits(b)
    BY <2>1, OffersFramed
  <2>6. OffersCounted'
    BY <2>1, <2>3, <2>5 DEF OffersCounted, NewBriefsAreBare, OffersWithinAnswers,
       UnansweredAtWork, ReachedHasOffer, Mode, Route
  <2> QED BY <2>2, <2>4, <2>6
<1> QED BY <1>1, <1>2

\* The invariant of delivery: the channels of the brief at work, its offers and
\* the depth of its chain at every step of _deliver_*, handle_callback and
\* compose_refinement, crashes included.
THEOREM DeliveryInvHolds == DeliverySpec => []DeliveryInv
<1>1. DeliveryInit => DeliveryInv
  BY DeliveryInitInv
<1>2. DeliveryInv /\ [DeliveryNext]_deliveryVars => DeliveryInv'
  BY DeliveryInvKept
<1> QED BY <1>1, <1>2, PTL DEF DeliverySpec

\* A brief delivered to its end has the truth recorded of every channel its
\* mode goes to, whatever the number of channels and wherever a send or a
\* commit failed (_deliver_*, the digest's loop of cli/morning.py, base.send).
THEOREM ChannelsAreRecorded == DeliverySpec => []EveryChannelRecorded
<1>1. DeliveryInv => EveryChannelRecorded
  BY DEF DeliveryInv, ChannelsInOrder, WholeIsRecorded, EveryChannelRecorded, Recorded, SentRows
<1> QED BY <1>1, DeliveryInvHolds, PTL

\* An alert that reached somebody has its one offer, for any number of
\* channels, clicks and crashes (_ensure_pending_action, handle_callback).
THEOREM OffersAreSingle == DeliverySpec => []OneOfferEach
<1>1. DeliveryInv => OneOfferEach
  <2> SUFFICES ASSUME DeliveryInv, NEW b \in whole \ early, briefs[b].mode = "event_alert",
                      NEW ch \in ChannelSet, SentRows(b, ch) = <<"sent">>
               PROVE  Len(offers[b]) \in 1..(1 + answers[b]) /\ Cardinality(PendingOffers(b)) <= 1
    BY DEF OneOfferEach
  <2>1. b \in DOMAIN briefs /\ b \in BriefIds
    BY BriefsAreNumbered DEF DeliveryInv, DeliveryType
  <2>2. OneWaits(b) /\ Len(offers[b]) <= 1 + answers[b] /\ offers[b] # <<>>
    BY <2>1 DEF DeliveryInv, OffersCounted, OffersWithinAnswers, ReachedHasOffer, ReachedBy, SentRows
  <2>3. Len(offers[b]) \in Nat /\ Len(offers[b]) # 0 /\ answers[b] \in Nat
    BY <2>1, <2>2, OffersAreRows DEF DeliveryInv
  <2>4. Len(offers[b]) \in 1..(1 + answers[b])
    BY <2>2, <2>3
  <2>5. CASE PendingOffers(b) = {}
    <3>1. Cardinality(PendingOffers(b)) = 0
      BY <2>5, FS_EmptySet
    <3> QED BY <2>4, <3>1
  <2>6. CASE PendingOffers(b) # {}
    <3>1. PICK n : PendingOffers(b) = {n}
      BY <2>2, <2>6 DEF OneWaits
    <3>2. Cardinality(PendingOffers(b)) = 1
      BY <3>1, FS_Singleton
    <3> QED BY <2>4, <3>2
  <2> QED BY <2>5, <2>6
<1> QED BY <1>1, DeliveryInvHolds, PTL

\* Refinements end: for every max_depth and every number of crashes a chain is
\* no longer than the depths that were written allow (compose_refinement).
THEOREM ChainsAreCapped == DeliverySpec => []ChainIsCapped
<1>1. DeliveryInv => ChainIsCapped
  <2> SUFFICES ASSUME DeliveryInv, NEW b \in DOMAIN briefs
               PROVE  briefs[b].chain <= MaxDepth * (1 + mishaps)
    BY DEF ChainIsCapped
  <2>1. /\ DueDepth(b) <= MaxDepth /\ briefs[b].chain <= DueDepth(b) + Hidden
        /\ briefs[b] \in Briefs /\ mishaps \in Nat /\ MaxDepth \in Nat
    BY BriefsAreNumbered, DeliveryAssumption DEF DeliveryInv, ChainsBounded, DeliveryType
  <2>2. DueDepth(b) \in Nat /\ briefs[b].chain \in Nat
    <3>1. briefs[b].depth \in Nat /\ briefs[b].chain \in Nat
      BY <2>1 DEF Briefs
    <3>2. work.step = "depth" => work.depth \in Nat
      BY DEF DeliveryInv, DeliveryType, Works, AtRest
    <3> QED BY <3>1, <3>2 DEF DueDepth
  <2>3. Hidden \in Nat /\ MaxDepth * (1 + mishaps) = MaxDepth + Hidden
    BY <2>1, HiddenGrows
  <2>4. \A x : x = MaxDepth + Hidden => briefs[b].chain <= x
    BY <2>1, <2>2, <2>3
  <2> QED BY <2>3, <2>4
<1> QED BY <1>1, DeliveryInvHolds, PTL
=============================================================================
