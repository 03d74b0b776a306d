---------------------------- MODULE SensingProofs ---------------------------
(***************************************************************************)
(* Proofs about the sensing layer, for every number of sources, consumers, *)
(* entries, deliveries and faults.  The triage daemon: nothing leaves the  *)
(* stream without a trace, a duplicate names an older row that was scored, *)
(* and scored rows get their tickers up to the faults.  The adapters: what *)
(* a cursor has passed was published, and an item is published again only  *)
(* after an abort.  The composition is a refinement of the daemon fed by   *)
(* anyone, so what is proved of the daemon holds of the two together.      *)
(***************************************************************************)
EXTENDS Sensing, SequenceTheorems, FiniteSetTheorems, TLAPS

(***************************************************************************)
(* The triage daemon.  The invariant says of each consumer what it has     *)
(* written at its place in the code; what is written, the rows and the     *)
(* dead-letter copies, only grows, so a step of one consumer leaves the    *)
(* others' facts alone.                                                    *)
(***************************************************************************)
Places == {"idle", "read", "claimed", "bury", "stage1", "stage2", "score", "hash", "embed",
           "tickers", "ack"}
Row == [entry : Entries, status : {"scored", "duplicate", "deferred"}, of : Nat]
HasRow(e) == \E r \in Rows : events[r].entry = e
IsScored(r) == r \in Rows /\ Scored(r)

ConsumerOK(c) ==
    /\ pc[c] \notin {"idle", "read"} => todo[c] # <<>>
    /\ pc[c] = "bury" => dead[Entry(c)] > 0
    /\ pc[c] \in {"hash", "embed", "tickers", "ack"} => HasRow(Entry(c))
    /\ pc[c] \in {"hash", "embed", "tickers"} => IsScored(row[c])

TraceInv == AckedLeavesTrace /\ \A e \in reaping : dead[e] > 0

RefInv ==
    /\ \A f \in Fingerprints : fp[f] # NoRow => IsScored(fp[f])
    /\ \A r \in vectors : IsScored(r)
    /\ DuplicateOfScored

TriageInv ==
    TriageTypeOK /\ (\A c \in Consumers : ConsumerOK(c)) /\ TraceInv /\ RefInv

\* What a step adds: a row, a copy, or nothing.
Adds ==
    /\ events' = events \/ \E x \in Row : events' = Append(events, x)
    /\ dead' = dead \/ \E e \in Entries : dead' = [dead EXCEPT ![e] = @ + 1]
-----------------------------------------------------------------------------
LEMMA Counts ==
    /\ MaxEntries \in Nat /\ MaxDeliveries \in Nat /\ MaxDeliveries > 0
    /\ Batch \in Nat /\ Batch > 0 /\ MaxFaults \in Nat
    /\ Entries \subseteq Nat /\ NoRow = 0
BY TriageAssumption DEF Entries, NoRow

LEMMA RowsAreIndices ==
    ASSUME TriageTypeOK
    PROVE  /\ Rows = 1..Len(events) /\ Len(events) \in Nat
           /\ NoRow \notin Rows /\ Rows \subseteq Nat
           /\ \A r \in Rows : events[r] \in Row
<1>1. events \in Seq(Row)
  BY DEF TriageTypeOK, Row
<1>2. DOMAIN events = 1..Len(events) /\ Len(events) \in Nat
  BY <1>1
<1>3. \A r \in 1..Len(events) : events[r] \in Row
  BY <1>1
<1> QED BY <1>2, <1>3 DEF Rows, NoRow

LEMMA AppendsRow ==
    ASSUME TriageTypeOK, NEW x \in Row, events' = Append(events, x)
    PROVE  /\ events' \in Seq(Row) /\ Rows' = 1 .. Len(events) + 1 /\ Rows \subseteq Rows'
           /\ Len(events) + 1 \in Rows' /\ Len(events) + 1 \notin Rows
           /\ \A r \in Rows : events'[r] = events[r]
           /\ events'[Len(events) + 1] = x
<1>1. events \in Seq(Row) /\ Len(events) \in Nat /\ Rows = 1..Len(events)
  BY RowsAreIndices DEF TriageTypeOK, Row
<1> QED BY <1>1 DEF Rows

LEMMA WhatIsWrittenStays ==
    ASSUME TriageTypeOK, Adds
    PROVE  /\ Rows \subseteq Rows' /\ \A r \in Rows : events'[r] = events[r]
           /\ \A r : IsScored(r) => IsScored(r)'
           /\ \A e : HasRow(e) => HasRow(e)'
           /\ \A e \in Entries : dead[e] > 0 => dead'[e] > 0
<1>1. Rows \subseteq Rows' /\ \A r \in Rows : events'[r] = events[r]
  BY AppendsRow DEF Adds, Rows
<1>2. \A e \in Entries : dead[e] > 0 => dead'[e] > 0
  <2>1. dead \in [Entries -> Nat]
    BY DEF TriageTypeOK
  <2>2. CASE dead' = dead
    BY <2>2
  <2>3. ASSUME NEW x \in Entries, dead' = [dead EXCEPT ![x] = @ + 1]
        PROVE  \A e \in Entries : dead[e] > 0 => dead'[e] > 0
    BY <2>1, <2>3
  <2> QED BY <2>2, <2>3 DEF Adds
<1>3. \A r : IsScored(r) => IsScored(r)'
  BY <1>1 DEF IsScored, Scored
<1>4. \A e : HasRow(e) => HasRow(e)'
  BY <1>1 DEF HasRow
<1> QED BY <1>1, <1>2, <1>3, <1>4

LEMMA EntryOfHolder ==
    ASSUME TriageTypeOK, NEW c \in Consumers, todo[c] # <<>>
    PROVE  /\ Entry(c) \in 1..read /\ Entry(c) \in Entries /\ Entry(c) \in 1..Len(stream)
           /\ Item(c) \in Items
<1>1. todo[c] \in Seq(1..read) /\ read \in 0..Len(stream) /\ Len(stream) \in Nat
      /\ Len(stream) <= MaxEntries /\ stream \in Seq(Items)
  BY DEF TriageTypeOK
<1>2. Entry(c) \in 1..read
  BY <1>1 DEF Entry
<1>3. Entry(c) \in Entries /\ Entry(c) \in 1..Len(stream)
  BY <1>1, <1>2, Counts DEF Entries
<1> QED BY <1>1, <1>2, <1>3 DEF Item

\* The consumers that do not move keep what is true of them.
LEMMA OthersKeep ==
    ASSUME TriageInv, Adds, NEW d \in Consumers,
           pc'[d] = pc[d], todo'[d] = todo[d], row'[d] = row[d]
    PROVE  ConsumerOK(d)'
<1>1. ConsumerOK(d)
  BY DEF TriageInv
<1>2. Entry(d)' = Entry(d)
  BY DEF Entry
<1>3. pc[d] = "bury" => Entry(d) \in Entries
  BY <1>1, EntryOfHolder DEF ConsumerOK, TriageInv
<1> QED BY <1>1, <1>2, <1>3, WhatIsWrittenStays DEF ConsumerOK, TriageInv

\* Nothing new is acknowledged.
LEMMA TraceKeeps ==
    ASSUME TriageInv, Adds, read' \in Nat,
           \A e \in Entries : Acked(e)' => Acked(e),
           reaping' \subseteq reaping
    PROVE  TraceInv'
<1>1. \A e \in reaping : e \in Entries
  BY EntryOfHolder, Counts DEF TriageInv, TriageTypeOK, Entries
<1>2. AckedLeavesTrace'
  <2> SUFFICES ASSUME NEW e \in Entries, Acked(e)' PROVE dead'[e] > 0 \/ HasRow(e)'
    BY DEF AckedLeavesTrace, HasRow
  <2>1. dead[e] > 0 \/ HasRow(e)
    BY DEF TriageInv, TraceInv, AckedLeavesTrace, HasRow
  <2> QED BY <2>1, WhatIsWrittenStays DEF TriageInv
<1> QED BY <1>1, <1>2, WhatIsWrittenStays DEF TriageInv, TraceInv

\* No row, fingerprint or vector is written.
LEMMA RefsKeep ==
    ASSUME RefInv, UNCHANGED <<events, fp>>, vectors' \subseteq vectors
    PROVE  RefInv'
BY DEF RefInv, IsScored, Scored, Rows, DuplicateOfScored
-----------------------------------------------------------------------------
LEMMA TriageInitInv == TriageInit => TriageInv
<1> SUFFICES ASSUME TriageInit PROVE TriageInv
  OBVIOUS
<1>1. Rows = {}
  BY DEF TriageInit, Rows
<1>2. TriageTypeOK
  BY <1>1, Counts DEF TriageInit, TriageTypeOK, Places
<1>3. \A c \in Consumers : ConsumerOK(c)
  BY DEF TriageInit, ConsumerOK
<1>4. TraceInv
  BY Counts DEF TriageInit, TraceInv, AckedLeavesTrace, Acked, Delivered, Entries
<1>5. RefInv
  BY <1>1 DEF TriageInit, RefInv, DuplicateOfScored
<1> QED BY <1>2, <1>3, <1>4, <1>5 DEF TriageInv
-----------------------------------------------------------------------------
(* The type invariant in parts, each untouched by most steps. *)
StreamTyped ==
    /\ stream \in Seq(Items) /\ Len(stream) <= MaxEntries
    /\ read \in 0..Len(stream)
    /\ pel \in [Entries -> Nat] /\ \A e \in Entries : e > read => pel[e] = 0
    /\ idle \subseteq Entries /\ \A e \in idle : pel[e] > 0
    /\ dead \in [Entries -> Nat]
StoreTyped ==
    /\ events \in Seq(Row) /\ fp \in [Fingerprints -> {NoRow} \cup Rows]
    /\ vectors \subseteq Rows /\ ticked \subseteq Rows
ConsumersTyped ==
    /\ pc \in [Consumers -> Places] /\ todo \in [Consumers -> Seq(1..read)]
    /\ phase \in [Consumers -> {"reclaim", "read"}]
    /\ row \in [Consumers -> {NoRow} \cup Rows]
RestTyped == reaping \subseteq 1..read /\ faultsLeft \in 0..MaxFaults

LEMMA TypeParts ==
    /\ TriageTypeOK <=> StreamTyped /\ StoreTyped /\ ConsumersTyped /\ RestTyped
    /\ TriageTypeOK' <=> StreamTyped' /\ StoreTyped' /\ ConsumersTyped' /\ RestTyped'
BY DEF TriageTypeOK, StreamTyped, StoreTyped, ConsumersTyped, RestTyped, Places, Row

LEMMA StreamKept == ASSUME StreamTyped, UNCHANGED streamVars PROVE StreamTyped'
BY DEF StreamTyped, streamVars

LEMMA StoreKept ==
    ASSUME StoreTyped, UNCHANGED <<events, fp, ticked>>, vectors' \subseteq vectors
    PROVE  StoreTyped' /\ Rows' = Rows
BY DEF StoreTyped, Rows

LEMMA FaultsCounted ==
    ASSUME RestTyped, UNCHANGED <<read, reaping>>,
           faultsLeft' = faultsLeft \/ (faultsLeft > 0 /\ faultsLeft' = faultsLeft - 1)
    PROVE  RestTyped'
BY Counts DEF RestTyped

\* The acting consumer only; the others are as they were.
Acts(c) ==
    \A d \in Consumers \ {c} : pc'[d] = pc[d] /\ todo'[d] = todo[d] /\ row'[d] = row[d]

\* The invariant after a step, from what the step is checked for.
LEMMA StepKeeps ==
    ASSUME TriageInv, NEW c \in Consumers, Acts(c), Adds,
           StreamTyped', StoreTyped', ConsumersTyped', RestTyped',
           ConsumerOK(c)', TraceInv', RefInv'
    PROVE  TriageInv'
<1>1. \A d \in Consumers : ConsumerOK(d)'
  BY OthersKeep DEF Acts
<1> QED BY <1>1, TypeParts DEF TriageInv

\* A consumer goes to a place that asks nothing but its entry.
LEMMA MovesOn ==
    ASSUME TriageInv, NEW c \in Consumers, NEW p \in {"idle", "read", "stage1", "stage2", "score"},
           p \notin {"idle", "read"} => todo[c] # <<>>,
           pc' = [pc EXCEPT ![c] = p],
           UNCHANGED <<streamVars, storeVars, todo, phase, row, reaping>>,
           faultsLeft' = faultsLeft \/ (faultsLeft > 0 /\ faultsLeft' = faultsLeft - 1)
    PROVE  TriageInv'
<1>1. StreamTyped' /\ StoreTyped' /\ RestTyped' /\ Rows' = Rows /\ read' = read
  BY TypeParts, StreamKept, StoreKept, FaultsCounted DEF TriageInv, streamVars, storeVars
<1>2. ConsumersTyped'
  BY <1>1, TypeParts DEF TriageInv, ConsumersTyped, Places
<1>3. Acts(c) /\ Adds
  BY TypeParts DEF TriageInv, ConsumersTyped, Acts, Adds, streamVars, storeVars
<1>4. pc'[c] = p
  BY TypeParts DEF TriageInv, ConsumersTyped
<1>5. ConsumerOK(c)'
  BY <1>4 DEF ConsumerOK
<1>6. TraceInv'
  BY TraceKeeps, <1>3, Counts, TypeParts DEF TriageInv, StreamTyped, Acked, Delivered, streamVars
<1>7. RefInv'
  BY RefsKeep DEF TriageInv, storeVars
<1> QED BY <1>1, <1>2, <1>3, <1>5, <1>6, <1>7, StepKeeps

\* Advance leaves its consumer at the next entry, or without one.
LEMMA AdvanceShape ==
    ASSUME TriageInv, NEW c \in Consumers, todo[c] # <<>>, Advance(c),
           read' = read, Rows \subseteq Rows'
    PROVE  ConsumersTyped' /\ Acts(c) /\ ConsumerOK(c)'
<1>1. ConsumersTyped
  BY TypeParts DEF TriageInv
<1>2. todo[c] \in Seq(1..read) /\ Len(todo[c]) \in Nat /\ Len(todo[c]) > 0
  BY <1>1 DEF ConsumersTyped
<1>3. Tail(todo[c]) \in Seq(1..read) /\ Len(Tail(todo[c])) = Len(todo[c]) - 1
  BY <1>2, HeadTailProperties
<1>4. pc'[c] \in {"claimed", "stage1", "read", "idle"}
      /\ (pc'[c] \in {"claimed", "stage1"} => Len(todo[c]) > 1)
  BY <1>1 DEF ConsumersTyped, Advance
<1>5. todo'[c] = Tail(todo[c])
  BY <1>1 DEF ConsumersTyped, Advance
<1>6. pc'[c] \in {"claimed", "stage1"} => todo'[c] # <<>>
  <2> DEFINE rest == Tail(todo[c])
  <2>1. rest \in Seq(1..read) /\ Len(rest) = Len(todo[c]) - 1 /\ todo'[c] = rest
    BY <1>3, <1>5
  <2> HIDE DEF rest
  <2>2. Len(todo[c]) > 1 => rest # <<>>
    BY <1>2, <2>1
  <2> QED BY <2>1, <2>2, <1>4
<1>7. ConsumerOK(c)'
  BY <1>4, <1>6 DEF ConsumerOK
<1>8. Acts(c)
  BY <1>1 DEF ConsumersTyped, Acts, Advance
<1>9. pc' \in [Consumers -> Places]
  BY <1>1 DEF ConsumersTyped, Advance, Places
<1>10. todo' \in [Consumers -> Seq(1..read)] /\ row' \in [Consumers -> {NoRow} \cup Rows']
       /\ phase' \in [Consumers -> {"reclaim", "read"}]
  BY <1>1, <1>3 DEF ConsumersTyped, Advance
<1> QED BY <1>7, <1>8, <1>9, <1>10 DEF ConsumersTyped
-----------------------------------------------------------------------------
(* The stream and the claims. *)

\* A step of the stream alone: no consumer moves, nothing new is acknowledged.
LEMMA StreamStep ==
    ASSUME TriageInv, StreamTyped', Adds, UNCHANGED <<storeVars, consumerVars, faultsLeft, read>>,
           RestTyped', TraceInv'
    PROVE  TriageInv'
<1>1. StoreTyped' /\ Rows' = Rows
  BY TypeParts, StoreKept DEF TriageInv, storeVars
<1>2. ConsumersTyped'
  BY <1>1, TypeParts DEF TriageInv, ConsumersTyped, consumerVars
<1>3. \A d \in Consumers : ConsumerOK(d)'
  BY OthersKeep DEF consumerVars
<1>4. RefInv'
  BY RefsKeep DEF TriageInv, storeVars
<1> QED BY <1>1, <1>2, <1>3, <1>4, TypeParts DEF TriageInv

LEMMA PublishKeeps == ASSUME TriageInv, NEW i \in Items, Publish(i) PROVE TriageInv'
<1>1. StreamTyped /\ RestTyped /\ read \in Nat /\ RestTyped'
  BY TypeParts DEF TriageInv, Publish, RestTyped, StreamTyped
<1>2. StreamTyped'
  <2>1. stream' \in Seq(Items) /\ Len(stream') = Len(stream) + 1 /\ Len(stream') <= MaxEntries
    BY <1>1, Counts DEF Publish, XAdd, StreamTyped
  <2> QED BY <1>1, <2>1 DEF Publish, StreamTyped
<1>3. Adds
  BY DEF Publish, Adds, storeVars
<1>4. TraceInv'
  BY <1>1, <1>3, TraceKeeps DEF Publish, Acked, Delivered
<1> QED BY <1>1, <1>2, <1>3, <1>4, StreamStep DEF Publish

LEMMA GoesIdleKeeps == ASSUME TriageInv, NEW e \in Entries, GoesIdle(e) PROVE TriageInv'
<1>1. StreamTyped /\ RestTyped /\ read \in Nat /\ RestTyped'
  BY TypeParts DEF TriageInv, GoesIdle, RestTyped, StreamTyped
<1>2. StreamTyped'
  BY <1>1 DEF GoesIdle, StreamTyped
<1>3. Adds
  BY DEF GoesIdle, Adds, storeVars
<1>4. TraceInv'
  BY <1>1, <1>3, TraceKeeps DEF GoesIdle, Acked, Delivered
<1> QED BY <1>1, <1>2, <1>3, <1>4, StreamStep DEF GoesIdle

\* The sweep copies an entry that was delivered, and acknowledges it later.
LEMMA ReapKeeps == ASSUME TriageInv, NEW e \in Entries, Reap(e) PROVE TriageInv'
<1>1. StreamTyped /\ RestTyped /\ read \in Nat
  BY TypeParts DEF TriageInv, StreamTyped
<1>2. StreamTyped' /\ dead'[e] > 0
  BY <1>1 DEF Reap, StreamTyped
<1>3. Adds
  BY DEF Reap, Adds, storeVars
<1>4. pel[e] > 0 /\ e \in 1..read
  BY <1>1, Counts DEF Reap, StreamTyped, Entries
<1>5. RestTyped'
  BY <1>1, <1>4 DEF Reap, RestTyped
<1>6. AckedLeavesTrace'
  <2> SUFFICES ASSUME NEW d \in Entries, Acked(d)' PROVE dead'[d] > 0 \/ HasRow(d)'
    BY DEF AckedLeavesTrace, HasRow
  <2>1. Acked(d)
    BY DEF Reap, Acked, Delivered
  <2>2. dead[d] > 0 \/ HasRow(d)
    BY <2>1 DEF TriageInv, TraceInv, AckedLeavesTrace, HasRow
  <2> QED BY <1>3, <2>2, WhatIsWrittenStays DEF TriageInv
<1>7. TraceInv'
  BY <1>2, <1>6 DEF TraceInv, Reap
<1> QED BY <1>2, <1>3, <1>5, <1>7, StreamStep DEF Reap

LEMMA AckTyped ==
    ASSUME StreamTyped, NEW e \in Entries, XAck(e), UNCHANGED <<stream, read, dead>>
    PROVE  StreamTyped' /\ \A d \in Entries : Acked(d)' => Acked(d) \/ d = e
<1>1. StreamTyped'
  BY DEF StreamTyped, XAck
<1>2. \A d \in Entries : d # e => pel'[d] = pel[d]
  BY DEF StreamTyped, XAck
<1> QED BY <1>1, <1>2 DEF Acked, Delivered

\* An entry with a row or a copy may be acknowledged.
LEMMA AckTraced ==
    ASSUME TriageInv, NEW e \in Entries, dead[e] > 0 \/ HasRow(e),
           XAck(e), UNCHANGED <<stream, read, dead, events>>, reaping' \subseteq reaping
    PROVE  StreamTyped' /\ TraceInv'
<1>1. StreamTyped' /\ \A d \in Entries : Acked(d)' => Acked(d) \/ d = e
  BY TypeParts, AckTyped DEF TriageInv
<1>2. \A d : HasRow(d)' <=> HasRow(d)
  BY DEF HasRow, Rows
<1>3. AckedLeavesTrace'
  BY <1>1, <1>2 DEF TriageInv, TraceInv, AckedLeavesTrace, HasRow
<1> QED BY <1>1, <1>3 DEF TriageInv, TraceInv

LEMMA ReapAckKeeps == ASSUME TriageInv, NEW e \in Entries, ReapAck(e) PROVE TriageInv'
<1>1. dead[e] > 0
  BY DEF TriageInv, TraceInv, ReapAck
<1>2. StreamTyped' /\ TraceInv'
  BY <1>1, AckTraced DEF ReapAck, storeVars
<1>3. RestTyped'
  BY TypeParts DEF TriageInv, RestTyped, ReapAck
<1>4. Adds
  BY DEF ReapAck, Adds, storeVars
<1> QED BY <1>2, <1>3, <1>4, StreamStep DEF ReapAck
-----------------------------------------------------------------------------
(* A consumer takes a batch. *)

\* The acting consumer has a batch and goes to work on it.
LEMMA TakesBatch ==
    ASSUME TriageInv, NEW c \in Consumers, NEW batch \in Seq(1..read'), batch # <<>>,
           NEW p \in {"claimed", "stage1"}, NEW f \in {"reclaim", "read"},
           todo' = [todo EXCEPT ![c] = batch], pc' = [pc EXCEPT ![c] = p],
           phase' = [phase EXCEPT ![c] = f], read' \in Nat, read <= read',
           UNCHANGED <<stream, dead, storeVars, row, reaping, faultsLeft>>,
           StreamTyped', \A e \in Entries : Acked(e)' => Acked(e)
    PROVE  TriageInv'
<1>1. StreamTyped /\ StoreTyped /\ ConsumersTyped /\ RestTyped /\ read \in Nat
  BY TypeParts DEF TriageInv, StreamTyped
<1>2. StoreTyped' /\ Rows' = Rows
  BY <1>1, StoreKept DEF storeVars
<1>3. \A d \in Consumers : todo[d] \in Seq(1..read')
  <2> SUFFICES ASSUME NEW d \in Consumers PROVE todo[d] \in Seq(1..read')
    OBVIOUS
  <2>1. todo[d] \in Seq(1..read)
    BY <1>1 DEF ConsumersTyped
  <2>2. 1..read \subseteq 1..read'
    BY <1>1
  <2> QED BY <2>1, <2>2, SeqMonotonic
<1>4. ConsumersTyped'
  <2>1. todo' \in [Consumers -> Seq(1..read')]
    BY <1>1, <1>3 DEF ConsumersTyped
  <2> QED BY <1>1, <1>2, <2>1 DEF ConsumersTyped, Places
<1>5. RestTyped'
  BY <1>1 DEF RestTyped
<1>6. Acts(c) /\ Adds
  BY <1>1 DEF ConsumersTyped, Acts, Adds, storeVars
<1>7. ConsumerOK(c)'
  BY <1>1 DEF ConsumersTyped, ConsumerOK
<1>8. TraceInv'
  BY <1>6, TraceKeeps
<1>9. RefInv'
  BY RefsKeep DEF TriageInv, storeVars
<1> QED BY <1>2, <1>4, <1>5, <1>6, <1>7, <1>8, <1>9, StepKeeps

LEMMA FunctionIsSeq ==
    ASSUME NEW S, NEW n \in Nat, n > 0, NEW q \in [1..n -> S]
    PROVE  q \in Seq(S) /\ q # <<>>
OBVIOUS

LEMMA ReclaimKeeps == ASSUME TriageInv, NEW c \in Consumers, Reclaim(c) PROVE TriageInv'
<1>1. StreamTyped /\ read \in Nat
  BY TypeParts DEF TriageInv, StreamTyped
<1> DEFINE Takes(n, batch) ==
        /\ todo' = [todo EXCEPT ![c] = batch]
        /\ pel' = [e \in Entries |-> IF e \in {batch[k] : k \in 1..n} THEN pel[e] + 1 ELSE pel[e]]
        /\ idle' = idle \ {batch[k] : k \in 1..n}
<1>a. PICK n \in 1..Batch : \E batch \in [1..n -> idle] : Takes(n, batch)
  BY DEF Reclaim
<1>2. PICK batch \in [1..n -> idle] : Takes(n, batch)
  BY <1>a
<1>3. read' = read /\ n \in Nat /\ n > 0
  BY Counts DEF Reclaim
<1>4. \A e \in idle : e \in 1..read
  BY <1>1, Counts DEF StreamTyped, Entries
<1>b. batch \in [1..n -> 1..read']
  BY <1>2, <1>3, <1>4
<1>5. batch \in Seq(1..read') /\ batch # <<>>
  BY <1>3, <1>b, FunctionIsSeq
<1>c. read' \in Nat /\ read <= read'
  BY <1>1, <1>3
<1>6. \A e \in Entries : pel'[e] \in Nat /\ pel'[e] >= pel[e]
  BY <1>1, <1>2 DEF StreamTyped
<1>7. StreamTyped'
  <2>1. \A e \in Entries : e > read => pel'[e] = 0
    BY <1>1, <1>2, <1>4 DEF StreamTyped, Entries
  <2>2. \A e \in idle' : pel'[e] > 0
    BY <1>1, <1>2 DEF StreamTyped
  <2>3. pel' \in [Entries -> Nat] /\ idle' \subseteq Entries
    BY <1>1, <1>2, <1>6 DEF StreamTyped
  <2> QED BY <1>1, <2>1, <2>2, <2>3 DEF StreamTyped, Reclaim
<1>8. \A e \in Entries : Acked(e)' => Acked(e)
  BY <1>1, <1>3, <1>6 DEF Acked, Delivered, StreamTyped
<1>9. /\ todo' = [todo EXCEPT ![c] = batch] /\ pc' = [pc EXCEPT ![c] = "claimed"]
      /\ phase' = [phase EXCEPT ![c] = "reclaim"]
      /\ UNCHANGED <<stream, dead, storeVars, row, reaping, faultsLeft>>
  BY <1>2 DEF Reclaim
<1> HIDE DEF Takes
<1> QED BY <1>c, <1>5, <1>7, <1>8, <1>9, TakesBatch

LEMMA ReadNewKeeps == ASSUME TriageInv, NEW c \in Consumers, ReadNew(c) PROVE TriageInv'
<1> DEFINE new == Len(stream) - read
           n == IF new < Batch THEN new ELSE Batch
           batch == [k \in 1..n |-> read + k]
<1>1. StreamTyped /\ read \in Nat /\ Len(stream) \in Nat
  BY TypeParts DEF TriageInv, StreamTyped
<1>2. /\ todo' = [todo EXCEPT ![c] = batch] /\ read' = read + n
      /\ pel' = [e \in Entries |-> IF e \in read + 1 .. read + n THEN 1 ELSE pel[e]]
  BY DEF ReadNew
<1>3. n \in Nat /\ n > 0 /\ n <= new
  BY <1>1, Counts DEF ReadNew
<1> HIDE DEF n
<1>4. batch \in [1..n -> 1..read']
  BY <1>1, <1>2, <1>3
<1>5. batch \in Seq(1..read') /\ batch # <<>>
  BY <1>3, <1>4
<1>6. read' \in Nat /\ read <= read' /\ read' <= Len(stream)
  BY <1>1, <1>2, <1>3
<1>7. StreamTyped'
  <2>1. pel' \in [Entries -> Nat] /\ \A e \in Entries : e > read' => pel'[e] = 0
    BY <1>1, <1>2, <1>3, Counts DEF StreamTyped
  <2>2. \A e \in idle : pel'[e] > 0
    BY <1>1, <1>2 DEF StreamTyped
  <2> QED BY <1>1, <1>6, <2>1, <2>2 DEF StreamTyped, ReadNew
<1>8. \A e \in Entries : Acked(e)' => Acked(e)
  BY <1>1, <1>2, <1>3, Counts DEF Acked, Delivered, StreamTyped
<1> HIDE DEF batch
<1> QED BY <1>2, <1>5, <1>6, <1>7, <1>8, TakesBatch DEF ReadNew

LEMMA LookAtClaimKeeps == ASSUME TriageInv, NEW c \in Consumers, LookAtClaim(c) PROVE TriageInv'
<1>1. StreamTyped /\ ConsumersTyped /\ RestTyped /\ read \in Nat /\ todo[c] # <<>>
  <2>1. todo[c] # <<>>
    BY DEF TriageInv, LookAtClaim, ConsumerOK
  <2> QED BY <2>1, TypeParts DEF TriageInv, StreamTyped
<1>2. Entry(c) \in Entries
  BY <1>1, EntryOfHolder DEF TriageInv
<1>3. CASE pel[Entry(c)] >= MaxDeliveries /\ dead' = [dead EXCEPT ![Entry(c)] = @ + 1]
           /\ pc' = [pc EXCEPT ![c] = "bury"] /\ UNCHANGED faultsLeft
  <2>1. Adds
    BY <1>2, <1>3 DEF LookAtClaim, Adds, storeVars
  <2>2. StreamTyped' /\ dead'[Entry(c)] > 0
    BY <1>1, <1>2, <1>3 DEF StreamTyped, LookAtClaim
  <2>3. StoreTyped' /\ Rows' = Rows
    BY TypeParts, StoreKept DEF TriageInv, LookAtClaim, storeVars
  <2>4. ConsumersTyped' /\ RestTyped' /\ Acts(c)
    BY <1>1, <1>3, <2>3 DEF ConsumersTyped, RestTyped, LookAtClaim, Places, Acts
  <2>5. ConsumerOK(c)'
    BY <1>1, <1>3, <2>2 DEF ConsumersTyped, ConsumerOK, LookAtClaim, Entry
  <2>6. TraceInv'
    BY <1>1, <2>1, TraceKeeps DEF LookAtClaim, Acked, Delivered
  <2>7. RefInv'
    BY RefsKeep DEF TriageInv, LookAtClaim, storeVars
  <2> QED BY <2>1, <2>2, <2>3, <2>4, <2>5, <2>6, <2>7, StepKeeps
<1>4. CASE pc' = [pc EXCEPT ![c] = "stage1"] /\ dead' = dead
           /\ (faultsLeft' = faultsLeft \/ (faultsLeft > 0 /\ faultsLeft' = faultsLeft - 1))
  BY <1>1, <1>4, MovesOn DEF LookAtClaim, streamVars
<1> QED BY <1>3, <1>4 DEF LookAtClaim
-----------------------------------------------------------------------------
(* process_one, commit by commit. *)

\* A row goes into the table: a duplicate of a scored row, a deferred row, or a
\* scored one, which alone may come to own a fingerprint.
LEMMA RowWritten ==
    ASSUME TriageInv, NEW n, n = Len(events) + 1, NEW x \in Row, events' = Append(events, x),
           x.status = "duplicate" => IsScored(x.of),
           fp' \in [Fingerprints -> {NoRow} \cup Rows'],
           \A f \in Fingerprints :
               fp'[f] = fp[f] \/ (fp'[f] = n /\ x.status = "scored"),
           UNCHANGED <<streamVars, vectors, ticked, reaping>>,
           faultsLeft' = faultsLeft \/ (faultsLeft > 0 /\ faultsLeft' = faultsLeft - 1)
    PROVE  /\ StreamTyped' /\ StoreTyped' /\ RestTyped' /\ TraceInv' /\ RefInv'
           /\ Adds /\ Rows \subseteq Rows' /\ HasRow(x.entry)'
           /\ x.status = "scored" => IsScored(n)'
<1>1. StreamTyped /\ StoreTyped /\ RestTyped /\ read \in Nat
  BY TypeParts DEF TriageInv, StreamTyped
<1>2. /\ events' \in Seq(Row) /\ Rows' = 1 .. Len(events) + 1 /\ Rows \subseteq Rows'
      /\ Len(events) + 1 \in Rows' /\ Len(events) + 1 \notin Rows
      /\ \A r \in Rows : events'[r] = events[r]
      /\ events'[Len(events) + 1] = x /\ Rows = 1..Len(events) /\ Len(events) \in Nat
  BY AppendsRow, RowsAreIndices DEF TriageInv
<1>3. Adds
  BY DEF Adds, streamVars
<1>4. StreamTyped' /\ RestTyped'
  BY <1>1, StreamKept, FaultsCounted DEF streamVars
<1>5. StoreTyped'
  BY <1>1, <1>2 DEF StoreTyped
<1>6. TraceInv'
  BY <1>1, <1>3, TraceKeeps DEF streamVars, Acked, Delivered
<1>8. HasRow(x.entry)'
  BY <1>2 DEF HasRow
<1>9. x.status = "scored" => IsScored(n)'
  BY <1>2 DEF IsScored, Scored
<1>10. \A r : IsScored(r) => IsScored(r)'
  BY <1>3, WhatIsWrittenStays DEF TriageInv
<1>11. RefInv'
  <2>1. (\A f \in Fingerprints : fp[f] # NoRow => IsScored(fp[f]))'
    BY <1>9, <1>10 DEF TriageInv, RefInv
  <2>2. (\A r \in vectors : IsScored(r))'
    BY <1>10 DEF TriageInv, RefInv
  <2>3. DuplicateOfScored'
    <3> SUFFICES ASSUME NEW r \in Rows', events'[r].status = "duplicate"
                 PROVE  events'[r].of \in 1..(r - 1) /\ events'[events'[r].of].status = "scored"
      BY DEF DuplicateOfScored, Scored
    <3>1. CASE r \in Rows
      <4>1. events'[r] = events[r] /\ events[r].of \in 1..(r - 1) /\ Scored(events[r].of)
        BY <1>2, <3>1 DEF TriageInv, RefInv, DuplicateOfScored
      <4>2. events[r].of \in Rows
        BY <1>2, <3>1, <4>1
      <4> QED BY <1>2, <4>1, <4>2 DEF Scored
    <3>2. CASE r = Len(events) + 1
      <4>1. events'[r] = x /\ IsScored(x.of)
        BY <1>2, <3>2
      <4>2. x.of \in 1..(r - 1) /\ Scored(x.of)
        BY <1>2, <3>2, <4>1 DEF IsScored
      <4> QED BY <1>2, <4>1, <4>2 DEF Scored, IsScored
    <3> QED BY <1>2, <3>1, <3>2
  <2> QED BY <2>1, <2>2, <2>3 DEF RefInv
<1> QED BY <1>2, <1>3, <1>4, <1>5, <1>6, <1>8, <1>9, <1>11

\* The consumer goes to p with its batch; what it holds may change.
LEMMA ConsumerGoes ==
    ASSUME TriageInv, NEW c \in Consumers, NEW p \in Places,
           pc' = [pc EXCEPT ![c] = p],
           row' \in [Consumers -> {NoRow} \cup Rows'],
           \A d \in Consumers \ {c} : row'[d] = row[d],
           UNCHANGED <<todo, phase, read>>
    PROVE  ConsumersTyped' /\ Acts(c) /\ pc'[c] = p /\ Entry(c)' = Entry(c)
<1>1. ConsumersTyped
  BY TypeParts DEF TriageInv
<1>2. Acts(c) /\ pc'[c] = p /\ Entry(c)' = Entry(c) /\ pc' \in [Consumers -> Places]
  BY <1>1 DEF ConsumersTyped, Acts, Entry
<1> QED BY <1>1, <1>2 DEF ConsumersTyped

LEMMA InsertDuplicateKeeps ==
    ASSUME TriageInv, NEW c \in Consumers, todo[c] # <<>>, NEW h, IsScored(h),
           InsertDuplicate(c, h)
    PROVE  TriageInv'
<1>x. PICK x : x = [entry |-> Entry(c), status |-> "duplicate", of |-> h]
  OBVIOUS
<1>1. x \in Row /\ h \in Nat
  BY <1>x, EntryOfHolder, RowsAreIndices DEF TriageInv, IsScored, Row
<1>2. events' = Append(events, x) /\ UNCHANGED <<streamVars, fp, vectors, ticked, reaping, faultsLeft>>
      /\ pc' = [pc EXCEPT ![c] = "ack"] /\ UNCHANGED <<todo, phase, row, read>>
  BY <1>x DEF InsertDuplicate, InsertEvent, streamVars
<1>3. x.entry = Entry(c) /\ (x.status = "duplicate" => IsScored(x.of)) /\ x.status # "scored"
  BY <1>x
<1>4. Rows \subseteq Rows'
  BY <1>1, <1>2, AppendsRow DEF TriageInv
<1>5. fp' \in [Fingerprints -> {NoRow} \cup Rows']
  BY <1>2, <1>4, TypeParts DEF TriageInv, StoreTyped
<1>n. PICK n : n = Len(events) + 1
  OBVIOUS
<1>f. \A f \in Fingerprints : fp'[f] = fp[f] \/ (fp'[f] = n /\ x.status = "scored")
  BY <1>2
<1>6. /\ StreamTyped' /\ StoreTyped' /\ RestTyped' /\ TraceInv' /\ RefInv'
      /\ Adds /\ HasRow(x.entry)'
  BY <1>1, <1>2, <1>3, <1>5, <1>n, <1>f, RowWritten
<1>7. ConsumersTyped' /\ Acts(c) /\ pc'[c] = "ack" /\ Entry(c)' = Entry(c)
  <2>1. row' \in [Consumers -> {NoRow} \cup Rows']
    BY <1>2, <1>4, TypeParts DEF TriageInv, ConsumersTyped
  <2> QED BY <1>2, <2>1, ConsumerGoes DEF Places
<1>8. ConsumerOK(c)'
  BY <1>2, <1>3, <1>6, <1>7 DEF ConsumerOK, HasRow
<1> QED BY <1>6, <1>7, <1>8, StepKeeps

LEMMA Stage1Keeps == ASSUME TriageInv, NEW c \in Consumers, Stage1(c) PROVE TriageInv'
<1>1. todo[c] # <<>> /\ Item(c) \in Items
  BY EntryOfHolder DEF TriageInv, ConsumerOK, Stage1
<1>2. ASSUME NEW h \in Stage1Hits(Item(c)), InsertDuplicate(c, h) PROVE TriageInv'
  <2>1. IsScored(h)
    BY <1>1, <1>2 DEF Stage1Hits, TriageInv, RefInv, Fingerprints
  <2> QED BY <1>1, <1>2, <2>1, InsertDuplicateKeeps
<1>3. CASE pc' = [pc EXCEPT ![c] = "stage2"]
           /\ UNCHANGED <<streamVars, storeVars, todo, phase, row, reaping, faultsLeft>>
  BY <1>1, <1>3, MovesOn
<1> QED BY <1>2, <1>3 DEF Stage1

LEMMA Stage2Keeps == ASSUME TriageInv, NEW c \in Consumers, Stage2(c) PROVE TriageInv'
<1>1. todo[c] # <<>>
  BY DEF TriageInv, ConsumerOK, Stage2
<1>2. ASSUME NEW h \in Stage2Hits(Item(c)), InsertDuplicate(c, h) PROVE TriageInv'
  <2>1. IsScored(h)
    BY <1>2 DEF Stage2Hits, TriageInv, RefInv
  <2> QED BY <1>1, <1>2, <2>1, InsertDuplicateKeeps
<1>3. CASE pc' = [pc EXCEPT ![c] = "score"]
           /\ UNCHANGED <<streamVars, storeVars, todo, phase, row, reaping, faultsLeft>>
  BY <1>1, <1>3, MovesOn
<1> QED BY <1>2, <1>3 DEF Stage2

LEMMA DeferKeeps == ASSUME TriageInv, NEW c \in Consumers, Defer(c) PROVE TriageInv'
<1>x. PICK x : x = [entry |-> Entry(c), status |-> "deferred", of |-> NoRow]
  OBVIOUS
<1>0. todo[c] # <<>>
  BY DEF TriageInv, ConsumerOK, Defer
<1>1. x \in Row
  BY <1>x, <1>0, EntryOfHolder, Counts DEF TriageInv, Row
<1>2. events' = Append(events, x) /\ UNCHANGED <<streamVars, fp, vectors, ticked, reaping, faultsLeft>>
      /\ pc' = [pc EXCEPT ![c] = "ack"] /\ UNCHANGED <<todo, phase, row, read>>
  BY <1>x DEF Defer, InsertEvent, streamVars
<1>3. x.entry = Entry(c) /\ (x.status = "duplicate" => IsScored(x.of)) /\ x.status # "scored"
  BY <1>x
<1>4. Rows \subseteq Rows'
  BY <1>1, <1>2, AppendsRow DEF TriageInv
<1>5. fp' \in [Fingerprints -> {NoRow} \cup Rows']
  BY <1>2, <1>4, TypeParts DEF TriageInv, StoreTyped
<1>n. PICK n : n = Len(events) + 1
  OBVIOUS
<1>f. \A f \in Fingerprints : fp'[f] = fp[f] \/ (fp'[f] = n /\ x.status = "scored")
  BY <1>2
<1>6. /\ StreamTyped' /\ StoreTyped' /\ RestTyped' /\ TraceInv' /\ RefInv'
      /\ Adds /\ HasRow(x.entry)'
  BY <1>0, <1>1, <1>2, <1>3, <1>5, <1>n, <1>f, RowWritten
<1>7. ConsumersTyped' /\ Acts(c) /\ pc'[c] = "ack" /\ Entry(c)' = Entry(c)
  <2>1. row' \in [Consumers -> {NoRow} \cup Rows']
    BY <1>2, <1>4, TypeParts DEF TriageInv, ConsumersTyped
  <2> QED BY <1>2, <2>1, ConsumerGoes DEF Places
<1>8. ConsumerOK(c)'
  BY <1>0, <1>2, <1>3, <1>6, <1>7 DEF ConsumerOK, HasRow
<1> QED BY <1>6, <1>7, <1>8, StepKeeps

\* The row of a scored item, as Score and ScoreCutShort write it.
LEMMA ScoredRow ==
    ASSUME TriageInv, NEW c \in Consumers, todo[c] # <<>>,
           InsertEvent(c, "scored", NoRow), NEW n, n = Len(events) + 1,
           NEW e, e = Entry(c),
           fp' = fp \/ \E f \in Fingerprints : Own(f, n),
           UNCHANGED <<streamVars, vectors, ticked, reaping>>,
           faultsLeft' = faultsLeft \/ (faultsLeft > 0 /\ faultsLeft' = faultsLeft - 1)
    PROVE  /\ StreamTyped' /\ StoreTyped' /\ RestTyped' /\ TraceInv' /\ RefInv'
           /\ Adds /\ Rows \subseteq Rows' /\ n \in Rows' /\ IsScored(n)'
           /\ HasRow(e)'
<1>x. PICK x : x = [entry |-> Entry(c), status |-> "scored", of |-> NoRow]
  OBVIOUS
<1>1. x \in Row
  BY <1>x, EntryOfHolder, Counts DEF TriageInv, Row
<1>2. events' = Append(events, x)
  BY <1>x DEF InsertEvent
<1>3. x.status = "scored"
  BY <1>x
<1>4. Rows \subseteq Rows' /\ n \in Rows'
  BY <1>1, <1>2, AppendsRow DEF TriageInv
<1>5. fp \in [Fingerprints -> {NoRow} \cup Rows]
  BY TypeParts DEF TriageInv, StoreTyped
<1>6. fp' \in [Fingerprints -> {NoRow} \cup Rows']
      /\ \A f \in Fingerprints : fp'[f] = fp[f] \/ (fp'[f] = n /\ x.status = "scored")
  <2>1. CASE fp' = fp
    BY <2>1, <1>4, <1>5
  <2>2. ASSUME NEW g \in Fingerprints, Own(g, n)
        PROVE  fp' \in [Fingerprints -> {NoRow} \cup Rows']
               /\ \A f \in Fingerprints : fp'[f] = fp[f] \/ (fp'[f] = n /\ x.status = "scored")
    BY <2>2, <1>3, <1>4, <1>5 DEF Own
  <2> QED BY <2>1, <2>2
<1>7. x.entry = e
  BY <1>x
<1> QED BY <1>1, <1>2, <1>3, <1>4, <1>6, <1>7, RowWritten

LEMMA ScoreKeeps == ASSUME TriageInv, NEW c \in Consumers, Score(c) PROVE TriageInv'
<1>0. todo[c] # <<>> /\ Item(c) \in Items
  BY EntryOfHolder DEF TriageInv, ConsumerOK, Score
<1>n. PICK n : n = Len(events) + 1
  OBVIOUS
<1>e. PICK e : e = Entry(c)
  OBVIOUS
<1>1. /\ InsertEvent(c, "scored", NoRow) /\ pc' = [pc EXCEPT ![c] = "hash"]
      /\ row' = [row EXCEPT ![c] = n] /\ UNCHANGED <<todo, phase, read>>
      /\ UNCHANGED <<streamVars, vectors, ticked, reaping, faultsLeft>>
  BY <1>n DEF Score, streamVars
<1>2. fp' = fp \/ \E f \in Fingerprints : Own(f, n)
  <2>1. <<"external_id", ExtId[Item(c)]>> \in Fingerprints
    BY <1>0 DEF Fingerprints
  <2> QED BY <1>n, <2>1 DEF Score
<1>3. /\ StreamTyped' /\ StoreTyped' /\ RestTyped' /\ TraceInv' /\ RefInv'
      /\ Adds /\ Rows \subseteq Rows' /\ n \in Rows' /\ IsScored(n)' /\ HasRow(e)'
  BY <1>0, <1>n, <1>e, <1>1, <1>2, ScoredRow
<1>4. row \in [Consumers -> {NoRow} \cup Rows]
  BY TypeParts DEF TriageInv, ConsumersTyped
<1>5. row' \in [Consumers -> {NoRow} \cup Rows'] /\ row'[c] = n
      /\ \A d \in Consumers \ {c} : row'[d] = row[d]
  BY <1>1, <1>3, <1>4
<1>6. ConsumersTyped' /\ Acts(c) /\ pc'[c] = "hash" /\ Entry(c)' = Entry(c)
  BY <1>1, <1>5, ConsumerGoes DEF Places
<1>7. ConsumerOK(c)'
  BY <1>0, <1>e, <1>1, <1>3, <1>5, <1>6 DEF ConsumerOK, IsScored, HasRow
<1> QED BY <1>3, <1>6, <1>7, StepKeeps

\* After the row is in, the consumer that holds it writes what goes with it.
LEMMA RowServed ==
    ASSUME TriageInv, NEW c \in Consumers, pc[c] \in {"hash", "embed", "tickers"},
           NEW p \in {"embed", "tickers", "ack"}, pc' = [pc EXCEPT ![c] = p],
           fp' = fp \/ \E f \in Fingerprints : Own(f, row[c]),
           vectors' = vectors \/ vectors' = vectors \cup {row[c]},
           ticked' = ticked \/ ticked' = ticked \cup {row[c]},
           UNCHANGED <<streamVars, events, todo, phase, row, reaping, faultsLeft>>
    PROVE  TriageInv'
<1>1. StreamTyped /\ StoreTyped /\ ConsumersTyped /\ RestTyped /\ read \in Nat
  BY TypeParts DEF TriageInv, StreamTyped
<1>2. IsScored(row[c]) /\ HasRow(Entry(c)) /\ todo[c] # <<>> /\ Rows' = Rows /\ row[c] \in Rows
  BY DEF TriageInv, ConsumerOK, IsScored, Rows
<1>3. \A r : IsScored(r)' <=> IsScored(r)
  BY DEF IsScored, Rows, Scored
<1>4. fp' \in [Fingerprints -> {NoRow} \cup Rows]
      /\ \A f \in Fingerprints : fp'[f] = fp[f] \/ fp'[f] = row[c]
  <2>1. fp \in [Fingerprints -> {NoRow} \cup Rows]
    BY <1>1 DEF StoreTyped
  <2>2. ASSUME NEW g \in Fingerprints, Own(g, row[c])
        PROVE  fp' \in [Fingerprints -> {NoRow} \cup Rows]
               /\ \A f \in Fingerprints : fp'[f] = fp[f] \/ fp'[f] = row[c]
    BY <2>1, <2>2, <1>2 DEF Own
  <2> QED BY <2>1, <2>2
<1>5. StreamTyped' /\ RestTyped'
  BY <1>1, StreamKept, FaultsCounted DEF streamVars
<1>6. StoreTyped'
  BY <1>1, <1>2, <1>4 DEF StoreTyped
<1>7. ConsumersTyped' /\ Acts(c) /\ pc'[c] = p /\ Entry(c)' = Entry(c)
  <2>1. row' \in [Consumers -> {NoRow} \cup Rows']
    BY <1>1, <1>2 DEF ConsumersTyped
  <2> QED BY <2>1, ConsumerGoes DEF Places, streamVars
<1>8. ConsumerOK(c)'
  BY <1>2, <1>3, <1>7 DEF ConsumerOK, HasRow, Rows
<1>9. Adds
  BY DEF Adds, streamVars
<1>10. TraceInv'
  BY <1>1, <1>9, TraceKeeps DEF streamVars, Acked, Delivered
<1>11. RefInv'
  <2>1. (\A f \in Fingerprints : fp[f] # NoRow => IsScored(fp[f]))'
    BY <1>2, <1>3, <1>4 DEF TriageInv, RefInv
  <2>2. (\A r \in vectors : IsScored(r))'
    BY <1>2, <1>3 DEF TriageInv, RefInv
  <2>3. DuplicateOfScored'
    BY <1>2 DEF TriageInv, RefInv, DuplicateOfScored, Scored
  <2> QED BY <2>1, <2>2, <2>3 DEF RefInv
<1> QED BY <1>5, <1>6, <1>7, <1>8, <1>9, <1>10, <1>11, StepKeeps

LEMMA HashKeeps == ASSUME TriageInv, NEW c \in Consumers, Hash(c) PROVE TriageInv'
<1>1. <<"sha256", Text[Item(c)]>> \in Fingerprints
  BY EntryOfHolder DEF TriageInv, ConsumerOK, Hash, Fingerprints
<1> QED BY <1>1, RowServed DEF Hash, streamVars

LEMMA EmbedKeeps == ASSUME TriageInv, NEW c \in Consumers, Embed(c) PROVE TriageInv'
BY RowServed DEF Embed, streamVars

LEMMA TickerRowsKeeps == ASSUME TriageInv, NEW c \in Consumers, TickerRows(c) PROVE TriageInv'
BY RowServed DEF TickerRows, streamVars
-----------------------------------------------------------------------------
(* The end of an entry, and what happens around the consumers. *)

\* A settled or failed entry: the consumer advances.
LEMMA EntryEnds ==
    ASSUME TriageInv, NEW c \in Consumers, todo[c] # <<>>, Advance(c),
           StreamTyped', TraceInv', Adds, read' = read,
           UNCHANGED <<storeVars, reaping>>,
           faultsLeft' = faultsLeft \/ (faultsLeft > 0 /\ faultsLeft' = faultsLeft - 1)
    PROVE  TriageInv'
<1>1. StoreTyped' /\ Rows' = Rows
  BY TypeParts, StoreKept DEF TriageInv, storeVars
<1>2. RestTyped'
  BY TypeParts, Counts DEF TriageInv, RestTyped
<1>3. ConsumersTyped' /\ Acts(c) /\ ConsumerOK(c)'
  BY <1>1, AdvanceShape
<1>4. RefInv'
  BY RefsKeep DEF TriageInv, storeVars
<1> QED BY <1>1, <1>2, <1>3, <1>4, StepKeeps

LEMMA SettledKeeps ==
    ASSUME TriageInv, NEW c \in Consumers, Bury(c) \/ Ack(c) PROVE TriageInv'
<1>1. todo[c] # <<>> /\ (dead[Entry(c)] > 0 \/ HasRow(Entry(c)))
  BY DEF TriageInv, ConsumerOK, Bury, Ack
<1>2. Entry(c) \in Entries
  BY <1>1, EntryOfHolder DEF TriageInv
<1>3. /\ XAck(Entry(c)) /\ Advance(c)
      /\ UNCHANGED <<stream, read, dead, storeVars, reaping, faultsLeft>>
  BY DEF Bury, Ack
<1>4. StreamTyped' /\ TraceInv'
  BY <1>1, <1>2, <1>3, AckTraced DEF storeVars
<1>5. Adds
  BY <1>3 DEF Adds, storeVars
<1> QED BY <1>1, <1>3, <1>4, <1>5, EntryEnds

LEMMA FailedKeeps ==
    ASSUME TriageInv, NEW c \in Consumers, Undecodable(c) \/ Raise(c) PROVE TriageInv'
<1>1. todo[c] # <<>>
  BY DEF TriageInv, ConsumerOK, Undecodable, Raise
<1>2. Advance(c) /\ UNCHANGED <<streamVars, storeVars, reaping>>
      /\ (faultsLeft' = faultsLeft \/ (faultsLeft > 0 /\ faultsLeft' = faultsLeft - 1))
  BY DEF Undecodable, Raise, Fail
<1>3. StreamTyped' /\ read' = read /\ read \in Nat
  BY <1>2, TypeParts, StreamKept DEF TriageInv, streamVars, StreamTyped
<1>4. Adds
  BY <1>2 DEF Adds, streamVars, storeVars
<1>5. TraceInv'
  BY <1>2, <1>3, <1>4, TraceKeeps DEF streamVars, Acked, Delivered
<1> QED BY <1>1, <1>2, <1>3, <1>4, <1>5, EntryEnds

LEMMA ScoreCutShortKeeps ==
    ASSUME TriageInv, NEW c \in Consumers, ScoreCutShort(c) PROVE TriageInv'
<1>1. todo[c] # <<>>
  BY DEF TriageInv, ConsumerOK, ScoreCutShort
<1>n. PICK n : n = Len(events) + 1
  OBVIOUS
<1>e. PICK e : e = Entry(c)
  OBVIOUS
<1>2. /\ InsertEvent(c, "scored", NoRow) /\ Advance(c) /\ read' = read /\ fp' = fp
      /\ UNCHANGED <<streamVars, vectors, ticked, reaping>>
      /\ faultsLeft > 0 /\ faultsLeft' = faultsLeft - 1
  BY DEF ScoreCutShort, Fail, streamVars
<1>3. /\ StreamTyped' /\ StoreTyped' /\ RestTyped' /\ TraceInv' /\ RefInv'
      /\ Adds /\ Rows \subseteq Rows'
  BY <1>1, <1>n, <1>e, <1>2, ScoredRow
<1>4. ConsumersTyped' /\ Acts(c) /\ ConsumerOK(c)'
  BY <1>1, <1>2, <1>3, AdvanceShape
<1> QED BY <1>3, <1>4, StepKeeps

\* Nobody moves, or everybody starts again.
LEMMA AroundKeeps ==
    ASSUME TriageInv, UNCHANGED <<streamVars, events, fp, ticked>>, vectors' \subseteq vectors,
           \/ UNCHANGED <<consumerVars, reaping>>
           \/ /\ pc' = [c \in Consumers |-> "idle"] /\ todo' = [c \in Consumers |-> <<>>]
              /\ phase' = [c \in Consumers |-> "read"] /\ row' = [c \in Consumers |-> NoRow]
              /\ reaping' = {},
           faultsLeft' = faultsLeft \/ (faultsLeft > 0 /\ faultsLeft' = faultsLeft - 1)
    PROVE  TriageInv'
<1>1. StreamTyped' /\ StoreTyped' /\ Rows' = Rows /\ read' = read /\ read \in Nat
  BY TypeParts, StreamKept, StoreKept DEF TriageInv, streamVars, StreamTyped
<1>2. RestTyped'
  BY <1>1, TypeParts, Counts DEF TriageInv, RestTyped
<1>3. ConsumersTyped'
  <2>1. ConsumersTyped
    BY TypeParts DEF TriageInv
  <2>2. CASE UNCHANGED consumerVars
    BY <1>1, <2>1, <2>2 DEF ConsumersTyped, consumerVars
  <2>3. CASE /\ pc' = [c \in Consumers |-> "idle"] /\ todo' = [c \in Consumers |-> <<>>]
             /\ phase' = [c \in Consumers |-> "read"] /\ row' = [c \in Consumers |-> NoRow]
    BY <1>1, <2>3 DEF ConsumersTyped, Places
  <2> QED BY <2>2, <2>3
<1>4. Adds
  BY DEF Adds, streamVars
<1>5. ASSUME NEW d \in Consumers PROVE ConsumerOK(d)'
  <2>1. CASE UNCHANGED consumerVars
    BY <1>4, <2>1, OthersKeep DEF consumerVars
  <2>2. CASE pc' = [c \in Consumers |-> "idle"]
    BY <2>2 DEF ConsumerOK
  <2> QED BY <2>1, <2>2
<1>6. TraceInv'
  BY <1>1, <1>4, TraceKeeps DEF streamVars, Acked, Delivered
<1>7. RefInv'
  BY RefsKeep DEF TriageInv
<1> QED BY <1>1, <1>2, <1>3, <1>5, <1>6, <1>7, TypeParts DEF TriageInv
-----------------------------------------------------------------------------
LEMMA TriageStepInv == TriageInv /\ [TriageNext]_triageVars => TriageInv'
<1> SUFFICES ASSUME TriageInv, [TriageNext]_triageVars PROVE TriageInv'
  OBVIOUS
<1>1. ASSUME NEW c \in Consumers, Consume(c) PROVE TriageInv'
  <2>1. ASSUME NothingNew(c) PROVE TriageInv'
    BY <2>1, MovesOn DEF NothingNew
  <2> QED BY <1>1, <2>1, ReclaimKeeps, ReadNewKeeps, LookAtClaimKeeps, SettledKeeps, Stage1Keeps,
             Stage2Keeps, DeferKeeps, ScoreKeeps, HashKeeps, EmbedKeeps, TickerRowsKeeps,
             FailedKeeps DEF Consume
<1>2. ASSUME NEW c \in Consumers, CommandFails(c) PROVE TriageInv'
  BY <1>2, MovesOn DEF CommandFails
<1>3. ASSUME NEW r \in Rows, LeavesWindow(r) PROVE TriageInv'
  BY <1>3, AroundKeeps DEF LeavesWindow
<1>4. ASSUME CrashTriage PROVE TriageInv'
  BY <1>4, AroundKeeps DEF CrashTriage, storeVars
<1>5. ASSUME UNCHANGED triageVars PROVE TriageInv'
  BY <1>5, AroundKeeps DEF triageVars, storeVars
<1> QED BY <1>1, <1>2, <1>3, <1>4, <1>5, FailedKeeps, ScoreCutShortKeeps, GoesIdleKeeps,
           ReapKeeps, ReapAckKeeps, PublishKeeps DEF TriageNext, TriageStep, Quiet

\* Every state of the daemon is as declared: what is pending was delivered, what
\* is idle is pending, and rows point at rows.
THEOREM TriageTypes == TriageSpec => []TriageTypeOK
<1>1. TriageInv => TriageTypeOK
  BY DEF TriageInv
<1> QED BY <1>1, TriageInitInv, TriageStepInv, PTL DEF TriageSpec

\* Nothing leaves the stream without a row or a dead-letter copy, whatever the
\* consumers, the sweep and the crashes do.
THEOREM NothingIsLost == TriageSpec => []AckedLeavesTrace
<1>1. TriageInv => AckedLeavesTrace
  BY DEF TriageInv, TraceInv
<1> QED BY <1>1, TriageInitInv, TriageStepInv, PTL DEF TriageSpec

\* Every duplicate row names an older row that was scored.
THEOREM DuplicatesAreSound == TriageSpec => []DuplicateOfScored
<1>1. TriageInv => DuplicateOfScored
  BY DEF TriageInv, RefInv
<1> QED BY <1>1, TriageInitInv, TriageStepInv, PTL DEF TriageSpec
-----------------------------------------------------------------------------
(* The tickers of the scored rows. *)

\* Scored rows without tickers that no consumer holds.
Lost == {r \in Rows : Scored(r) /\ r \notin ticked \cup RowsInHand}

\* A consumer holds a row from its score to the end of the entry, and lets go
\* of it only when it has its tickers.
HandOK(c) ==
    /\ pc[c] \notin {"hash", "embed", "tickers", "ack"} => row[c] = NoRow
    /\ pc[c] = "ack" => row[c] = NoRow \/ row[c] \in ticked

Losses(n) == Cardinality(Consumers) * n

TickInv ==
    /\ \A c \in Consumers : HandOK(c)
    /\ Cardinality(Lost) <= Losses(MaxFaults - faultsLeft)

LEMMA LossesGrow ==
    /\ Cardinality(Consumers) \in Nat
    /\ \A n \in Nat : /\ Losses(n) \in Nat
                      /\ Losses(n + 1) = Losses(n) + Cardinality(Consumers)
<1>1. Cardinality(Consumers) \in Nat
  BY TriageAssumption, FS_CardinalityType
<1>2. PICK k \in Nat : k = Cardinality(Consumers)
  BY <1>1
<1>3. \A n \in Nat : k * n \in Nat /\ k * (n + 1) = k * n + k
  BY <1>2
<1> QED BY <1>1, <1>2, <1>3 DEF Losses

LEMMA LostIsFinite ==
    ASSUME TriageTypeOK
    PROVE  IsFiniteSet(Lost) /\ Cardinality(Lost) \in Nat
<1>1. Rows = 1..Len(events) /\ Len(events) \in Nat
  BY RowsAreIndices
<1>2. IsFiniteSet(1..Len(events)) /\ Lost \in SUBSET (1..Len(events))
  BY <1>1, FS_Interval DEF Lost
<1>3. IsFiniteSet(Lost)
  BY <1>2, FS_Subset
<1> QED BY <1>3, FS_CardinalityType

\* The rows that consumers hold are no more than the consumers.
LEMMA HandsAreFew ==
    ASSUME TriageTypeOK
    PROVE  /\ IsFiniteSet(RowsInHand) /\ Cardinality(RowsInHand) \in Nat
           /\ Cardinality(RowsInHand) <= Cardinality(Consumers)
<1>1. row \in Surjection(Consumers, RowsInHand)
  BY DEF TriageTypeOK, RowsInHand, Surjection
<1>2. IsFiniteSet(RowsInHand) /\ Cardinality(RowsInHand) <= Cardinality(Consumers)
  BY <1>1, TriageAssumption, FS_Surjection
<1> QED BY <1>2, FS_CardinalityType

\* A step that loses nothing, and a fault that loses at most the set X.
LEMMA LosesNothing ==
    ASSUME TriageInv, TriageTypeOK', TickInv, Lost' \subseteq Lost,
           faultsLeft' = faultsLeft \/ (faultsLeft > 0 /\ faultsLeft' = faultsLeft - 1)
    PROVE  (Cardinality(Lost) <= Losses(MaxFaults - faultsLeft))'
<1>1. IsFiniteSet(Lost) /\ Cardinality(Lost) \in Nat
  BY LostIsFinite DEF TriageInv
<1>2. IsFiniteSet(Lost') /\ Cardinality(Lost') \in Nat /\ Cardinality(Lost') <= Cardinality(Lost)
  <2>1. Lost' \in SUBSET Lost
    OBVIOUS
  <2>2. IsFiniteSet(Lost') /\ Cardinality(Lost') <= Cardinality(Lost)
    BY <1>1, <2>1, FS_Subset
  <2> QED BY <2>2, FS_CardinalityType
<1>3. PICK n \in Nat : n = MaxFaults - faultsLeft /\ faultsLeft \in Nat /\ MaxFaults \in Nat
  BY Counts DEF TriageInv, TriageTypeOK
<1>4. Cardinality(Lost') <= Losses(n) /\ Losses(n) \in Nat /\ Cardinality(Lost') <= Losses(n + 1)
  BY <1>1, <1>2, <1>3, LossesGrow DEF TickInv
<1>5. MaxFaults - faultsLeft' = n \/ MaxFaults - faultsLeft' = n + 1
  BY <1>3
<1>6. Cardinality(Lost') <= Losses(MaxFaults - faultsLeft')
  BY <1>4, <1>5
<1> QED BY <1>6 DEF Losses

LEMMA LosesToFault ==
    ASSUME TriageInv, TriageTypeOK', TickInv, NEW X, IsFiniteSet(X),
           Cardinality(X) <= Cardinality(Consumers), Lost' \subseteq Lost \cup X,
           faultsLeft > 0, faultsLeft' = faultsLeft - 1
    PROVE  (Cardinality(Lost) <= Losses(MaxFaults - faultsLeft))'
<1>1. IsFiniteSet(Lost) /\ Cardinality(Lost) \in Nat /\ Cardinality(X) \in Nat
  BY LostIsFinite, FS_CardinalityType DEF TriageInv
<1>2. IsFiniteSet(Lost \cup X) /\ Cardinality(Lost \cup X) <= Cardinality(Lost) + Cardinality(X)
  <2>1. IsFiniteSet(Lost \cap X)
    <3>1. Lost \cap X \in SUBSET X
      OBVIOUS
    <3> QED BY <3>1, FS_Subset
  <2>2. Cardinality(Lost \cap X) \in Nat
    BY <2>1, FS_CardinalityType
  <2>3. IsFiniteSet(Lost \cup X)
        /\ Cardinality(Lost \cup X) = Cardinality(Lost) + Cardinality(X) - Cardinality(Lost \cap X)
    BY <1>1, FS_Union
  <2> QED BY <1>1, <2>2, <2>3
<1>3. Cardinality(Lost') \in Nat /\ Cardinality(Lost') <= Cardinality(Lost) + Cardinality(X)
  <2>1. Lost' \in SUBSET (Lost \cup X)
    OBVIOUS
  <2>2. IsFiniteSet(Lost') /\ Cardinality(Lost') <= Cardinality(Lost \cup X)
    BY <1>2, <2>1, FS_Subset
  <2>3. Cardinality(Lost') \in Nat /\ Cardinality(Lost \cup X) \in Nat
    BY <1>2, <2>2, FS_CardinalityType
  <2> QED BY <1>1, <1>2, <2>2, <2>3
<1>4. PICK n \in Nat : n = MaxFaults - faultsLeft /\ faultsLeft \in Nat /\ MaxFaults \in Nat
  BY Counts DEF TriageInv, TriageTypeOK
<1>5. Cardinality(Lost') <= Losses(n + 1)
  <2>1. Cardinality(Lost) <= Losses(n)
    BY <1>4 DEF TickInv
  <2>2. Cardinality(Lost') <= Losses(n) + Cardinality(Consumers)
    BY <1>1, <1>3, <2>1, <1>4, LossesGrow
  <2> QED BY <2>2, LossesGrow
<1>6. MaxFaults - faultsLeft' = n + 1
  BY <1>4
<1>7. Cardinality(Lost') <= Losses(MaxFaults - faultsLeft')
  BY <1>5, <1>6
<1> QED BY <1>7 DEF Losses

\* One row is lost at most as often as there are consumers.
LEMMA OneIsFew ==
    ASSUME NEW c \in Consumers, NEW x
    PROVE  IsFiniteSet({x}) /\ Cardinality({x}) <= Cardinality(Consumers)
<1>1. IsFiniteSet({x}) /\ Cardinality({x}) = 1 /\ Cardinality({c}) = 1
  BY FS_Singleton
<1>2. {c} \in SUBSET Consumers
  OBVIOUS
<1>3. Cardinality({c}) <= Cardinality(Consumers)
  BY <1>2, TriageAssumption, FS_Subset
<1> QED BY <1>1, <1>3

LEMMA NewRow ==
    ASSUME TriageInv, NEW c \in Consumers, pc[c] = "score", InsertEvent(c, "scored", NoRow)
    PROVE  /\ Rows' = Rows \cup {Len(events) + 1}
           /\ \A r \in Rows : events'[r] = events[r]
<1>x. PICK x : x = [entry |-> Entry(c), status |-> "scored", of |-> NoRow]
  OBVIOUS
<1>1. todo[c] # <<>>
  BY DEF TriageInv, ConsumerOK
<1>2. x \in Row /\ events' = Append(events, x)
  BY <1>x, <1>1, EntryOfHolder, Counts DEF TriageInv, Row, InsertEvent
<1>3. Rows' = 1 .. Len(events) + 1 /\ Rows = 1..Len(events) /\ Len(events) \in Nat
  BY <1>2, AppendsRow, RowsAreIndices DEF TriageInv
<1> QED BY <1>2, <1>3, AppendsRow DEF TriageInv

\* No scored row comes up out of the hands of a consumer, and no consumer lets
\* go of a row without tickers.
LEMMA LostStays ==
    ASSUME TriageTypeOK', ticked \subseteq ticked',
           \A r \in Rows' : Scored(r)' => IsScored(r) \/ r \in RowsInHand',
           \A r \in RowsInHand : r \in RowsInHand' \cup ticked' \cup {NoRow}
    PROVE  Lost' \subseteq Lost
<1> SUFFICES ASSUME NEW r \in Lost' PROVE r \in Lost
  OBVIOUS
<1>1. r \in Rows' /\ Scored(r)' /\ r \notin ticked' /\ r \notin RowsInHand'
  BY DEF Lost
<1>2. r # NoRow
  <2>1. events' \in Seq(Row)
    BY DEF TriageTypeOK, Row
  <2>2. DOMAIN events' = 1..Len(events') /\ Len(events') \in Nat
    BY <2>1
  <2> QED BY <1>1, <2>2 DEF Rows, NoRow
<1> QED BY <1>1, <1>2 DEF Lost, IsScored

LEMMA HandStays ==
    ASSUME NEW d, HandOK(d), pc'[d] = pc[d], row'[d] = row[d], ticked \subseteq ticked'
    PROVE  HandOK(d)'
BY DEF HandOK

\* A step that neither takes nor gives up a row.
LEMMA HandsHold ==
    ASSUME TriageInv, TriageTypeOK', TickInv, row' = row, ticked \subseteq ticked',
           events' = events \/ \E x \in Row : x.status # "scored" /\ events' = Append(events, x),
           faultsLeft' = faultsLeft \/ (faultsLeft > 0 /\ faultsLeft' = faultsLeft - 1),
           NEW C \in SUBSET Consumers, \A d \in Consumers \ C : pc'[d] = pc[d],
           \A c \in C : HandOK(c)'
    PROVE  TickInv'
<1>1. RowsInHand' = RowsInHand
  BY DEF RowsInHand
<1>2. \A r \in Rows' : Scored(r)' => IsScored(r)
  <2>1. CASE events' = events
    BY <2>1 DEF IsScored, Scored, Rows
  <2>2. ASSUME NEW x \in Row, x.status # "scored", events' = Append(events, x)
        PROVE  \A r \in Rows' : Scored(r)' => IsScored(r)
    <3>1. /\ Rows' = 1 .. Len(events) + 1 /\ Rows = 1..Len(events) /\ Len(events) \in Nat
          /\ \A r \in Rows : events'[r] = events[r]
          /\ events'[Len(events) + 1] = x
      BY <2>2, AppendsRow, RowsAreIndices DEF TriageInv
    <3> QED BY <2>2, <3>1 DEF IsScored, Scored
  <2> QED BY <2>1, <2>2
<1>3. Lost' \subseteq Lost
  BY <1>1, <1>2, LostStays
<1>4. (Cardinality(Lost) <= Losses(MaxFaults - faultsLeft))'
  BY <1>3, LosesNothing
<1>5. \A d \in Consumers : HandOK(d)'
  <2>1. \A d \in Consumers : HandOK(d)
    BY DEF TickInv
  <2> QED BY <2>1, HandStays
<1> QED BY <1>4, <1>5 DEF TickInv

\* A consumer at a place without a row, or with it still in hand.
LEMMA HandGoes ==
    ASSUME TriageInv, TriageTypeOK', TickInv, NEW c \in Consumers, NEW p,
           pc' = [pc EXCEPT ![c] = p], row' = row, ticked \subseteq ticked',
           \/ pc[c] \notin {"hash", "embed", "tickers", "ack"}
           \/ pc[c] \in {"hash", "embed", "tickers"} /\ p \in {"embed", "tickers"}
           \/ p = "ack" /\ row[c] \in ticked',
           events' = events \/ \E x \in Row : x.status # "scored" /\ events' = Append(events, x),
           faultsLeft' = faultsLeft \/ (faultsLeft > 0 /\ faultsLeft' = faultsLeft - 1)
    PROVE  TickInv'
<1>1. pc'[c] = p /\ \A d \in Consumers \ {c} : pc'[d] = pc[d]
  BY DEF TriageInv, TriageTypeOK
<1>2. HandOK(c)'
  BY <1>1 DEF TickInv, HandOK
<1>3. \A d \in {c} : HandOK(d)'
  BY <1>2
<1>4. {c} \in SUBSET Consumers
  OBVIOUS
<1> QED BY <1>1, <1>3, <1>4, HandsHold

\* Nobody moves.
LEMMA HandsUntouched ==
    ASSUME TriageInv, TriageTypeOK', TickInv, UNCHANGED <<pc, row, ticked, events, faultsLeft>>
    PROVE  TickInv'
<1>1. {} \in SUBSET Consumers /\ \A c \in {} : HandOK(c)'
  OBVIOUS
<1> QED BY <1>1, HandsHold

\* The end of an entry: the consumer gives up its row.
LEMMA HandEmpties ==
    ASSUME TriageTypeOK, TickInv, NEW c \in Consumers, Advance(c), ticked' = ticked
    PROVE  /\ \A d \in Consumers : HandOK(d)'
           /\ row'[c] = NoRow /\ \A d \in Consumers \ {c} : row'[d] = row[d]
           /\ \A r \in RowsInHand : r \in RowsInHand' \cup {row[c]}
<1>1. /\ row'[c] = NoRow /\ \A d \in Consumers \ {c} : row'[d] = row[d] /\ pc'[d] = pc[d]
      /\ pc'[c] \in {"claimed", "stage1", "read", "idle"}
  BY DEF TriageTypeOK, Advance
<1>2. \A d \in Consumers \ {c} : HandOK(d)'
  BY <1>1, HandStays DEF TickInv
<1>3. HandOK(c)'
  BY <1>1 DEF HandOK
<1>4. \A r \in RowsInHand : r \in RowsInHand' \cup {row[c]}
  BY <1>1 DEF RowsInHand
<1> QED BY <1>1, <1>2, <1>3, <1>4

LEMMA SettledEmpties ==
    ASSUME TriageInv, TriageTypeOK', TickInv, NEW c \in Consumers,
           Bury(c) \/ Ack(c) \/ Undecodable(c)
    PROVE  TickInv'
<1>1. Advance(c) /\ UNCHANGED <<events, ticked, faultsLeft>> /\ pc[c] \in {"bury", "ack", "stage1"}
  BY DEF Bury, Ack, Undecodable, Fail, storeVars
<1>2. row[c] = NoRow \/ row[c] \in ticked
  BY <1>1 DEF TickInv, HandOK
<1>3. (\A d \in Consumers : HandOK(d)') /\ \A r \in RowsInHand : r \in RowsInHand' \cup {row[c]}
  BY <1>1, HandEmpties DEF TriageInv
<1>4. \A r \in Rows' : Scored(r)' => IsScored(r)
  BY <1>1 DEF IsScored, Scored, Rows
<1>5. Lost' \subseteq Lost
  BY <1>1, <1>2, <1>3, <1>4, LostStays
<1> QED BY <1>1, <1>3, <1>5, LosesNothing DEF TickInv

\* A step that raises loses the row in hand, if there is one.
LEMMA RaiseLoses ==
    ASSUME TriageInv, TriageTypeOK', TickInv, NEW c \in Consumers, Raise(c) PROVE TickInv'
<1>1. Advance(c) /\ UNCHANGED <<events, ticked>> /\ faultsLeft > 0 /\ faultsLeft' = faultsLeft - 1
  BY DEF Raise, Fail, storeVars
<1>2. (\A d \in Consumers : HandOK(d)') /\ \A r \in RowsInHand : r \in RowsInHand' \cup {row[c]}
  BY <1>1, HandEmpties DEF TriageInv
<1>3. Lost' \subseteq Lost \cup {row[c]}
  BY <1>1, <1>2 DEF Lost, Scored, Rows
<1>4. IsFiniteSet({row[c]}) /\ Cardinality({row[c]}) <= Cardinality(Consumers)
  BY OneIsFew
<1> QED BY <1>1, <1>2, <1>3, <1>4, LosesToFault DEF TickInv

LEMMA ScoreTakes ==
    ASSUME TriageInv, TriageTypeOK', TickInv, NEW c \in Consumers, Score(c) PROVE TickInv'
<1>n. PICK n : n = Len(events) + 1
  OBVIOUS
<1>1. /\ InsertEvent(c, "scored", NoRow) /\ row' = [row EXCEPT ![c] = n]
      /\ pc' = [pc EXCEPT ![c] = "hash"] /\ UNCHANGED <<ticked, faultsLeft>> /\ pc[c] = "score"
  BY <1>n DEF Score
<1>2. /\ pc'[c] = "hash" /\ row'[c] = n
      /\ \A d \in Consumers \ {c} : pc'[d] = pc[d] /\ row'[d] = row[d]
  BY <1>1 DEF TriageInv, TriageTypeOK
<1>3. \A d \in Consumers : HandOK(d)'
  <2>1. \A d \in Consumers \ {c} : HandOK(d)'
    BY <1>1, <1>2, HandStays DEF TickInv
  <2>2. HandOK(c)'
    BY <1>2 DEF HandOK
  <2> QED BY <2>1, <2>2
<1>4. Rows' = Rows \cup {n} /\ \A r \in Rows : events'[r] = events[r]
  BY <1>n, <1>1, NewRow
<1>5. \A r \in Rows' : Scored(r)' => IsScored(r) \/ r \in RowsInHand'
  BY <1>2, <1>4 DEF IsScored, Scored, RowsInHand
<1>6. row[c] = NoRow
  BY <1>1 DEF TickInv, HandOK
<1>7. \A r \in RowsInHand : r \in RowsInHand' \cup {NoRow}
  BY <1>2, <1>6 DEF RowsInHand
<1>8. Lost' \subseteq Lost
  BY <1>1, <1>5, <1>7, LostStays
<1> QED BY <1>1, <1>3, <1>8, LosesNothing DEF TickInv

\* A score cut short loses its row.
LEMMA CutShortLoses ==
    ASSUME TriageInv, TriageTypeOK', TickInv, NEW c \in Consumers, ScoreCutShort(c) PROVE TickInv'
<1>n. PICK n : n = Len(events) + 1
  OBVIOUS
<1>1. /\ InsertEvent(c, "scored", NoRow) /\ Advance(c) /\ ticked' = ticked /\ pc[c] = "score"
      /\ faultsLeft > 0 /\ faultsLeft' = faultsLeft - 1
  BY DEF ScoreCutShort, Fail
<1>2. /\ \A d \in Consumers : HandOK(d)'
      /\ \A r \in RowsInHand : r \in RowsInHand' \cup {row[c]}
  BY <1>1, HandEmpties DEF TriageInv
<1>3. Rows' = Rows \cup {n} /\ \A r \in Rows : events'[r] = events[r]
  BY <1>n, <1>1, NewRow
<1>4. row[c] = NoRow /\ NoRow \notin Rows
  BY <1>1, RowsAreIndices DEF TickInv, HandOK, TriageInv
<1>5. Lost' \subseteq Lost \cup {n}
  <2> SUFFICES ASSUME NEW r \in Lost', r # n PROVE r \in Lost
    OBVIOUS
  <2>1. r \in Rows /\ Scored(r) /\ r \notin ticked /\ r \notin RowsInHand'
    BY <1>1, <1>3 DEF Lost, Scored
  <2> QED BY <1>2, <1>4, <2>1 DEF Lost
<1>6. IsFiniteSet({n}) /\ Cardinality({n}) <= Cardinality(Consumers)
  BY OneIsFew
<1> QED BY <1>1, <1>2, <1>5, <1>6, LosesToFault DEF TickInv

\* A crash loses the rows that all the consumers held.
LEMMA CrashLoses ==
    ASSUME TriageInv, TriageTypeOK', TickInv, CrashTriage PROVE TickInv'
<1>1. /\ UNCHANGED <<events, ticked>> /\ faultsLeft > 0 /\ faultsLeft' = faultsLeft - 1
      /\ \A c \in Consumers : pc'[c] = "idle" /\ row'[c] = NoRow
  BY DEF CrashTriage, storeVars
<1>2. \A c \in Consumers : HandOK(c)'
  BY <1>1 DEF HandOK
<1>3. Lost' \subseteq Lost \cup RowsInHand
  BY <1>1 DEF Lost, Scored, Rows
<1>4. IsFiniteSet(RowsInHand) /\ Cardinality(RowsInHand) <= Cardinality(Consumers)
  BY HandsAreFew DEF TriageInv
<1> QED BY <1>1, <1>2, <1>3, <1>4, LosesToFault DEF TickInv

LEMMA TickStep ==
    ASSUME TriageInv, TriageInv', TickInv, [TriageNext]_triageVars PROVE TickInv'
<1>0. TriageTypeOK'
  BY DEF TriageInv
<1>1. ASSUME NEW c \in Consumers, NEW h, InsertDuplicate(c, h) \/ Defer(c), pc[c] \in {"stage1", "stage2", "score"}
      PROVE  TickInv'
  <2>1. \E x \in Row : x.status # "scored" /\ events' = Append(events, x)
    <3>1. PICK x : x.status # "scored" /\ events' = Append(events, x)
      BY <1>1 DEF InsertDuplicate, Defer, InsertEvent
    <3>2. events' \in Seq(Row) /\ events \in Seq(Row)
      BY <1>0 DEF TriageInv, TriageTypeOK, Row
    <3>3. Len(events') = Len(events) + 1 /\ events'[Len(events) + 1] = x
      BY <3>1, <3>2
    <3>4. x \in Row
      BY <3>2, <3>3
    <3> QED BY <3>1, <3>4
  <2> QED BY <1>0, <1>1, <2>1, HandGoes DEF InsertDuplicate, Defer
<1>2. ASSUME NEW c \in Consumers, Consume(c) PROVE TickInv'
  <2>1. ASSUME Reclaim(c) \/ ReadNew(c) \/ NothingNew(c) \/ LookAtClaim(c) PROVE TickInv'
    <3>1. PICK p : /\ pc' = [pc EXCEPT ![c] = p] /\ UNCHANGED <<row, ticked, events>>
                   /\ faultsLeft' = faultsLeft \/ (faultsLeft > 0 /\ faultsLeft' = faultsLeft - 1)
                   /\ pc[c] \in {"idle", "read", "claimed"}
      BY <2>1 DEF Reclaim, ReadNew, NothingNew, LookAtClaim, storeVars
    <3> QED BY <1>0, <3>1, HandGoes
  <2>2. ASSUME Stage1(c) \/ Stage2(c) PROVE TickInv'
    <3>1. pc[c] \in {"stage1", "stage2"} /\ ((\E h : InsertDuplicate(c, h))
            \/ \E p : pc' = [pc EXCEPT ![c] = p] /\ UNCHANGED <<row, ticked, events, faultsLeft>>)
      BY <2>2 DEF Stage1, Stage2, storeVars
    <3>2. ASSUME NEW p, pc' = [pc EXCEPT ![c] = p], UNCHANGED <<row, ticked, events, faultsLeft>>
          PROVE  TickInv'
      BY <1>0, <3>1, <3>2, HandGoes
    <3> QED BY <1>1, <3>1, <3>2
  <2>3. ASSUME Defer(c) PROVE TickInv'
    <3>1. pc[c] = "score"
      BY <2>3 DEF Defer
    <3> QED BY <1>1, <2>3, <3>1
  <2>4. ASSUME Hash(c) \/ Embed(c) \/ TickerRows(c) PROVE TickInv'
    <3>1. PICK p : /\ pc' = [pc EXCEPT ![c] = p] /\ UNCHANGED <<row, events, faultsLeft>>
                   /\ ticked \subseteq ticked'
                   /\ pc[c] \in {"hash", "embed", "tickers"}
                   /\ p \in {"embed", "tickers"} \/ (p = "ack" /\ row[c] \in ticked')
      BY <2>4 DEF Hash, Embed, TickerRows
    <3> QED BY <1>0, <3>1, HandGoes
  <2> QED BY <1>0, <1>2, <2>1, <2>2, <2>3, <2>4, ScoreTakes, SettledEmpties DEF Consume
<1>3. ASSUME NEW c \in Consumers, CommandFails(c) PROVE TickInv'
  <2>1. PICK p : /\ pc' = [pc EXCEPT ![c] = p] /\ UNCHANGED <<row, ticked, events>>
                 /\ faultsLeft > 0 /\ faultsLeft' = faultsLeft - 1
                 /\ pc[c] \in {"idle", "read"}
    BY <1>3 DEF CommandFails, storeVars
  <2> QED BY <1>0, <2>1, HandGoes
<1>4. ASSUME NEW e \in Entries, GoesIdle(e) \/ Reap(e) \/ ReapAck(e) PROVE TickInv'
  <2>1. UNCHANGED <<pc, row, ticked, events, faultsLeft>>
    BY <1>4 DEF GoesIdle, Reap, ReapAck, storeVars, consumerVars
  <2> QED BY <1>0, <2>1, HandsUntouched
<1>5. ASSUME (\E r \in Rows : LeavesWindow(r)) \/ (\E i \in Items : Publish(i)) \/ UNCHANGED triageVars
      PROVE  TickInv'
  <2>1. UNCHANGED <<pc, row, ticked, events, faultsLeft>>
    BY <1>5 DEF LeavesWindow, Publish, triageVars, storeVars, consumerVars
  <2> QED BY <1>0, <2>1, HandsUntouched
<1> QED BY <1>0, <1>2, <1>3, <1>4, <1>5, RaiseLoses, CutShortLoses, CrashLoses
        DEF TriageNext, TriageStep, Quiet

LEMMA TickInit == TriageInit => TickInv
<1> SUFFICES ASSUME TriageInit PROVE TickInv
  OBVIOUS
<1>1. Lost = {}
  BY DEF TriageInit, Lost, Rows
<1>2. MaxFaults - faultsLeft = 0 /\ Losses(0) \in Nat
  BY Counts, LossesGrow DEF TriageInit
<1>3. Cardinality(Lost) <= Losses(MaxFaults - faultsLeft)
  BY <1>1, <1>2, FS_EmptySet
<1>4. \A c \in Consumers : HandOK(c)
  BY DEF TriageInit, HandOK
<1> QED BY <1>3, <1>4 DEF TickInv

\* A scored row gets its tickers: at most one row for each consumer is left
\* without them per fault, whatever is redelivered meanwhile.
THEOREM TickersAreWritten == TriageSpec => []TickersFollow
<1>1. TickInv => TickersFollow
  BY DEF TickInv, TickersFollow, Lost, Losses
<1>2. TriageInit => TriageInv /\ TickInv
  BY TriageInitInv, TickInit
<1>3. TriageInv /\ TickInv /\ [TriageNext]_triageVars => (TriageInv /\ TickInv)'
  BY TriageStepInv, TickStep
<1> QED BY <1>1, <1>2, <1>3, PTL DEF TriageSpec
-----------------------------------------------------------------------------
(***************************************************************************)
(* The adapters.                                                           *)
(***************************************************************************)
Rest(s) == Range(polling[s])

AdaptersType ==
    /\ stream \in Seq(Items)
    /\ shape \in [Sources -> Shapes]
    /\ listed \subseteq Items /\ cut \subseteq Items
    /\ cursor \in [Sources -> Nat] /\ newest \in [Sources -> Nat] /\ aborts \in [Sources -> Nat]
    /\ since \in [Sources -> Nat]
    /\ polling \in [Sources -> Seq(Items)]
    /\ added \in [Sources -> SUBSET Items]

\* A poll works on listed items of its source, each of them once; what is
\* added is the first of them, and it is on the stream.
PollIsListed(s) ==
    /\ Rest(s) \subseteq ItemsOf(s)
    /\ \A m, n \in DOMAIN polling[s] : m < n => polling[s][m] # polling[s][n]
    /\ \A i \in added[s] : polling[s] # <<>> /\ i = Head(polling[s]) /\ Published(i)
    /\ s \in Pushed => PollOver(s)

\* The handlers of telegram: one for each message under way, which is on the
\* stream once its XADD was answered.
HandlersAreSound ==
    /\ handlers \subseteq [item : listed, sent : BOOLEAN, marks : [Pushed -> Nat]]
    /\ \A h \in handlers : Source[h.item] \in Pushed /\ (h.sent => Published(h.item))
    /\ \A g, h \in handlers : g.item = h.item => g = h

Awaits(i) == \E h \in handlers : h.item = i /\ ~h.sent

\* A cursor that is compared with is the stamp of a listed item, and so is the
\* beginning of the last hour.
CursorIsListed(s) ==
    /\ cursor[s] = 0 \/ s \in Pushed \/ \E i \in ItemsOf(s) : Stamp[i] = cursor[s]
    /\ since[s] = 0 \/ \E i \in ItemsOf(s) : Stamp[i] = since[s]
    /\ since[s] # 0 => shape[s] = "oldest_first"
    /\ newest[s] = 0 \/ \E i \in ItemsOf(s) : Stamp[i] = newest[s]

\* What the next poll asks for.
Fresh(s, i) == Stamp[i] > cursor[s] /\ (cursor[s] = 0 => Stamp[i] > since[s])

\* How far a poll has come.
PollAdvances(s) ==
    /\ \A m, n \in DOMAIN polling[s] : m < n => InOrder(s, polling[s][m], polling[s][n])
    /\ newest[s] = 0 => \A i \in Rest(s) : Fresh(s, i)
    /\ newest[s] # 0 => cursor[s] # 0 /\ cursor[s] <= newest[s]
    /\ newest[s] # 0 /\ shape[s] = "oldest_first" =>
          /\ newest[s] = cursor[s]
          /\ \A i \in Rest(s) : Stamp[i] >= cursor[s]
          /\ \E j \in ItemsOf(s) \ Rest(s) : Stamp[j] = cursor[s]

PollIsSound(s) == PollIsListed(s) /\ CursorIsListed(s) /\ PollAdvances(s)

\* Items that the next polls will answer with.
Ahead(i) ==
    /\ Source[i] \notin Pushed
    /\ Fresh(Source[i], i) /\ Stamp[i] > newest[Source[i]]
    /\ \A j \in Rest(Source[i]) : Stamp[i] > Stamp[j]

Accounted(i) == Published(i) \/ i \in cut \/ i \in Rest(Source[i]) \/ Ahead(i) \/ Awaits(i)

AdaptersKept ==
    /\ AdaptersType
    /\ HandlersAreSound
    /\ \A s \in Sources : PollIsSound(s)
    /\ \A i \in listed : Accounted(i)

(***************************************************************************)
(* How often an item is published.                                         *)
(***************************************************************************)
CopiesIn(q, i) == Cardinality({k \in DOMAIN q : q[k] = i})
Copies(i) == CopiesIn(stream, i)

\* It may be published once more without a new abort.
Owed(i) ==
    \/ i \notin listed
    \/ i \in Rest(Source[i]) \ added[Source[i]]
    \/ /\ i \notin added[Source[i]] /\ Source[i] \notin Pushed
       /\ Stamp[i] > cursor[Source[i]] /\ Stamp[i] > newest[Source[i]]
    \/ Awaits(i)

CopiesBounded(i) ==
    /\ i \notin listed => Copies(i) = 0
    /\ shape[Source[i]] # "newest_first" =>
          /\ Copies(i) <= 1 + aborts[Source[i]]
          /\ Owed(i) => Copies(i) <= aborts[Source[i]]

AdaptersInv == AdaptersKept /\ \A i \in Items : CopiesBounded(i)
-----------------------------------------------------------------------------
LEMMA StampsAreNumbers ==
    /\ \A i \in Items : Stamp[i] \in Nat /\ Stamp[i] > 0 /\ Source[i] \in Sources
    /\ \A m, n \in Nat : /\ Larger(m, n) \in Nat /\ Larger(m, n) \in {m, n}
                         /\ m <= Larger(m, n) /\ n <= Larger(m, n)
BY AdaptersAssumption DEF Larger

LEMMA TailOfPoll ==
    ASSUME NEW q \in Seq(Items), q # <<>>
    PROVE  /\ Tail(q) \in Seq(Items) /\ Head(q) \in Items
           /\ DOMAIN Tail(q) = 1..(Len(q) - 1) /\ DOMAIN q = 1..Len(q) /\ Len(q) \in Nat \ {0}
           /\ \A n \in DOMAIN Tail(q) : Tail(q)[n] = q[n + 1] /\ n + 1 \in DOMAIN q
           /\ Head(q) = q[1] /\ 1 \in DOMAIN q
           /\ Range(q) = {Head(q)} \cup Range(Tail(q))
<1>1. /\ Tail(q) \in Seq(Items) /\ Len(q) \in Nat \ {0} /\ DOMAIN q = 1..Len(q)
      /\ Len(Tail(q)) = Len(q) - 1 /\ Head(q) = q[1]
      /\ \A n \in 1..(Len(q) - 1) : Tail(q)[n] = q[n + 1]
  BY HeadTailProperties
<1>2. DOMAIN Tail(q) = 1..(Len(q) - 1)
  BY <1>1
<1>3. \A n \in DOMAIN q : n = 1 \/ (n - 1 \in DOMAIN Tail(q) /\ q[n] = Tail(q)[n - 1])
  BY <1>1, <1>2
<1>4. Head(q) \in Items
  BY <1>1
<1>5. \A n \in DOMAIN Tail(q) : Tail(q)[n] = q[n + 1] /\ n + 1 \in DOMAIN q
  BY <1>1, <1>2
<1>6. Range(q) = {Head(q)} \cup Range(Tail(q))
  <2>1. ASSUME NEW x \in Range(q) PROVE x \in {Head(q)} \cup Range(Tail(q))
    <3>1. PICK n \in DOMAIN q : x = q[n]
      BY DEF Range
    <3> QED BY <1>1, <1>3, <3>1 DEF Range
  <2>2. ASSUME NEW x \in Range(Tail(q)) PROVE x \in Range(q)
    <3>1. PICK n \in DOMAIN Tail(q) : x = Tail(q)[n]
      BY <2>2 DEF Range
    <3> QED BY <1>5, <3>1 DEF Range
  <2>3. Head(q) \in Range(q)
    BY <1>1 DEF Range
  <2> QED BY <2>1, <2>2, <2>3
<1> QED BY <1>1, <1>2, <1>4, <1>5, <1>6

LEMMA PublishedAppend ==
    ASSUME stream \in Seq(Items), NEW i \in Items, XAdd(i)
    PROVE  /\ stream' \in Seq(Items) /\ Published(i)'
           /\ \A j : Published(j) => Published(j)'
<1>1. /\ stream' = Append(stream, i) /\ Len(stream) \in Nat
      /\ Len(stream') = Len(stream) + 1 /\ DOMAIN stream = 1..Len(stream)
      /\ DOMAIN stream' = 1..(Len(stream) + 1) /\ stream' \in Seq(Items)
      /\ stream'[Len(stream) + 1] = i
      /\ \A k \in 1..Len(stream) : stream'[k] = stream[k]
  BY DEF XAdd
<1>2. Published(i)'
  BY <1>1 DEF Published
<1>3. \A j : Published(j) => Published(j)'
  BY <1>1 DEF Published
<1> QED BY <1>1, <1>2, <1>3

\* A step that concerns one source leaves the others alone.
OthersStay(s) ==
    /\ shape' = shape
    /\ \A t \in Sources \ {s} :
          /\ cursor'[t] = cursor[t] /\ polling'[t] = polling[t] /\ added'[t] = added[t]
          /\ newest'[t] = newest[t] /\ aborts'[t] = aborts[t]

\* The cursor of a source that pushes may move: nothing is compared with it.
SameCursor(t) == t \in Pushed \/ cursor'[t] = cursor[t]

LEMMA SourceFramed ==
    ASSUME NEW t \in Sources, PollIsSound(t), shape' = shape, listed \subseteq listed',
           SameCursor(t), polling'[t] = polling[t], added'[t] = added[t], since'[t] = since[t],
           newest'[t] = newest[t], \A j : Published(j) => Published(j)'
    PROVE  PollIsSound(t)'
<1>1. /\ ItemsOf(t) \subseteq ItemsOf(t)' /\ Rest(t)' = Rest(t)
      /\ (PollOver(t)' <=> PollOver(t)) /\ (t \in Pushed' <=> t \in Pushed)
  BY DEF ItemsOf, Rest, PollOver, Pushed
<1>2. \A i, j : InOrder(t, i, j)' <=> InOrder(t, i, j)
  BY DEF InOrder
<1>3. PollIsListed(t)'
  BY <1>1 DEF PollIsSound, PollIsListed
<1>4. CursorIsListed(t)'
  BY <1>1 DEF PollIsSound, CursorIsListed, SameCursor
<1>5. PollAdvances(t)'
  <2>1. CASE t \in Pushed
    <3>1. newest[t] = 0 /\ Rest(t) = {}
      BY <2>1 DEF PollIsSound, PollIsListed, PollOver, Rest, Range
    <3> QED BY <1>1, <1>2, <3>1 DEF PollIsSound, PollAdvances
  <2>2. CASE cursor'[t] = cursor[t]
    <3>1. \A i : Fresh(t, i)' <=> Fresh(t, i)
      BY <2>2 DEF Fresh
    <3> QED BY <1>1, <1>2, <2>2, <3>1 DEF PollIsSound, PollAdvances
  <2> QED BY <2>1, <2>2 DEF SameCursor
<1> QED BY <1>3, <1>4, <1>5 DEF PollIsSound

LEMMA ItemFramed ==
    ASSUME NEW i, Accounted(i), cut \subseteq cut', shape' = shape,
           SameCursor(Source[i]), polling'[Source[i]] = polling[Source[i]],
           newest'[Source[i]] = newest[Source[i]], since'[Source[i]] = since[Source[i]],
           Awaits(i) => Awaits(i)' \/ Published(i)' \/ i \in cut',
           \A j : Published(j) => Published(j)'
    PROVE  Accounted(i)'
<1>1. Rest(Source[i])' = Rest(Source[i]) /\ Pushed' = Pushed
  BY DEF Rest, Pushed
<1> QED BY <1>1 DEF Accounted, Ahead, Fresh, SameCursor

LEMMA HandlersFramed ==
    ASSUME HandlersAreSound, UNCHANGED <<shape, handlers>>, listed \subseteq listed',
           \A j : Published(j) => Published(j)'
    PROVE  HandlersAreSound' /\ \A i : Awaits(i)' <=> Awaits(i)
<1>1. Pushed' = Pushed
  BY DEF Pushed
<1>2. \A i : Awaits(i)' <=> Awaits(i)
  BY DEF Awaits
<1>3. \A h \in handlers : h \in [item : listed', sent : BOOLEAN, marks : [Pushed -> Nat]]
  BY DEF HandlersAreSound
<1> QED BY <1>1, <1>2, <1>3 DEF HandlersAreSound

\* Where the polls resume.
LEMMA BeyondIsFresh ==
    ASSUME AdaptersType, NEW s \in Sources
    PROVE  BeyondCursor(s) = {i \in ItemsOf(s) : Fresh(s, i)}
<1> SUFFICES ASSUME NEW i \in ItemsOf(s) PROVE Stamp[i] > Resume(s) <=> Fresh(s, i)
  BY DEF BeyondCursor
<1>1. Stamp[i] \in Nat /\ Stamp[i] > 0 /\ cursor[s] \in Nat /\ since[s] \in Nat
  BY StampsAreNumbers DEF ItemsOf, AdaptersType
<1> QED BY <1>1 DEF Resume, Fresh, None

LEMMA AdaptersInitInv == stream = <<>> /\ AdaptersInit => AdaptersInv
<1> SUFFICES ASSUME stream = <<>>, AdaptersInit PROVE AdaptersInv
  OBVIOUS
<1>1. AdaptersType
  BY DEF AdaptersInit, AdaptersType, None
<1>2. \A s \in Sources : /\ polling[s] = <<>> /\ DOMAIN polling[s] = {} /\ Rest(s) = {}
                         /\ added[s] = {} /\ newest[s] = 0 /\ cursor[s] = 0 /\ since[s] = 0
  BY DEF AdaptersInit, None, Rest, Range
<1>3. \A s \in Sources : PollIsSound(s)
  BY <1>2 DEF PollIsSound, PollIsListed, CursorIsListed, PollAdvances, PollOver
<1>4. \A i : i \notin listed
  BY DEF AdaptersInit
<1>5. \A i \in Items : Copies(i) = 0
  BY FS_EmptySet DEF Copies, CopiesIn
<1>6. \A i \in Items : aborts[Source[i]] = 0
  BY StampsAreNumbers DEF AdaptersInit
<1>7. HandlersAreSound
  BY DEF AdaptersInit, HandlersAreSound
<1> QED BY <1>1, <1>3, <1>4, <1>5, <1>6, <1>7 DEF AdaptersInv, AdaptersKept, CopiesBounded

LEMMA AppearKeeps ==
    ASSUME AdaptersKept, NEW i \in Items, Appear(i) PROVE AdaptersKept'
<1> USE DEF AdaptersKept
<1>1. /\ i \notin listed /\ listed' = listed \cup {i} /\ cut \subseteq cut'
      /\ UNCHANGED <<stream, shape, cursor, since, polling, added, newest, handlers, aborts>>
      /\ cut' \subseteq cut \cup {i}
      /\ i \notin cut' => \A j \in ItemsOf(Source[i]) : ~(Stamp[j] >= Stamp[i])
  BY DEF Appear
<1>2. AdaptersType'
  BY <1>1 DEF AdaptersType
<1>3. \A j : Published(j)' <=> Published(j)
  BY <1>1 DEF Published
<1>7. HandlersAreSound' /\ \A j : Awaits(j)' <=> Awaits(j)
  BY <1>1, <1>3, HandlersFramed
<1>4. \A s \in Sources : PollIsSound(s)'
  BY <1>1, <1>3, SourceFramed DEF SameCursor
<1>5. \A j \in listed : Accounted(j)'
  BY <1>1, <1>3, <1>7, ItemFramed DEF SameCursor
<1>6. Accounted(i)'
  <2> SUFFICES ASSUME i \notin cut' PROVE Ahead(i)'
    BY DEF Accounted
  <2>1. PICK s \in Sources : s = Source[i]
    BY StampsAreNumbers
  <2>2. \A j \in ItemsOf(s) : j \in Items /\ Stamp[j] < Stamp[i]
    <3>1. \A j \in ItemsOf(s) : j \in Items /\ ~(Stamp[j] >= Stamp[i])
      BY <1>1, <2>1 DEF ItemsOf, AdaptersType
    <3> QED BY <3>1, StampsAreNumbers
  <2>3. PollIsListed(s) /\ CursorIsListed(s) /\ Stamp[i] > 0
    BY StampsAreNumbers DEF PollIsSound
  <2>5. s \notin Pushed /\ s \notin Pushed'
    BY <1>1, <2>1 DEF Appear, Pushed
  <2>4. /\ Stamp[i] > cursor[s] /\ Stamp[i] > since[s] /\ Stamp[i] > newest[s]
        /\ \A j \in Rest(s) : Stamp[i] > Stamp[j]
    BY <2>2, <2>3, <2>5, StampsAreNumbers DEF PollIsListed, CursorIsListed
  <2> QED BY <1>1, <2>1, <2>4, <2>5 DEF Ahead, Fresh, Rest
<1> QED BY <1>1, <1>2, <1>4, <1>5, <1>6, <1>7

LEMMA FetchKeeps ==
    ASSUME AdaptersKept, NEW s \in Sources, Fetch(s) PROVE AdaptersKept' /\ OthersStay(s)
<1> USE DEF AdaptersKept
<1>0. PICK n \in 1..Page[s] : \E q \in [1..n -> BeyondCursor(s)] :
             /\ IsAnswer(s, q) /\ polling' = [polling EXCEPT ![s] = q]
             /\ cut' = cut \cup LeftOut(s, q)
  BY DEF Fetch
<1>1. n \in Nat
  BY AdaptersAssumption
<1>2. PICK q \in [1..n -> BeyondCursor(s)] : /\ IsAnswer(s, q)
             /\ polling' = [polling EXCEPT ![s] = q] /\ cut' = cut \cup LeftOut(s, q)
  BY <1>0
<1>3. /\ UNCHANGED <<stream, shape, listed, cursor, since, added, newest, handlers, aborts>>
      /\ s \notin Pushed /\ s \notin Pushed'
      /\ polling[s] = <<>> /\ added[s] = {} /\ newest[s] = 0
  BY DEF Fetch, PollOver, Pushed
<1>4. /\ BeyondCursor(s) = {i \in ItemsOf(s) : Fresh(s, i)} /\ ItemsOf(s) \subseteq Items
      /\ BeyondCursor(s) \subseteq ItemsOf(s)
  BY BeyondIsFresh DEF ItemsOf, AdaptersType
<1>5. q \in Seq(Items) /\ DOMAIN q = 1..n /\ Range(q) \subseteq BeyondCursor(s)
  BY <1>1, <1>4, SeqDef DEF Range
<1>6. polling'[s] = q /\ \A t \in Sources \ {s} : polling'[t] = polling[t]
  BY <1>2 DEF AdaptersType
<1>7. AdaptersType'
  <2>1. cut' \subseteq Items
    BY <1>2, <1>4 DEF LeftOut, AdaptersType
  <2>2. polling' \in [Sources -> Seq(Items)]
    BY <1>2, <1>5 DEF AdaptersType
  <2> QED BY <1>3, <2>1, <2>2 DEF AdaptersType
<1>8. OthersStay(s)
  BY <1>3, <1>6 DEF OthersStay
<1>9. \A j : Published(j)' <=> Published(j)
  BY <1>3 DEF Published
<1>14. HandlersAreSound' /\ \A j : Awaits(j)' <=> Awaits(j)
  BY <1>3, <1>9, HandlersFramed
<1>10. \A t \in Sources \ {s} : PollIsSound(t)'
  BY <1>3, <1>6, <1>9, SourceFramed DEF SameCursor
<1>11. Rest(s)' = Range(q) /\ ItemsOf(s)' = ItemsOf(s)
  BY <1>3, <1>6 DEF Rest, ItemsOf
<1>12. PollIsSound(s)'
  <2>1. PollIsListed(s)'
    <3>1. \A j, k \in DOMAIN q : j < k => q[j] # q[k]
      BY <1>2 DEF IsAnswer
    <3>2. Range(q) \subseteq ItemsOf(s)
      BY <1>4, <1>5
    <3> QED BY <1>3, <1>6, <1>11, <3>1, <3>2 DEF PollIsListed
  <2>2. CursorIsListed(s)'
    BY <1>3, <1>11 DEF PollIsSound, CursorIsListed, Pushed
  <2>3. \A j, k : InOrder(s, j, k)' <=> InOrder(s, j, k)
    BY <1>3 DEF InOrder
  <2>4. \A j \in Range(q) : Fresh(s, j)'
    BY <1>3, <1>4, <1>5 DEF Fresh
  <2>5. \A j, k \in DOMAIN q : j < k => InOrder(s, q[j], q[k])
    BY <1>2 DEF IsAnswer
  <2>6. PollAdvances(s)'
    BY <1>3, <1>6, <1>11, <2>3, <2>4, <2>5 DEF PollAdvances
  <2> QED BY <2>1, <2>2, <2>6 DEF PollIsSound
<1>13. \A i \in listed : Accounted(i)'
  <2> SUFFICES ASSUME NEW i \in listed PROVE Accounted(i)'
    OBVIOUS
  <2>0. i \in Items /\ Source[i] \in Sources /\ Accounted(i)
    BY StampsAreNumbers DEF AdaptersType
  <2>1. CASE Source[i] # s
    BY <1>2, <1>3, <1>6, <1>9, <1>14, <2>0, <2>1, ItemFramed DEF SameCursor
  <2>2. CASE Source[i] = s /\ i \in Range(q)
    BY <1>11, <2>2 DEF Accounted
  <2>3. CASE Source[i] = s /\ i \notin BeyondCursor(s)
    <3>1. ~Fresh(s, i)
      BY <1>4, <2>3 DEF ItemsOf
    <3>2. i \notin Rest(s)
      BY <1>3 DEF Rest, Range
    <3>3. Published(i) \/ i \in cut \/ Awaits(i)
      BY <2>0, <2>3, <3>1, <3>2 DEF Accounted, Ahead
    <3> QED BY <1>2, <1>9, <1>14, <3>3 DEF Accounted
  <2>4. CASE Source[i] = s /\ i \in BeyondCursor(s) \ Range(q)
    <3>1. CASE i \in LeftOut(s, q)
      BY <1>2, <3>1 DEF Accounted
    <3>2. CASE i \notin LeftOut(s, q)
      <4>1. shape[s] = "oldest_first" /\ \A j \in Range(q) : Stamp[j] # Stamp[i]
        BY <2>4, <3>2 DEF LeftOut
      <4>2. \A j \in Range(q) : Stamp[j] <= Stamp[i]
        BY <1>2, <2>4, <4>1 DEF IsAnswer, InOrder, Range
      <4>3. \A j \in Range(q) : j \in Items
        BY <1>4, <1>5
      <4>4. \A j \in Range(q) : Stamp[i] > Stamp[j]
        <5> SUFFICES ASSUME NEW j \in Range(q) PROVE Stamp[i] > Stamp[j]
          OBVIOUS
        <5>1. Stamp[i] \in Nat /\ Stamp[j] \in Nat
          BY <2>0, <4>3, StampsAreNumbers
        <5> QED BY <4>1, <4>2, <5>1
      <4>5. Fresh(s, i)' /\ Stamp[i] > 0
        BY <1>3, <1>4, <2>0, <2>4, StampsAreNumbers DEF Fresh
      <4> QED BY <1>3, <1>11, <2>4, <4>4, <4>5 DEF Accounted, Ahead
    <3> QED BY <3>1, <3>2
  <2> QED BY <2>1, <2>2, <2>3, <2>4
<1> QED BY <1>3, <1>7, <1>8, <1>10, <1>12, <1>13, <1>14

LEMMA EmitKeeps ==
    ASSUME AdaptersKept, NEW s \in Sources, Emit(s)
    PROVE  AdaptersKept' /\ OthersStay(s) /\ Head(polling[s]) \in ItemsOf(s)
<1> USE DEF AdaptersKept
<1>1. PICK h : h = Head(polling[s])
  OBVIOUS
<1>2. /\ polling[s] # <<>> /\ added[s] = {} /\ XAdd(h)
      /\ UNCHANGED <<shape, listed, cursor, since, polling, newest, handlers, cut, aborts>>
      /\ added'[s] = {h} /\ \A t \in Sources \ {s} : added'[t] = added[t]
  BY <1>1 DEF Emit, AdaptersType
<1>3. /\ h \in Items /\ h \in Rest(s) /\ PollIsListed(s) /\ h \in ItemsOf(s)
  BY <1>1, <1>2, TailOfPoll DEF AdaptersType, PollIsSound, PollIsListed, Rest
<1>4. /\ stream' \in Seq(Items) /\ Published(h)'
      /\ \A j : Published(j) => Published(j)'
  BY <1>2, <1>3, PublishedAppend DEF AdaptersType
<1>5. AdaptersType'
  BY <1>1, <1>2, <1>3, <1>4 DEF AdaptersType, Emit
<1>10. HandlersAreSound' /\ \A j : Awaits(j)' <=> Awaits(j)
  BY <1>2, <1>4, HandlersFramed
<1>6. \A t \in Sources \ {s} : PollIsSound(t)'
  BY <1>2, <1>4, SourceFramed DEF SameCursor
<1>7. PollIsSound(s)'
  <2>1. s \notin Pushed /\ s \notin Pushed'
    BY <1>2, <1>3 DEF PollIsListed, PollOver, Pushed
  <2>2. PollIsListed(s)'
    <3>1. Rest(s)' = Rest(s) /\ ItemsOf(s)' = ItemsOf(s) /\ polling'[s] = polling[s] /\ shape' = shape
      BY <1>2 DEF Rest, ItemsOf
    <3>2. \A i \in added'[s] : polling'[s] # <<>> /\ i = Head(polling'[s]) /\ Published(i)'
      BY <1>1, <1>2, <1>4
    <3> QED BY <1>3, <2>1, <3>1, <3>2 DEF PollIsListed
  <2>3. \A i, j : InOrder(s, i, j)' <=> InOrder(s, i, j)
    BY <1>2 DEF InOrder
  <2>4. CursorIsListed(s)' /\ PollAdvances(s)'
    BY <1>2, <2>1, <2>3 DEF PollIsSound, CursorIsListed, PollAdvances, Rest, ItemsOf, Fresh
  <2> QED BY <2>2, <2>4 DEF PollIsSound
<1>8. \A i \in listed : Accounted(i)'
  BY <1>2, <1>4, <1>10, ItemFramed DEF SameCursor
<1>9. OthersStay(s)
  BY <1>2 DEF OthersStay
<1> QED BY <1>1, <1>2, <1>3, <1>5, <1>6, <1>7, <1>8, <1>9, <1>10

\* What a commit does, h being the item of the last XADD.
LEMMA CommitMoves ==
    ASSUME AdaptersType, NEW s \in Sources, PollIsListed(s), CommitCursor(s)
    PROVE  \E h \in Items :
              /\ polling[s] # <<>> /\ h = Head(polling[s]) /\ added[s] = {h} /\ Published(h)
              /\ h \in ItemsOf(s) /\ Source[h] = s /\ s \notin Pushed
              /\ cursor' = [cursor EXCEPT ![s] = Stamp[h]] /\ cursor'[s] = Stamp[h]
              /\ added' = [added EXCEPT ![s] = {}] /\ added'[s] = {}
              /\ polling' = [polling EXCEPT ![s] = Tail(polling[s])] /\ polling'[s] = Tail(polling[s])
              /\ newest' = [newest EXCEPT ![s] = Larger(newest[s], Stamp[h])]
              /\ newest'[s] = Larger(newest[s], Stamp[h])
              /\ UNCHANGED <<stream, shape, listed, since, handlers, cut, aborts>>
              /\ OthersStay(s)
<1>1. PICK h \in added[s] : /\ cursor' = [cursor EXCEPT ![s] = Stamp[h]]
              /\ added' = [added EXCEPT ![s] = {}]
              /\ polling' = [polling EXCEPT ![s] = Tail(polling[s])]
              /\ newest' = [newest EXCEPT ![s] = Larger(newest[s], Stamp[h])]
              /\ UNCHANGED <<stream, shape, listed, since, handlers, cut, aborts>>
  BY DEF CommitCursor, AdaptersType
<1>2. polling[s] # <<>> /\ h = Head(polling[s]) /\ added[s] = {h} /\ Published(h)
      /\ polling[s] \in Seq(Items) /\ s \notin Pushed
  BY <1>1 DEF PollIsListed, AdaptersType, PollOver
<1>3. h \in Items /\ h \in ItemsOf(s) /\ Source[h] = s
  BY <1>2, TailOfPoll DEF PollIsListed, Rest, ItemsOf
<1>4. /\ cursor'[s] = Stamp[h] /\ added'[s] = {} /\ polling'[s] = Tail(polling[s])
      /\ newest'[s] = Larger(newest[s], Stamp[h])
  BY <1>1 DEF AdaptersType
<1>5. OthersStay(s)
  BY <1>1 DEF OthersStay, AdaptersType
<1> QED BY <1>1, <1>2, <1>3, <1>4, <1>5

LEMMA CommitKeeps ==
    ASSUME AdaptersKept, NEW s \in Sources, CommitCursor(s) PROVE AdaptersKept'
<1> USE DEF AdaptersKept
<1>1. PollIsListed(s) /\ CursorIsListed(s) /\ PollAdvances(s)
  BY DEF PollIsSound
<1>2. PICK h \in Items :
              /\ polling[s] # <<>> /\ h = Head(polling[s]) /\ added[s] = {h} /\ Published(h)
              /\ h \in ItemsOf(s) /\ Source[h] = s /\ s \notin Pushed
              /\ cursor' = [cursor EXCEPT ![s] = Stamp[h]] /\ cursor'[s] = Stamp[h]
              /\ added' = [added EXCEPT ![s] = {}] /\ added'[s] = {}
              /\ polling' = [polling EXCEPT ![s] = Tail(polling[s])] /\ polling'[s] = Tail(polling[s])
              /\ newest' = [newest EXCEPT ![s] = Larger(newest[s], Stamp[h])]
              /\ newest'[s] = Larger(newest[s], Stamp[h])
              /\ UNCHANGED <<stream, shape, listed, since, handlers, cut, aborts>>
              /\ OthersStay(s)
  BY <1>1, CommitMoves
<1>3. PICK q : q = polling[s] /\ q \in Seq(Items) /\ q # <<>>
  BY <1>2 DEF AdaptersType
<1>4. /\ Tail(q) \in Seq(Items) /\ DOMAIN Tail(q) = 1..(Len(q) - 1)
      /\ DOMAIN q = 1..Len(q) /\ Len(q) \in Nat \ {0}
      /\ \A n \in DOMAIN Tail(q) : Tail(q)[n] = q[n + 1] /\ n + 1 \in DOMAIN q
      /\ h = q[1] /\ 1 \in DOMAIN q
      /\ Range(q) = {h} \cup Range(Tail(q)) /\ Rest(s)' = Range(Tail(q)) /\ Rest(s) = Range(q)
  BY <1>2, <1>3, TailOfPoll DEF Rest
<1>5. \A m, n \in DOMAIN q : m < n => q[m] # q[n] /\ InOrder(s, q[m], q[n])
  BY <1>1, <1>3 DEF PollIsListed, PollAdvances
<1>6. \A m, n \in DOMAIN Tail(q) : m < n => Tail(q)[m] # Tail(q)[n] /\ InOrder(s, Tail(q)[m], Tail(q)[n])
  BY <1>4, <1>5
<1>7. \A i \in Range(Tail(q)) : i # h /\ InOrder(s, h, i)
  <2> SUFFICES ASSUME NEW n \in DOMAIN Tail(q) PROVE Tail(q)[n] # h /\ InOrder(s, h, Tail(q)[n])
    BY DEF Range
  <2>1. 1 < n + 1 /\ n + 1 \in DOMAIN q
    BY <1>4
  <2> QED BY <1>4, <1>5, <2>1
<1>8. Stamp[h] \in Nat /\ Stamp[h] > 0 /\ cursor[s] \in Nat /\ newest[s] \in Nat
  BY StampsAreNumbers DEF AdaptersType
<1>9. PICK m \in Nat : /\ m = newest'[s] /\ m \in {newest[s], Stamp[h]}
                       /\ newest[s] <= m /\ Stamp[h] <= m /\ m # 0
  <2>1. PICK m \in Nat : /\ m = Larger(newest[s], Stamp[h]) /\ m \in {newest[s], Stamp[h]}
                         /\ newest[s] <= m /\ Stamp[h] <= m
    BY <1>8, StampsAreNumbers
  <2> QED BY <1>2, <1>8, <2>1
<1>10. AdaptersType'
  <2>1. polling' \in [Sources -> Seq(Items)]
    BY <1>2, <1>3, <1>4 DEF AdaptersType
  <2>2. newest' \in [Sources -> Nat]
    BY <1>2, <1>9 DEF AdaptersType
  <2> QED BY <1>2, <1>8, <2>1, <2>2 DEF AdaptersType
<1>11. \A j : Published(j)' <=> Published(j)
  BY <1>2 DEF Published
<1>18. HandlersAreSound' /\ \A j : Awaits(j)' <=> Awaits(j)
  BY <1>2, <1>11, HandlersFramed
<1>12. \A t \in Sources \ {s} : PollIsSound(t)'
  BY <1>2, <1>11, SourceFramed DEF OthersStay, SameCursor
<1>13. ItemsOf(s)' = ItemsOf(s) /\ Pushed' = Pushed
  BY <1>2 DEF ItemsOf, Pushed
<1>14. PollIsListed(s)'
  BY <1>1, <1>2, <1>3, <1>4, <1>6, <1>13 DEF PollIsListed
<1>15. CursorIsListed(s)'
  BY <1>1, <1>2, <1>9, <1>13 DEF CursorIsListed
<1>16. PollAdvances(s)'
  <2>1. \A i, j : InOrder(s, i, j)' <=> InOrder(s, i, j)
    BY <1>2 DEF InOrder
  <2>2. \A i, j \in DOMAIN Tail(q) : i < j => InOrder(s, Tail(q)[i], Tail(q)[j])'
    BY <1>6, <2>1
  <2>3. ASSUME shape[s] = "oldest_first"
        PROVE  /\ newest'[s] = cursor'[s]
               /\ \A i \in Range(Tail(q)) : Stamp[i] >= Stamp[h]
               /\ h \in ItemsOf(s)' \ Rest(s)'
    <3>1. newest[s] <= Stamp[h]
      BY <1>1, <1>4, <1>8, <2>3 DEF PollAdvances
    <3>2. m = Stamp[h]
      BY <1>8, <1>9, <3>1
    <3>3. \A i \in Range(Tail(q)) : Stamp[h] <= Stamp[i] /\ i \in Items
      BY <1>1, <1>4, <1>7, <2>3 DEF InOrder, PollIsListed, ItemsOf, AdaptersType
    <3>4. \A i \in Range(Tail(q)) : Stamp[i] >= Stamp[h]
      BY <1>8, <3>3, StampsAreNumbers
    <3> QED BY <1>2, <1>4, <1>7, <1>9, <1>13, <3>2, <3>4
  <2>4. cursor'[s] <= newest'[s] /\ newest'[s] # 0 /\ cursor'[s] # 0
    BY <1>2, <1>8, <1>9
  <2>5. polling'[s] = Tail(q) /\ shape'[s] = shape[s] /\ cursor'[s] = Stamp[h]
    BY <1>2, <1>3
  <2>6. (\A i, j \in DOMAIN polling[s] : i < j => InOrder(s, polling[s][i], polling[s][j]))'
    BY <2>2, <2>5 DEF InOrder
  <2>7. Rest(s)' = Range(Tail(q))
    BY <1>4
  <2>9. (newest[s] = 0 => \A i \in Rest(s) : Fresh(s, i))'
    BY <2>4
  <2>10. (newest[s] # 0 => cursor[s] # 0 /\ cursor[s] <= newest[s])'
    BY <2>4
  <2>11. (newest[s] # 0 /\ shape[s] = "oldest_first" =>
            /\ newest[s] = cursor[s]
            /\ \A i \in Rest(s) : Stamp[i] >= cursor[s]
            /\ \E j \in ItemsOf(s) \ Rest(s) : Stamp[j] = cursor[s])'
    <3> SUFFICES ASSUME shape[s] = "oldest_first"
                 PROVE  /\ newest'[s] = cursor'[s]
                        /\ \A i \in Rest(s)' : Stamp[i] >= cursor'[s]
                        /\ \E j \in ItemsOf(s)' \ Rest(s)' : Stamp[j] = cursor'[s]
      BY <2>5
    <3> QED BY <2>3, <2>5, <2>7
  <2> QED BY <2>6, <2>9, <2>10, <2>11 DEF PollAdvances
<1>17. \A i \in listed : Accounted(i)'
  <2> SUFFICES ASSUME NEW i \in listed PROVE Accounted(i)'
    OBVIOUS
  <2>0. i \in Items /\ Source[i] \in Sources /\ Accounted(i) /\ Stamp[i] \in Nat
    BY StampsAreNumbers DEF AdaptersType
  <2>1. CASE Source[i] # s
    BY <1>2, <1>11, <1>18, <2>0, <2>1, ItemFramed DEF OthersStay, SameCursor
  <2>2. CASE Source[i] = s /\ (Published(i) \/ i \in cut \/ i \in Rest(s) \/ Awaits(i))
    BY <1>2, <1>4, <1>11, <1>18, <2>2 DEF Accounted
  <2>3. CASE Source[i] = s /\ Ahead(i)
    <3>1. Stamp[i] > Stamp[h] /\ Stamp[i] > newest[s] /\ \A j \in Range(Tail(q)) : Stamp[i] > Stamp[j]
      BY <1>4, <2>3 DEF Ahead
    <3>2. Stamp[i] > newest'[s]
      BY <1>9, <3>1
    <3>3. Fresh(s, i)'
      BY <1>2, <1>8, <3>1 DEF Fresh
    <3> QED BY <1>2, <1>4, <1>13, <2>3, <3>1, <3>2, <3>3 DEF Accounted, Ahead
  <2> QED BY <2>0, <2>1, <2>2, <2>3 DEF Accounted
<1> QED BY <1>2, <1>10, <1>12, <1>14, <1>15, <1>16, <1>17, <1>18 DEF PollIsSound

LEMMA PollEndsKeeps ==
    ASSUME AdaptersKept, NEW s \in Sources, PollEnds(s) PROVE AdaptersKept' /\ OthersStay(s)
<1> USE DEF AdaptersKept
<1>1. PollIsListed(s) /\ CursorIsListed(s) /\ PollAdvances(s)
  BY DEF PollIsSound
<1>2. /\ polling[s] = <<>> /\ newest[s] # 0 /\ newest' = [newest EXCEPT ![s] = 0]
      /\ UNCHANGED <<stream, shape, listed, since, polling, added, handlers, cut, aborts>>
      /\ cursor' = [cursor EXCEPT ![s] = newest[s]] \/ cursor' = cursor
  BY DEF PollEnds
<1>3. /\ newest'[s] = 0 /\ cursor'[s] \in {newest[s], cursor[s]}
      /\ cursor[s] <= newest[s] /\ newest[s] \in Nat /\ cursor[s] \in Nat /\ cursor[s] # 0
  BY <1>1, <1>2 DEF PollAdvances, AdaptersType
<1>4. AdaptersType'
  BY <1>2, <1>3 DEF AdaptersType
<1>5. OthersStay(s)
  BY <1>2 DEF OthersStay, AdaptersType
<1>6. \A j : Published(j)' <=> Published(j)
  BY <1>2 DEF Published
<1>12. HandlersAreSound' /\ \A j : Awaits(j)' <=> Awaits(j)
  BY <1>2, <1>6, HandlersFramed
<1>7. \A t \in Sources \ {s} : PollIsSound(t)'
  BY <1>2, <1>5, <1>6, SourceFramed DEF OthersStay, SameCursor
<1>8. /\ Rest(s)' = {} /\ Rest(s) = {} /\ ItemsOf(s)' = ItemsOf(s) /\ DOMAIN polling'[s] = {}
      /\ Pushed' = Pushed
  BY <1>2 DEF Rest, Range, ItemsOf, Pushed
<1>9. added[s] = {} /\ s \notin Pushed
  BY <1>1, <1>2 DEF PollIsListed, PollOver
<1>10. PollIsSound(s)'
  BY <1>1, <1>2, <1>3, <1>8, <1>9 DEF PollIsSound, PollIsListed, CursorIsListed, PollAdvances
<1>11. \A i \in listed : Accounted(i)'
  <2> SUFFICES ASSUME NEW i \in listed PROVE Accounted(i)'
    OBVIOUS
  <2>0. i \in Items /\ Source[i] \in Sources /\ Accounted(i) /\ Stamp[i] \in Nat /\ Stamp[i] > 0
    BY StampsAreNumbers DEF AdaptersType
  <2>1. CASE Source[i] # s
    BY <1>2, <1>5, <1>6, <1>12, <2>0, <2>1, ItemFramed DEF OthersStay, SameCursor
  <2>2. CASE Source[i] = s /\ (Published(i) \/ i \in cut \/ i \in Rest(s) \/ Awaits(i))
    BY <1>2, <1>6, <1>8, <1>12, <2>2 DEF Accounted
  <2>3. CASE Source[i] = s /\ Ahead(i)
    <3>1. Fresh(s, i)' /\ Stamp[i] > 0
      BY <1>2, <1>3, <2>0, <2>3 DEF Ahead, Fresh
    <3> QED BY <1>2, <1>3, <1>8, <2>3, <3>1 DEF Accounted, Ahead
  <2> QED BY <2>0, <2>1, <2>2, <2>3 DEF Accounted
<1> QED BY <1>2, <1>4, <1>5, <1>7, <1>10, <1>11, <1>12

LEMMA AbortKeeps ==
    ASSUME AdaptersKept, NEW s \in Sources, Abort(s) PROVE AdaptersKept'
<1> USE DEF AdaptersKept
<1>1. PollIsListed(s) /\ CursorIsListed(s) /\ PollAdvances(s)
  BY DEF PollIsSound
<1>2. /\ newest' = [newest EXCEPT ![s] = 0] /\ polling' = [polling EXCEPT ![s] = <<>>]
      /\ added' = [added EXCEPT ![s] = {}] /\ aborts' = [aborts EXCEPT ![s] = @ + 1]
      /\ cut' = cut \cup LeftBehind(s) /\ ~PollOver(s)
      /\ UNCHANGED <<stream, shape, listed, cursor, since, handlers>>
  BY DEF Abort, Aborted
<1>3. newest'[s] = 0 /\ polling'[s] = <<>> /\ added'[s] = {}
  BY <1>2 DEF AdaptersType
<1>4. Rest(s) \subseteq ItemsOf(s) /\ ItemsOf(s) \subseteq Items
  BY <1>1 DEF PollIsListed, ItemsOf, AdaptersType
<1>5. AdaptersType'
  <2>1. cut' \subseteq Items
    BY <1>2, <1>4 DEF LeftBehind, AdaptersType, Rest
  <2>2. polling' \in [Sources -> Seq(Items)]
    BY <1>2 DEF AdaptersType
  <2> QED BY <1>2, <2>1, <2>2 DEF AdaptersType
<1>6. \A t \in Sources \ {s} : /\ cursor'[t] = cursor[t] /\ polling'[t] = polling[t]
                              /\ added'[t] = added[t] /\ newest'[t] = newest[t]
  BY <1>2 DEF AdaptersType
<1>7. \A j : Published(j)' <=> Published(j)
  BY <1>2 DEF Published
<1>12. HandlersAreSound' /\ \A j : Awaits(j)' <=> Awaits(j)
  BY <1>2, <1>7, HandlersFramed
<1>8. \A t \in Sources \ {s} : PollIsSound(t)'
  BY <1>2, <1>6, <1>7, SourceFramed DEF SameCursor
<1>9. /\ Rest(s)' = {} /\ ItemsOf(s)' = ItemsOf(s) /\ DOMAIN polling'[s] = {}
      /\ Pushed' = Pushed /\ s \notin Pushed
  BY <1>1, <1>2, <1>3 DEF Rest, Range, ItemsOf, Pushed, PollIsListed
<1>10. PollIsSound(s)'
  BY <1>1, <1>2, <1>3, <1>9 DEF PollIsSound, PollIsListed, CursorIsListed, PollAdvances
<1>11. \A i \in listed : Accounted(i)'
  <2> SUFFICES ASSUME NEW i \in listed PROVE Accounted(i)'
    OBVIOUS
  <2>0. i \in Items /\ Source[i] \in Sources /\ Accounted(i) /\ Stamp[i] \in Nat /\ Stamp[i] > 0
    BY StampsAreNumbers DEF AdaptersType
  <2>1. CASE Source[i] # s
    BY <1>2, <1>6, <1>7, <1>12, <2>0, <2>1, ItemFramed DEF SameCursor
  <2>2. CASE Source[i] = s /\ (Published(i) \/ i \in cut \/ i \in LeftBehind(s) \/ Awaits(i))
    BY <1>2, <1>7, <1>12, <2>2 DEF Accounted
  <2>3. CASE Source[i] = s /\ Ahead(i)
    BY <1>2, <1>3, <1>9, <2>0, <2>3 DEF Accounted, Ahead, Fresh
  <2>4. CASE Source[i] = s /\ i \in Rest(s) /\ i \notin LeftBehind(s) /\ ~Published(i)
    <3>1. i \notin added[s]
      BY <1>1, <2>4 DEF PollIsListed
    <3>2. Fresh(s, i)
      <4>1. CASE newest[s] = 0
        BY <1>1, <2>4, <4>1 DEF PollAdvances
      <4>2. CASE newest[s] # 0
        <5>1. shape[s] = "oldest_first"
          BY <2>4, <3>1, <4>2 DEF LeftBehind, Rest
        <5>2. Stamp[i] >= cursor[s] /\ cursor[s] \in Nat
          BY <1>1, <2>4, <4>2, <5>1 DEF PollAdvances, AdaptersType
        <5>3. PICK j \in ItemsOf(s) \ Rest(s) : Stamp[j] = cursor[s]
          BY <1>1, <4>2, <5>1 DEF PollAdvances
        <5>4. Stamp[j] # Stamp[i]
          BY <2>4, <3>1, <5>1, <5>2, <5>3 DEF LeftBehind, Rest
        <5>5. cursor[s] # 0
          BY <1>1, <4>2 DEF PollAdvances
        <5> QED BY <2>0, <5>2, <5>3, <5>4, <5>5 DEF Fresh
      <4> QED BY <4>1, <4>2
    <3> QED BY <1>2, <1>3, <1>9, <2>0, <2>4, <3>2 DEF Accounted, Ahead, Fresh
  <2> QED BY <2>0, <2>1, <2>2, <2>3, <2>4 DEF Accounted
<1> QED BY <1>2, <1>5, <1>8, <1>10, <1>11, <1>12

LEMMA HourKeeps ==
    ASSUME AdaptersKept, NEW s \in Sources, HourPasses(s) PROVE AdaptersKept'
<1> USE DEF AdaptersKept
<1>1. PollIsListed(s) /\ CursorIsListed(s) /\ PollAdvances(s)
  BY DEF PollIsSound
<1>2. PICK h \in ItemsOf(s) : /\ since' = [since EXCEPT ![s] = Stamp[h]]
                             /\ cut' = cut \cup {j \in ItemsOf(s) : Stamp[j] <= Stamp[h]}
  BY DEF HourPasses
<1>3. /\ UNCHANGED <<stream, shape, listed, cursor, polling, added, newest, handlers, aborts>>
      /\ shape[s] = "oldest_first" /\ cursor[s] = 0
      /\ polling[s] = <<>> /\ added[s] = {} /\ newest[s] = 0
  BY DEF HourPasses, None, PollOver
<1>4. Stamp[h] \in Nat /\ ItemsOf(s) \subseteq Items
  BY StampsAreNumbers DEF ItemsOf, AdaptersType
<1>5. since'[s] = Stamp[h] /\ \A t \in Sources \ {s} : since'[t] = since[t]
  BY <1>2 DEF AdaptersType
<1>6. AdaptersType'
  BY <1>2, <1>3, <1>4 DEF AdaptersType
<1>7. \A j : Published(j)' <=> Published(j)
  BY <1>3 DEF Published
<1>8. HandlersAreSound' /\ \A j : Awaits(j)' <=> Awaits(j)
  BY <1>3, <1>7, HandlersFramed
<1>9. \A t \in Sources \ {s} : PollIsSound(t)'
  BY <1>3, <1>5, <1>7, SourceFramed DEF SameCursor
<1>10. /\ Rest(s)' = {} /\ Rest(s) = {} /\ ItemsOf(s)' = ItemsOf(s) /\ DOMAIN polling'[s] = {}
       /\ Pushed' = Pushed
  BY <1>3 DEF Rest, Range, ItemsOf, Pushed
<1>11. PollIsSound(s)'
  BY <1>1, <1>3, <1>5, <1>10 DEF PollIsSound, PollIsListed, CursorIsListed, PollAdvances, PollOver
<1>12. \A i \in listed : Accounted(i)'
  <2> SUFFICES ASSUME NEW i \in listed PROVE Accounted(i)'
    OBVIOUS
  <2>0. i \in Items /\ Source[i] \in Sources /\ Accounted(i) /\ Stamp[i] \in Nat
    BY StampsAreNumbers DEF AdaptersType
  <2>1. CASE Source[i] # s
    BY <1>2, <1>3, <1>5, <1>7, <1>8, <2>0, <2>1, ItemFramed DEF SameCursor
  <2>2. CASE Source[i] = s /\ Stamp[i] <= Stamp[h]
    BY <1>2, <2>2 DEF Accounted, ItemsOf
  <2>3. CASE Source[i] = s /\ Stamp[i] > Stamp[h]
    <3>1. Ahead(i) => Ahead(i)'
      BY <1>3, <1>5, <1>10, <2>3 DEF Ahead, Fresh
    <3> QED BY <1>2, <1>7, <1>8, <1>10, <2>0, <2>3, <3>1 DEF Accounted
  <2> QED BY <1>4, <2>0, <2>1, <2>2, <2>3
<1> QED BY <1>3, <1>6, <1>8, <1>9, <1>11, <1>12

\* What the handlers do concerns no poll.
LEMMA PollsFramed ==
    ASSUME AdaptersKept, UNCHANGED <<shape, since, polling, added, newest>>,
           listed \subseteq listed', cut \subseteq cut', \A t \in Sources : SameCursor(t),
           \A j : Published(j) => Published(j)',
           \A j : Awaits(j) => Awaits(j)' \/ Published(j)' \/ j \in cut'
    PROVE  (\A t \in Sources : PollIsSound(t)') /\ (\A j \in listed : Accounted(j)')
<1> USE DEF AdaptersKept
<1>1. ASSUME NEW t \in Sources PROVE PollIsSound(t)'
  BY <1>1, SourceFramed
<1>2. ASSUME NEW j \in listed PROVE Accounted(j)'
  <2>1. Source[j] \in Sources
    BY StampsAreNumbers DEF AdaptersType
  <2> QED BY <2>1, ItemFramed
<1> QED BY <1>1, <1>2

LEMMA ArriveKeeps ==
    ASSUME AdaptersKept, NEW i \in Items, Arrive(i) PROVE AdaptersKept'
<1> USE DEF AdaptersKept
<1>1. PICK s \in Sources : s = Source[i]
  BY StampsAreNumbers
<1>2. /\ s \in Pushed /\ i \notin listed /\ listed' = listed \cup {i}
      /\ UNCHANGED <<stream, shape, cursor, since, polling, added, newest>> /\ Pushed' = Pushed
  BY <1>1 DEF Arrive, Pushed
<1>3. \A j : Published(j)' <=> Published(j)
  BY <1>2 DEF Published
<1>4. \A h \in handlers : h.item # i
  BY <1>2 DEF HandlersAreSound
<1>5. \A h \in handlers : h \in [item : listed', sent : BOOLEAN, marks : [Pushed -> Nat]]
  BY <1>2 DEF HandlersAreSound
<1>6. CASE UNCHANGED <<cut, aborts>> /\ handlers' # handlers
  <2>1. PICK h : /\ handlers' = handlers \cup {h}
                 /\ h = [item |-> i, sent |-> FALSE,
                         marks |-> [t \in Pushed |-> IF t = s THEN Larger(cursor[t], Stamp[i])
                                                              ELSE cursor[t]]]
    BY <1>1, <1>6 DEF Arrive
  <2>2. h.marks \in [Pushed -> Nat]
    <3>1. \A t \in Pushed : cursor[t] \in Nat /\ Larger(cursor[t], Stamp[i]) \in Nat
      BY StampsAreNumbers DEF Pushed, AdaptersType
    <3> QED BY <2>1, <3>1
  <2>3. h \in [item : listed', sent : BOOLEAN, marks : [Pushed -> Nat]] /\ h.item = i /\ ~h.sent
    BY <1>2, <2>1, <2>2
  <2>4. HandlersAreSound'
    <3>1. handlers' \subseteq [item : listed', sent : BOOLEAN, marks : [Pushed' -> Nat]]
      BY <1>2, <1>5, <2>1, <2>3
    <3>2. \A g \in handlers' : Source[g.item] \in Pushed' /\ (g.sent => Published(g.item)')
      BY <1>1, <1>2, <1>3, <2>1, <2>3 DEF HandlersAreSound
    <3>3. \A f, g \in handlers' : f.item = g.item => f = g
      BY <1>4, <2>1, <2>3 DEF HandlersAreSound
    <3> QED BY <3>1, <3>2, <3>3 DEF HandlersAreSound
  <2>5. Awaits(i)' /\ \A j : Awaits(j) => Awaits(j)'
    BY <2>1, <2>3 DEF Awaits
  <2>6. AdaptersType'
    BY <1>2, <1>6 DEF AdaptersType
  <2>7. (\A t \in Sources : PollIsSound(t)') /\ (\A j \in listed : Accounted(j)')
    BY <1>2, <1>3, <1>6, <2>5, PollsFramed DEF SameCursor
  <2> QED BY <1>2, <2>4, <2>5, <2>6, <2>7 DEF Accounted
<1>7. CASE cut' = cut \cup {i} /\ aborts' = [aborts EXCEPT ![s] = @ + 1] /\ handlers' = handlers
  <2>1. AdaptersType'
    BY <1>2, <1>7 DEF AdaptersType
  <2>2. HandlersAreSound' /\ \A j : Awaits(j)' <=> Awaits(j)
    BY <1>2, <1>3, <1>7, HandlersFramed
  <2>3. (\A t \in Sources : PollIsSound(t)') /\ (\A j \in listed : Accounted(j)')
    BY <1>2, <1>3, <1>7, <2>2, PollsFramed DEF SameCursor
  <2> QED BY <1>2, <1>7, <2>1, <2>2, <2>3 DEF Accounted
<1>8. (UNCHANGED <<cut, aborts>> /\ handlers' # handlers)
      \/ (cut' = cut \cup {i} /\ aborts' = [aborts EXCEPT ![s] = @ + 1] /\ handlers' = handlers)
  <2> DEFINE h == [item |-> i, sent |-> FALSE,
                   marks |-> [t \in Pushed |-> IF t = Source[i] THEN Larger(cursor[t], Stamp[i])
                                                               ELSE cursor[t]]]
  <2>1. h.item = i
    OBVIOUS
  <2>2. h \notin handlers
    BY <1>4, <2>1
  <2>3. (handlers' = handlers \cup {h} /\ UNCHANGED <<cut, aborts>>)
        \/ (cut' = cut \cup {i} /\ Aborted(Source[i]) /\ handlers' = handlers)
    BY DEF Arrive
  <2> HIDE DEF h
  <2> QED BY <1>1, <2>2, <2>3 DEF Aborted
<1> QED BY <1>6, <1>7, <1>8

LEMMA PushAddKeeps ==
    ASSUME AdaptersKept, NEW h \in handlers, PushAdd(h) PROVE AdaptersKept'
<1> USE DEF AdaptersKept
<1>1. PICK g : g = [h EXCEPT !.sent = TRUE]
  OBVIOUS
<1>2. /\ ~h.sent /\ XAdd(h.item) /\ handlers' = (handlers \ {h}) \cup {g}
      /\ UNCHANGED <<shape, listed, cursor, since, polling, added, newest, cut, aborts>>
      /\ Pushed' = Pushed
  BY <1>1 DEF PushAdd, pollVars, Pushed
<1>3. /\ h \in [item : listed, sent : BOOLEAN, marks : [Pushed -> Nat]]
      /\ Source[h.item] \in Pushed /\ h.item \in Items
  BY DEF HandlersAreSound, AdaptersType
<1>4. g \in [item : listed, sent : BOOLEAN, marks : [Pushed -> Nat]] /\ g.item = h.item /\ g.sent
  BY <1>1, <1>3
<1>5. stream' \in Seq(Items) /\ Published(h.item)' /\ \A j : Published(j) => Published(j)'
  BY <1>2, <1>3, PublishedAppend DEF AdaptersType
<1>6. AdaptersType'
  BY <1>2, <1>5 DEF AdaptersType
<1>7. HandlersAreSound'
  <2>1. handlers' \subseteq [item : listed', sent : BOOLEAN, marks : [Pushed' -> Nat]]
    BY <1>2, <1>4 DEF HandlersAreSound
  <2>2. \A f \in handlers' : Source[f.item] \in Pushed' /\ (f.sent => Published(f.item)')
    BY <1>2, <1>3, <1>4, <1>5 DEF HandlersAreSound
  <2>3. \A e, f \in handlers' : e.item = f.item => e = f
    BY <1>2, <1>4 DEF HandlersAreSound
  <2> QED BY <2>1, <2>2, <2>3 DEF HandlersAreSound
<1>8. \A j : Awaits(j) => Awaits(j)' \/ Published(j)'
  BY <1>2, <1>5 DEF Awaits
<1>9. (\A t \in Sources : PollIsSound(t)') /\ (\A j \in listed : Accounted(j)')
  BY <1>2, <1>5, <1>8, PollsFramed DEF SameCursor
<1> QED BY <1>2, <1>6, <1>7, <1>9

LEMMA PushCommitKeeps ==
    ASSUME AdaptersKept, NEW h \in handlers, PushCommit(h) PROVE AdaptersKept'
<1> USE DEF AdaptersKept
<1>1. /\ h.sent /\ handlers' = handlers \ {h}
      /\ cursor' = [s \in Sources |-> IF s \in Pushed THEN h.marks[s] ELSE cursor[s]]
      /\ UNCHANGED <<stream, shape, listed, since, polling, added, newest, cut, aborts>>
      /\ Pushed' = Pushed
  BY DEF PushCommit, Pushed
<1>2. h.marks \in [Pushed -> Nat]
  BY DEF HandlersAreSound
<1>3. AdaptersType'
  <2>1. cursor' \in [Sources -> Nat]
    BY <1>1, <1>2 DEF AdaptersType
  <2> QED BY <1>1, <2>1 DEF AdaptersType
<1>4. \A j : Published(j)' <=> Published(j)
  BY <1>1 DEF Published
<1>5. HandlersAreSound'
  BY <1>1, <1>4 DEF HandlersAreSound
<1>6. \A j : Awaits(j) => Awaits(j)'
  BY <1>1 DEF Awaits
<1>7. \A t \in Sources : SameCursor(t)
  BY <1>1 DEF SameCursor
<1>8. (\A t \in Sources : PollIsSound(t)') /\ (\A j \in listed : Accounted(j)')
  BY <1>1, <1>4, <1>6, <1>7, PollsFramed
<1> QED BY <1>1, <1>3, <1>5, <1>8

LEMMA LoseHandlersKeeps ==
    ASSUME AdaptersKept, NEW s \in Sources, LoseHandlers(s) PROVE AdaptersKept'
<1> USE DEF AdaptersKept
<1>1. PICK lost \in {{h} : h \in HandlersOf(s)} \cup {HandlersOf(s)} :
          /\ Aborted(s) /\ handlers' = handlers \ lost
          /\ cut' = cut \cup {h.item : h \in {g \in lost : ~g.sent}}
          /\ UNCHANGED <<stream, shape, listed, cursor, since, polling, added, newest>>
  BY DEF LoseHandlers, pollVars
<1>2. lost \subseteq handlers
  BY <1>1 DEF HandlersOf
<1>3. \A h \in lost : h.item \in Items
  BY <1>2 DEF HandlersAreSound, AdaptersType
<1>4. AdaptersType'
  BY <1>1, <1>3 DEF AdaptersType, Aborted
<1>5. \A j : Published(j)' <=> Published(j)
  BY <1>1 DEF Published
<1>6. HandlersAreSound'
  BY <1>1, <1>5 DEF HandlersAreSound, Pushed
<1>7. \A j : Awaits(j) => Awaits(j)' \/ j \in cut'
  BY <1>1 DEF Awaits
<1>8. (\A t \in Sources : PollIsSound(t)') /\ (\A j \in listed : Accounted(j)')
  BY <1>1, <1>5, <1>7, PollsFramed DEF SameCursor
<1> QED BY <1>1, <1>4, <1>6, <1>8
-----------------------------------------------------------------------------
(* How often an item is published. *)

LEMMA CopiesAppend ==
    ASSUME stream \in Seq(Items), NEW i \in Items, XAdd(i), NEW j
    PROVE  /\ Copies(j) \in Nat /\ Copies(j)' \in Nat
           /\ Copies(j)' = IF j = i THEN Copies(j) + 1 ELSE Copies(j)
<1> DEFINE S == {k \in DOMAIN stream : stream[k] = j}
           T == {k \in DOMAIN stream' : stream'[k] = j}
<1>1. /\ stream' = Append(stream, i) /\ Len(stream) \in Nat
      /\ DOMAIN stream = 1..Len(stream) /\ DOMAIN stream' = 1..(Len(stream) + 1)
      /\ stream'[Len(stream) + 1] = i
      /\ \A k \in 1..Len(stream) : stream'[k] = stream[k]
  BY DEF XAdd
<1>2. IsFiniteSet(S) /\ Cardinality(S) \in Nat
  <2>1. IsFiniteSet(1..Len(stream)) /\ S \in SUBSET (1..Len(stream))
    BY <1>1, FS_Interval
  <2>2. IsFiniteSet(S)
    BY <2>1, FS_Subset
  <2> QED BY <2>2, FS_CardinalityType
<1>3. T = IF j = i THEN S \cup {Len(stream) + 1} ELSE S
  BY <1>1
<1>4. Len(stream) + 1 \notin S
  BY <1>1
<1>5. Cardinality(S \cup {Len(stream) + 1}) = Cardinality(S) + 1
  BY <1>2, <1>4, FS_AddElement
<1>6. Copies(j) = Cardinality(S) /\ Copies(j)' = Cardinality(T)
  BY DEF Copies, CopiesIn
<1> HIDE DEF S, T
<1>7. CASE j = i
  BY <1>2, <1>3, <1>5, <1>6, <1>7
<1>8. CASE j # i
  BY <1>2, <1>3, <1>6, <1>8
<1> QED BY <1>7, <1>8

LEMMA CopiesAreFinite == \A i : stream \in Seq(Items) => Copies(i) \in Nat
<1> SUFFICES ASSUME NEW i, stream \in Seq(Items) PROVE Copies(i) \in Nat
  OBVIOUS
<1> DEFINE S == {k \in DOMAIN stream : stream[k] = i}
<1>1. DOMAIN stream = 1..Len(stream) /\ Len(stream) \in Nat
  OBVIOUS
<1>2. IsFiniteSet(1..Len(stream)) /\ S \in SUBSET (1..Len(stream))
  BY <1>1, FS_Interval
<1>3. IsFiniteSet(S)
  BY <1>2, FS_Subset
<1> QED BY <1>3, FS_CardinalityType DEF Copies, CopiesIn

\* An item of a source that does not move.
LEMMA CopiesFramed ==
    ASSUME NEW i, CopiesBounded(i), Copies(i)' = Copies(i), i \in listed' <=> i \in listed,
           shape' = shape, SameCursor(Source[i]), Awaits(i)' => Awaits(i),
           polling'[Source[i]] = polling[Source[i]], added'[Source[i]] = added[Source[i]],
           newest'[Source[i]] = newest[Source[i]], aborts'[Source[i]] = aborts[Source[i]]
    PROVE  CopiesBounded(i)'
<1>1. Owed(i)' => Owed(i)
  BY DEF Owed, Rest, SameCursor, Pushed
<1> QED BY <1>1 DEF CopiesBounded

\* An item that is not published by the step, and not owed unless it was.
LEMMA CopiesStay ==
    ASSUME NEW i, CopiesBounded(i), UNCHANGED <<stream, shape, listed>>,
           aborts'[Source[i]] = aborts[Source[i]], Owed(i)' => Owed(i) \/ shape[Source[i]] = "newest_first"
    PROVE  CopiesBounded(i)'
<1>1. Copies(i)' = Copies(i)
  BY DEF Copies
<1> QED BY <1>1 DEF CopiesBounded

\* One more abort pays for one more publication.
LEMMA CopiesAborted ==
    ASSUME NEW i, CopiesBounded(i), UNCHANGED <<stream, shape>>, listed \subseteq listed',
           Copies(i) \in Nat, aborts[Source[i]] \in Nat,
           aborts'[Source[i]] = aborts[Source[i]] + 1
    PROVE  CopiesBounded(i)'
<1>1. Copies(i)' = Copies(i)
  BY DEF Copies
<1> QED BY <1>1 DEF CopiesBounded

LEMMA CopiesKept ==
    ASSUME AdaptersInv, AdaptersStep PROVE \A i \in Items : CopiesBounded(i)'
<1> SUFFICES ASSUME NEW i \in Items PROVE CopiesBounded(i)'
  OBVIOUS
<1> USE DEF AdaptersInv, AdaptersKept
<1>0. /\ CopiesBounded(i) /\ Copies(i) \in Nat /\ Source[i] \in Sources
      /\ aborts[Source[i]] \in Nat /\ Stamp[i] \in Nat /\ Stamp[i] > 0
      /\ cursor[Source[i]] \in Nat /\ newest[Source[i]] \in Nat
  BY CopiesAreFinite, StampsAreNumbers DEF AdaptersType
<1>1. stream' = stream => Copies(i)' = Copies(i)
  BY DEF Copies
<1>2. ASSUME NEW j \in Items, Appear(j) PROVE CopiesBounded(i)'
  <2>1. UNCHANGED <<stream, shape, cursor, polling, added, newest, handlers, aborts>>
    BY <1>2 DEF Appear
  <2>2. CASE i # j
    <3>1. i \in listed' <=> i \in listed
      BY <1>2, <2>2 DEF Appear
    <3> QED BY <1>0, <1>1, <2>1, <3>1, CopiesFramed DEF SameCursor, Awaits
  <2>3. CASE i = j
    <3>1. i \notin listed /\ i \in listed' /\ Copies(i)' = 0
      BY <1>0, <1>1, <1>2, <2>1, <2>3 DEF Appear, CopiesBounded
    <3> QED BY <1>0, <2>1, <3>1 DEF CopiesBounded
  <2> QED BY <2>2, <2>3
<1>3. ASSUME NEW s \in Sources, Fetch(s) PROVE CopiesBounded(i)'
  <2>1. OthersStay(s) /\ UNCHANGED <<stream, shape, listed, cursor, added, newest, handlers, aborts>>
    BY <1>3, FetchKeeps DEF Fetch
  <2>2. CASE Source[i] # s
    BY <1>0, <1>1, <2>1, <2>2, CopiesFramed DEF OthersStay, SameCursor, Awaits
  <2>3. CASE Source[i] = s
    <3>1. i \in Rest(s)' => i \in BeyondCursor(s)
      <4>1. PICK n \in 1..Page[s] : \E q \in [1..n -> BeyondCursor(s)] : polling' = [polling EXCEPT ![s] = q]
        BY <1>3 DEF Fetch
      <4>2. PICK q \in [1..n -> BeyondCursor(s)] : polling' = [polling EXCEPT ![s] = q]
        BY <4>1
      <4>3. polling'[s] = q
        BY <4>2 DEF AdaptersType
      <4> QED BY <4>3 DEF Rest, Range
    <3>2. added[s] = {} /\ newest[s] = 0 /\ s \notin Pushed /\ Pushed' = Pushed
      BY <1>3, <2>1 DEF Fetch, PollOver, Pushed
    <3>4. BeyondCursor(s) = {j \in ItemsOf(s) : Fresh(s, j)}
      BY BeyondIsFresh
    <3>3. Owed(i)' => Owed(i)
      BY <1>0, <2>1, <2>3, <3>1, <3>2, <3>4 DEF Owed, Fresh, Awaits
    <3> QED BY <1>0, <2>1, <3>3, CopiesStay
  <2> QED BY <2>2, <2>3
<1>4. ASSUME NEW s \in Sources, Emit(s) PROVE CopiesBounded(i)'
  <2>1. PICK h : h = Head(polling[s])
    OBVIOUS
  <2>2. /\ polling[s] # <<>> /\ added[s] = {} /\ XAdd(h) /\ added'[s] = {h}
        /\ UNCHANGED <<shape, listed, cursor, polling, newest, handlers, cut, aborts>>
        /\ s \notin Pushed
        /\ OthersStay(s) /\ h \in ItemsOf(s) /\ h \in Items
    <3>1. polling[s] # <<>> /\ PollIsListed(s)
      BY <1>4 DEF Emit, PollIsSound
    <3>2. s \notin Pushed
      BY <3>1 DEF PollIsListed, PollOver
    <3> QED BY <1>4, <2>1, <3>2, EmitKeeps DEF Emit, AdaptersType, ItemsOf
  <2>3. Copies(i)' = IF i = h THEN Copies(i) + 1 ELSE Copies(i)
    BY <2>2, CopiesAppend DEF AdaptersType
  <2>4. CASE Source[i] # s
    <3>1. i # h
      BY <2>2, <2>4 DEF ItemsOf
    <3> QED BY <1>0, <2>2, <2>3, <2>4, <3>1, CopiesFramed DEF OthersStay, SameCursor, Awaits
  <2>5. CASE Source[i] = s /\ i # h
    <3>1. Owed(i)' => Owed(i)
      BY <2>2, <2>5 DEF Owed, Rest, Awaits, Pushed
    <3> QED BY <1>0, <2>2, <2>3, <2>5, <3>1 DEF CopiesBounded
  <2>6. CASE i = h
    <3>1. i \in listed /\ Source[i] = s
      BY <2>2, <2>6 DEF ItemsOf
    <3>2. Owed(i)
      <4>1. i \in Rest(s)
        BY <2>1, <2>2, <2>6, TailOfPoll DEF AdaptersType, Rest
      <4> QED BY <2>2, <3>1, <4>1 DEF Owed
    <3>3. ~Owed(i)'
      <4>1. ~Awaits(i)'
        BY <2>2, <3>1 DEF Awaits, HandlersAreSound
      <4> QED BY <2>2, <2>6, <3>1, <4>1 DEF Owed
    <3>4. shape[s] # "newest_first" => Copies(i) <= aborts[s]
      BY <1>0, <3>1, <3>2 DEF CopiesBounded
    <3>5. Copies(i)' = Copies(i) + 1
      BY <2>3, <2>6
    <3>6. shape[s] # "newest_first" => Copies(i)' <= 1 + aborts[s]
      BY <1>0, <3>1, <3>4, <3>5
    <3> QED BY <2>2, <3>1, <3>3, <3>6 DEF CopiesBounded
  <2> QED BY <2>4, <2>5, <2>6
<1>5. ASSUME NEW s \in Sources, CommitCursor(s) PROVE CopiesBounded(i)'
  <2>1. PollIsListed(s) /\ PollAdvances(s)
    BY DEF PollIsSound
  <2>2. PICK h \in Items :
              /\ polling[s] # <<>> /\ h = Head(polling[s]) /\ added[s] = {h}
              /\ h \in ItemsOf(s) /\ s \notin Pushed
              /\ cursor'[s] = Stamp[h] /\ added'[s] = {} /\ polling'[s] = Tail(polling[s])
              /\ newest'[s] = Larger(newest[s], Stamp[h])
              /\ UNCHANGED <<stream, shape, listed, since, handlers, cut, aborts>>
              /\ OthersStay(s)
    BY <1>5, <2>1, CommitMoves
  <2>3. CASE Source[i] # s
    BY <1>0, <1>1, <2>2, <2>3, CopiesFramed DEF OthersStay, SameCursor, Awaits
  <2>4. CASE Source[i] = s
    <3>1. PICK q : q = polling[s] /\ q \in Seq(Items) /\ q # <<>>
      BY <2>2 DEF AdaptersType
    <3>2. Range(q) = {h} \cup Range(Tail(q)) /\ h \notin Range(Tail(q))
      <4>1. \A n \in DOMAIN Tail(q) : Tail(q)[n] = q[n + 1] /\ n + 1 \in DOMAIN q /\ 1 < n + 1
        BY <3>1, TailOfPoll
      <4>2. h = q[1] /\ 1 \in DOMAIN q /\ Range(q) = {h} \cup Range(Tail(q))
        BY <2>2, <3>1, TailOfPoll
      <4>3. \A n \in DOMAIN Tail(q) : Tail(q)[n] # h
        BY <2>1, <3>1, <4>1, <4>2 DEF PollIsListed
      <4> QED BY <4>2, <4>3 DEF Range
    <3>3. h \in Rest(s) /\ h \in listed /\ Stamp[h] \in Nat
      BY <2>2, <3>1, <3>2, StampsAreNumbers DEF Rest, ItemsOf
    <3>4. Stamp[i] > newest'[s] => Stamp[i] > newest[s]
      <4>1. PICK m \in Nat : m = Larger(newest[s], Stamp[h]) /\ newest[s] <= m
        BY <1>0, <2>4, <3>3, StampsAreNumbers
      <4> QED BY <1>0, <2>2, <2>4, <4>1
    <3>5. Stamp[i] > cursor'[s] /\ Stamp[i] > newest[s] => Stamp[i] > cursor[s]
      <4>1. CASE newest[s] = 0
        <5>1. Stamp[h] > cursor[s]
          BY <2>1, <3>3, <4>1 DEF PollAdvances, Fresh
        <5> QED BY <1>0, <2>2, <2>4, <3>3, <5>1
      <4>2. CASE newest[s] # 0
        <5>1. cursor[s] <= newest[s]
          BY <2>1, <4>2 DEF PollAdvances
        <5> QED BY <1>0, <2>4, <5>1
      <4> QED BY <4>1, <4>2
    <3>6. Owed(i)' => Owed(i)
      <4>1. CASE i \in Rest(s)'
        BY <2>2, <2>4, <3>1, <3>2, <4>1 DEF Owed, Rest
      <4>2. CASE Stamp[i] > cursor'[s] /\ Stamp[i] > newest'[s]
        <5>1. i # h
          BY <2>2, <3>3, <4>2
        <5> QED BY <2>2, <2>4, <3>4, <3>5, <4>2, <5>1 DEF Owed
      <4>3. CASE Awaits(i)'
        BY <2>2, <4>3 DEF Owed, Awaits
      <4> QED BY <2>2, <2>4, <4>1, <4>2, <4>3 DEF Owed
    <3> QED BY <1>0, <2>2, <3>6, CopiesStay
  <2> QED BY <2>3, <2>4
<1>6. ASSUME NEW s \in Sources, PollEnds(s) PROVE CopiesBounded(i)'
  <2>1. PollAdvances(s) /\ OthersStay(s)
    BY <1>6, PollEndsKeeps DEF PollIsSound
  <2>2. /\ newest[s] # 0 /\ newest'[s] = 0
        /\ UNCHANGED <<stream, shape, listed, polling, added, handlers, cut, aborts>>
        /\ s \notin Pushed /\ Pushed' = Pushed
        /\ cursor'[s] = IF shape[s] = "newest_first_max" THEN newest[s] ELSE cursor[s]
    BY <1>6 DEF PollEnds, AdaptersType, PollIsSound, PollIsListed, PollOver, Pushed
  <2>3. CASE Source[i] # s
    BY <1>0, <1>1, <2>1, <2>2, <2>3, CopiesFramed DEF OthersStay, SameCursor, Awaits
  <2>4. CASE Source[i] = s
    <3>1. shape[s] # "newest_first" =>
             (Stamp[i] > cursor'[s] => Stamp[i] > newest[s] /\ Stamp[i] > cursor[s])
      <4>1. shape[s] \in Shapes /\ cursor[s] <= newest[s]
            /\ (shape[s] = "oldest_first" => newest[s] = cursor[s])
        BY <2>1, <2>2 DEF PollAdvances, AdaptersType
      <4>2. shape[s] # "push"
        BY <2>2 DEF Pushed
      <4> QED BY <1>0, <2>2, <2>4, <4>1, <4>2 DEF Shapes
    <3>2. shape[s] # "newest_first" => (Owed(i)' => Owed(i))
      BY <2>2, <2>4, <3>1 DEF Owed, Rest, Awaits
    <3> QED BY <1>0, <2>2, <2>4, <3>2, CopiesStay
  <2> QED BY <2>3, <2>4
<1>7. ASSUME NEW s \in Sources, Abort(s) PROVE CopiesBounded(i)'
  <2>1. /\ UNCHANGED <<stream, shape, listed, cursor, handlers>>
        /\ aborts'[s] = aborts[s] + 1
        /\ \A t \in Sources \ {s} : /\ polling'[t] = polling[t] /\ added'[t] = added[t]
                                    /\ newest'[t] = newest[t] /\ aborts'[t] = aborts[t]
    BY <1>7 DEF Abort, Aborted, AdaptersType
  <2>2. CASE Source[i] # s
    BY <1>0, <1>1, <2>1, <2>2, CopiesFramed DEF SameCursor, Awaits
  <2>3. CASE Source[i] = s
    BY <1>0, <2>1, <2>3, CopiesAborted
  <2> QED BY <2>2, <2>3
<1>8. ASSUME NEW s \in Sources, HourPasses(s) PROVE CopiesBounded(i)'
  <2>1. UNCHANGED <<stream, shape, listed, cursor, polling, added, newest, handlers, aborts>>
    BY <1>8 DEF HourPasses
  <2> QED BY <1>0, <1>1, <2>1, CopiesFramed DEF SameCursor, Awaits
<1>9. ASSUME NEW j \in Items, Arrive(j) PROVE CopiesBounded(i)'
  <2>1. /\ j \notin listed /\ listed' = listed \cup {j}
        /\ UNCHANGED <<stream, shape, cursor, polling, added, newest>>
    BY <1>9 DEF Arrive
  <2>2. CASE i = j
    <3>1. i \in listed' /\ Copies(i)' = 0
      BY <1>0, <1>1, <2>1, <2>2 DEF CopiesBounded
    <3>2. aborts'[Source[i]] \in Nat
      BY <1>0, <1>9 DEF Arrive, Aborted, AdaptersType
    <3> QED BY <3>1, <3>2 DEF CopiesBounded
  <2>3. CASE i # j /\ aborts' = aborts
    <3>1. Awaits(i)' => Awaits(i)
      BY <1>9, <2>3 DEF Arrive, Awaits
    <3> QED BY <1>0, <1>1, <2>1, <2>3, <3>1, CopiesFramed DEF SameCursor
  <2>4. CASE i # j /\ Aborted(Source[j]) /\ handlers' = handlers
    <3>1. CASE Source[i] = Source[j]
      <4>1. aborts'[Source[i]] = aborts[Source[i]] + 1
        BY <1>0, <2>4, <3>1 DEF Aborted, AdaptersType
      <4> QED BY <1>0, <2>1, <4>1, CopiesAborted
    <3>2. CASE Source[i] # Source[j]
      <4>1. aborts'[Source[i]] = aborts[Source[i]]
        BY <1>0, <2>4, <3>2 DEF Aborted, AdaptersType
      <4> QED BY <1>0, <1>1, <2>1, <2>4, <4>1, CopiesFramed DEF SameCursor, Awaits
    <3> QED BY <3>1, <3>2
  <2> QED BY <1>9, <2>2, <2>3, <2>4 DEF Arrive
<1>10. ASSUME NEW h \in handlers, PushAdd(h) PROVE CopiesBounded(i)'
  <2>1. /\ ~h.sent /\ XAdd(h.item) /\ h.item \in listed /\ h.item \in Items
        /\ handlers' = (handlers \ {h}) \cup {[h EXCEPT !.sent = TRUE]}
        /\ h \in [item : listed, sent : BOOLEAN, marks : [Pushed -> Nat]]
        /\ UNCHANGED <<shape, listed, cursor, polling, added, newest, aborts>> /\ Pushed' = Pushed
    BY <1>10 DEF PushAdd, pollVars, HandlersAreSound, AdaptersType, Pushed
  <2>2. Copies(i)' = IF i = h.item THEN Copies(i) + 1 ELSE Copies(i)
    BY <2>1, CopiesAppend DEF AdaptersType
  <2>3. [h EXCEPT !.sent = TRUE].item = h.item /\ [h EXCEPT !.sent = TRUE].sent
    BY <2>1
  <2>4. Awaits(i)' => Awaits(i) /\ i # h.item
    BY <2>1, <2>3 DEF Awaits, HandlersAreSound
  <2>5. CASE i # h.item
    BY <1>0, <2>1, <2>2, <2>4, <2>5, CopiesFramed DEF SameCursor
  <2>6. CASE i = h.item
    <3>1. Owed(i) /\ i \in listed /\ Source[i] \in Pushed /\ shape[Source[i]] # "newest_first"
      BY <2>1, <2>6 DEF Owed, Awaits, HandlersAreSound, Pushed
    <3>2. i \notin Rest(Source[i])
      BY <1>0, <3>1 DEF PollIsSound, PollIsListed, PollOver, Rest, Range
    <3>3. ~Owed(i)'
      BY <2>1, <2>4, <2>6, <3>1, <3>2 DEF Owed, Rest
    <3>4. Copies(i) <= aborts[Source[i]] /\ Copies(i)' = Copies(i) + 1
      BY <1>0, <2>2, <2>6, <3>1 DEF CopiesBounded
    <3>5. Copies(i)' <= 1 + aborts'[Source[i]]
      BY <1>0, <2>1, <3>4
    <3> QED BY <2>1, <3>1, <3>3, <3>5 DEF CopiesBounded
  <2> QED BY <2>5, <2>6
<1>11. ASSUME NEW h \in handlers, PushCommit(h) PROVE CopiesBounded(i)'
  <2>1. /\ UNCHANGED <<stream, shape, listed, polling, added, newest, aborts>>
        /\ handlers' = handlers \ {h}
        /\ cursor' = [s \in Sources |-> IF s \in Pushed THEN h.marks[s] ELSE cursor[s]]
    BY <1>11 DEF PushCommit
  <2>2. Awaits(i)' => Awaits(i)
    BY <2>1 DEF Awaits
  <2> QED BY <1>0, <1>1, <2>1, <2>2, CopiesFramed DEF SameCursor
<1>12. ASSUME NEW s \in Sources, LoseHandlers(s) PROVE CopiesBounded(i)'
  <2>1. /\ UNCHANGED <<stream, shape, listed, cursor, polling, added, newest>>
        /\ handlers' \subseteq handlers /\ Aborted(s)
    BY <1>12 DEF LoseHandlers, pollVars
  <2>2. aborts'[s] = aborts[s] + 1 /\ \A t \in Sources \ {s} : aborts'[t] = aborts[t]
    BY <2>1 DEF Aborted, AdaptersType
  <2>3. CASE Source[i] # s
    <3>1. Awaits(i)' => Awaits(i)
      BY <2>1 DEF Awaits
    <3> QED BY <1>0, <1>1, <2>1, <2>2, <2>3, <3>1, CopiesFramed DEF SameCursor
  <2>4. CASE Source[i] = s
    BY <1>0, <2>1, <2>2, <2>4, CopiesAborted
  <2> QED BY <2>3, <2>4
<1> QED BY <1>2, <1>3, <1>4, <1>5, <1>6, <1>7, <1>8, <1>9, <1>10, <1>11, <1>12
        DEF AdaptersStep, Poll, HandlersOf

LEMMA AdaptersInvKept == AdaptersInv /\ AdaptersStep => AdaptersInv'
<1> SUFFICES ASSUME AdaptersInv, AdaptersStep PROVE AdaptersInv'
  OBVIOUS
<1>1. AdaptersKept'
  <2>1. ASSUME NEW s \in Sources, Poll(s) PROVE AdaptersKept'
    BY <2>1, FetchKeeps, EmitKeeps, CommitKeeps, PollEndsKeeps, PushAddKeeps, PushCommitKeeps
       DEF AdaptersInv, Poll, HandlersOf
  <2> QED BY <2>1, AppearKeeps, ArriveKeeps, HourKeeps, AbortKeeps, LoseHandlersKeeps
             DEF AdaptersInv, AdaptersStep
<1> QED BY <1>1, CopiesKept DEF AdaptersInv

LEMMA AdaptersInvFramed ==
    ASSUME AdaptersInv, UNCHANGED <<stream, adapterVars>> PROVE AdaptersInv'
<1>1. UNCHANGED <<stream, shape, listed, cursor, since, polling, added, newest, handlers, cut, aborts>>
  BY DEF adapterVars, pollVars
<1>2. \A j : (Published(j)' <=> Published(j)) /\ Copies(j)' = Copies(j)
  BY <1>1 DEF Published, Copies
<1>3. AdaptersType'
  BY <1>1 DEF AdaptersInv, AdaptersKept, AdaptersType
<1>7. HandlersAreSound' /\ \A i : Awaits(i)' <=> Awaits(i)
  BY <1>1, <1>2, HandlersFramed DEF AdaptersInv, AdaptersKept
<1>4. \A s \in Sources : PollIsSound(s)'
  BY <1>1, <1>2, SourceFramed DEF AdaptersInv, AdaptersKept, SameCursor
<1>5. \A i \in listed : Accounted(i)'
  BY <1>1, <1>2, <1>7, ItemFramed DEF AdaptersInv, AdaptersKept, SameCursor
<1>6. \A i \in Items : CopiesBounded(i)'
  BY <1>1, <1>2, <1>7, CopiesFramed DEF AdaptersInv, SameCursor
<1> QED BY <1>1, <1>3, <1>4, <1>5, <1>6, <1>7 DEF AdaptersInv, AdaptersKept
-----------------------------------------------------------------------------
(***************************************************************************)
(* The two together.                                                       *)
(***************************************************************************)

LEMMA TriageLeavesStream == TriageStep => stream' = stream
<1>1. ASSUME NEW c \in Consumers, Consume(c) PROVE stream' = stream
  BY <1>1 DEF Consume, Reclaim, ReadNew, NothingNew, LookAtClaim, Bury, Stage1, Stage2,
              InsertDuplicate, Defer, Score, Hash, Embed, TickerRows, Ack, Undecodable, streamVars
<1>2. ASSUME NEW c \in Consumers, CommandFails(c) \/ Raise(c) \/ ScoreCutShort(c)
      PROVE  stream' = stream
  BY <1>2 DEF CommandFails, Raise, ScoreCutShort, streamVars
<1>3. ASSUME NEW e \in Entries, GoesIdle(e) \/ Reap(e) \/ ReapAck(e) PROVE stream' = stream
  BY <1>3 DEF GoesIdle, Reap, ReapAck
<1>4. ASSUME (\E r \in Rows : LeavesWindow(r)) \/ CrashTriage PROVE stream' = stream
  BY <1>4 DEF LeavesWindow, CrashTriage, streamVars
<1> QED BY <1>1, <1>2, <1>3, <1>4 DEF TriageStep

\* An adapter touches the stream only by publishing an item of its own.
LEMMA AdaptersPublish ==
    ASSUME AdaptersInv, AdaptersStep
    PROVE  stream' = stream \/ \E i \in Items : XAdd(i)
<1>1. ASSUME NEW i \in Items, Appear(i) \/ Arrive(i) PROVE stream' = stream
  BY <1>1 DEF Appear, Arrive
<1>2. ASSUME NEW s \in Sources, Emit(s) PROVE \E i \in Items : XAdd(i)
  BY <1>2, EmitKeeps DEF Emit, ItemsOf, AdaptersInv, AdaptersKept, AdaptersType
<1>3. ASSUME NEW s \in Sources,
             Fetch(s) \/ CommitCursor(s) \/ PollEnds(s) \/ HourPasses(s) \/ Abort(s) \/ LoseHandlers(s)
      PROVE  stream' = stream
  BY <1>3 DEF Fetch, CommitCursor, PollEnds, HourPasses, Abort, LoseHandlers
<1>4. ASSUME NEW h \in handlers, PushAdd(h) \/ PushCommit(h)
      PROVE  stream' = stream \/ \E i \in Items : XAdd(i)
  BY <1>4 DEF PushAdd, PushCommit, AdaptersInv, AdaptersKept, HandlersAreSound, AdaptersType
<1> QED BY <1>1, <1>2, <1>3, <1>4 DEF AdaptersStep, Poll, HandlersOf

LEMMA SensingStep ==
    ASSUME AdaptersInv, [SensingNext]_sensingVars
    PROVE  [TriageNext]_triageVars /\ AdaptersInv'
<1>1. CASE TriageStep /\ UNCHANGED adapterVars
  <2>1. UNCHANGED <<stream, adapterVars>>
    BY <1>1, TriageLeavesStream
  <2> QED BY <1>1, <2>1, AdaptersInvFramed DEF TriageNext
<1>2. CASE AdaptersStep /\ UNCHANGED triageOnly
  <2>1. AdaptersInv'
    BY <1>2, AdaptersInvKept
  <2>2. CASE stream' = stream
    <3>1. UNCHANGED <<read, pel, idle, dead>> /\ UNCHANGED <<storeVars, consumerVars, reaping, faultsLeft>>
      BY <1>2 DEF triageOnly
    <3>2. UNCHANGED streamVars
      BY <2>2, <3>1 DEF streamVars
    <3>3. UNCHANGED triageVars
      BY <3>1, <3>2 DEF triageVars
    <3> QED BY <2>1, <3>3
  <2>3. ASSUME NEW i \in Items, XAdd(i) PROVE TriageNext
    <3>1. Publish(i)
      BY <1>2, <2>3 DEF triageOnly, Publish
    <3> QED BY <3>1 DEF TriageNext
  <2> QED BY <1>2, <2>1, <2>2, <2>3, AdaptersPublish
<1>3. CASE NothingListed /\ Quiet
  <2>1. UNCHANGED <<stream, adapterVars>>
    BY <1>3 DEF NothingListed
  <2> QED BY <1>3, <2>1, AdaptersInvFramed DEF TriageNext
<1>4. CASE UNCHANGED sensingVars
  <2>1. UNCHANGED triageVars /\ UNCHANGED <<stream, adapterVars>>
    BY <1>4 DEF sensingVars, triageVars, streamVars
  <2> QED BY <2>1, AdaptersInvFramed
<1> QED BY <1>1, <1>2, <1>3, <1>4 DEF SensingNext

LEMMA SensingStart == SensingInit => AdaptersInv
BY AdaptersInitInv DEF SensingInit, TriageInit

\* The adapters keep their invariant, whatever the daemon does: a poll works on
\* listed items, and every listed item is published, on its way, ahead of the
\* cursor or left out.
THEOREM AdaptersInvHolds == SensingSpec => []AdaptersInv
BY SensingStart, SensingStep, PTL DEF SensingSpec

\* The cursor of a source at rest has passed nothing that was not published,
\* but for what was listed late, left out by a full page or cut short.
THEOREM CursorsPassWhatIsPublished == SensingSpec => []PassedIsPublished
<1>1. AdaptersInv => PassedIsPublished
  <2> SUFFICES ASSUME AdaptersInv, NEW i \in listed,
                      Idling(Source[i]), Stamp[i] <= cursor[Source[i]]
               PROVE  Published(i) \/ i \in cut
    BY DEF PassedIsPublished
  <2>1. Accounted(i) /\ i \in Items
    BY DEF AdaptersInv, AdaptersKept, AdaptersType
  <2>2. i \notin Rest(Source[i]) /\ ~Awaits(i)
    BY DEF Idling, PollOver, HandlersOf, Awaits, Rest, Range
  <2>3. ~(Stamp[i] > cursor[Source[i]])
    <3>1. Stamp[i] \in Nat /\ cursor[Source[i]] \in Nat
      BY <2>1, StampsAreNumbers DEF AdaptersInv, AdaptersKept, AdaptersType
    <3> QED BY <3>1
  <2> QED BY <2>1, <2>2, <2>3 DEF Accounted, Ahead, Fresh
<1> QED BY <1>1, AdaptersInvHolds, PTL

\* Where the order of the answer or the maximum protects the cursor, an item is
\* published again only after a poll that was cut short.
THEOREM RepublicationsAreCounted == SensingSpec => []RepublishedAfterAbort
<1>1. AdaptersInv => RepublishedAfterAbort
  <2> SUFFICES ASSUME AdaptersInv, NEW i \in listed, shape[Source[i]] # "newest_first"
               PROVE  Cardinality({k \in DOMAIN stream : stream[k] = i}) <= 1 + aborts[Source[i]]
    BY DEF RepublishedAfterAbort
  <2>1. CopiesBounded(i)
    BY DEF AdaptersInv, AdaptersKept, AdaptersType
  <2> QED BY <2>1 DEF CopiesBounded, Copies, CopiesIn
<1> QED BY <1>1, AdaptersInvHolds, PTL

\* The sensing layer implements the triage daemon fed by anyone: what an
\* adapter does is a publication or nothing to the daemon.
THEOREM SensingIsTriage == SensingSpec => TriageSpec
<1>1. SensingInit => TriageInit
  BY DEF SensingInit
<1>2. AdaptersInv /\ [SensingNext]_sensingVars => [TriageNext]_triageVars
  BY SensingStep
<1> QED BY <1>1, <1>2, AdaptersInvHolds, PTL DEF SensingSpec, TriageSpec
=============================================================================
