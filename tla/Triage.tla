------------------------------- MODULE Triage -------------------------------
(***************************************************************************)
(* The triage daemon (sensing/triage.py): asyncio consumers of one group   *)
(* on the ingest stream, the two dedupe stages, the salience scorer and    *)
(* the dead-letter sweep.  A step of a consumer ends where the coroutine   *)
(* awaits; every commit is visible to the other consumers from there on.   *)
(* An entry is known by its place in the stream, a row by its place in the *)
(* events table.                                                           *)
(***************************************************************************)
EXTENDS IngestStream

CONSTANTS
    Text,           \* Text[i]: the normalised text of item i
    ExtId,          \* ExtId[i]: the source's id of item i, or NoId
    NoId,           \* the empty external id
    Similar,        \* set of pairs of texts whose embeddings are near
    Unreadable,     \* items whose envelope does not decode
    Consumers,      \* the consumers c0, c1, ...
    Batch,          \* entries asked for by one XREADGROUP or XAUTOCLAIM
    MaxDeliveries,  \* sensing_triage_max_failures
    MaxFaults       \* bound: exceptions, crashes and failed commands

ASSUME TriageAssumption ==
    /\ MaxEntries \in Nat /\ MaxDeliveries \in Nat \ {0}
    /\ Batch \in Nat \ {0} /\ MaxFaults \in Nat
    /\ Unreadable \subseteq Items /\ IsFiniteSet(Consumers)
    /\ \A i \in Items : <<Text[i], Text[i]>> \in Similar

VARIABLES
    read,       \* the last entry delivered to the group as a new one
    pel,        \* entry -> times delivered while pending, 0 when not pending
    idle,       \* pending entries nobody touched for min_idle_ms
    dead,       \* entry -> copies on the dead-letter stream
    events,     \* the rows of the events table
    fp,         \* <<kind, fingerprint>> -> row that owns it
    vectors,    \* rows with an embedding inside the window
    ticked,     \* rows whose tickers are all written and gated
    pc, todo, phase, row,   \* per consumer: place in the code, its batch, the
                            \* call that filled it, the row just inserted
    reaping,    \* entries the dead-letter sweep has copied and not acknowledged
    faultsLeft  \* faults still allowed

streamVars == <<stream, read, pel, idle, dead>>
storeVars == <<events, fp, vectors, ticked>>
consumerVars == <<pc, todo, phase, row>>
triageVars == <<streamVars, storeVars, consumerVars, reaping, faultsLeft>>

NoRow == 0
Fingerprints == {<<"external_id", ExtId[i]>> : i \in Items}
                    \cup {<<"sha256", Text[i]>> : i \in Items}
Delivered(e) == e <= read
Acked(e) == Delivered(e) /\ pel[e] = 0
Scored(r) == events[r].status = "scored"
Rows == DOMAIN events

TriageInit ==
    /\ stream = <<>> /\ read = 0
    /\ pel = [e \in Entries |-> 0] /\ idle = {}
    /\ dead = [e \in Entries |-> 0]
    /\ events = <<>> /\ fp = [f \in Fingerprints |-> NoRow]
    /\ vectors = {} /\ ticked = {}
    /\ pc = [c \in Consumers |-> "idle"] /\ todo = [c \in Consumers |-> <<>>]
    /\ phase = [c \in Consumers |-> "read"] /\ row = [c \in Consumers |-> NoRow]
    /\ reaping = {}
    /\ faultsLeft = MaxFaults
-----------------------------------------------------------------------------
(* The stream. *)

\* An adapter publishes an item, a new one or one it published before.
Publish(i) ==
    /\ XAdd(i)
    /\ UNCHANGED <<read, pel, idle, dead, storeVars, consumerVars, reaping, faultsLeft>>

\* A minute passes over a pending entry, worked on or not.
GoesIdle(e) ==
    /\ pel[e] > 0 /\ e \notin idle
    /\ idle' = idle \cup {e}
    /\ UNCHANGED <<stream, read, pel, dead, storeVars, consumerVars,
                   reaping, faultsLeft>>

XAck(e) == pel' = [pel EXCEPT ![e] = 0] /\ idle' = idle \ {e}

\* The first entries of S in stream order, at most a batch of them.
FirstOf(q, S) ==
    /\ \A j, k \in DOMAIN q : j < k => q[j] < q[k]
    /\ \A e \in S : \/ \E k \in DOMAIN q : q[k] = e
                    \/ Len(q) = Batch /\ \A k \in DOMAIN q : q[k] < e

\* XAUTOCLAIM takes idle entries of any consumer of the group and counts a
\* delivery of each.
Reclaim(c) ==
    /\ pc[c] = "idle" /\ idle # {}
    /\ \E n \in 1..Batch : \E batch \in [1..n -> idle] :
         LET taken == {batch[k] : k \in 1..n}
         IN  /\ FirstOf(batch, idle)
             /\ todo' = [todo EXCEPT ![c] = batch]
             /\ pel' = [e \in Entries |-> IF e \in taken THEN pel[e] + 1 ELSE pel[e]]
             /\ idle' = idle \ taken
    /\ pc' = [pc EXCEPT ![c] = "claimed"] /\ phase' = [phase EXCEPT ![c] = "reclaim"]
    /\ UNCHANGED <<stream, read, dead, storeVars, row, reaping, faultsLeft>>

\* XREADGROUP: new entries only.
ReadNew(c) ==
    /\ pc[c] = "read" \/ (pc[c] = "idle" /\ idle = {})
    /\ read < Len(stream)
    /\ LET new == Len(stream) - read
           n == IF new < Batch THEN new ELSE Batch
       IN  /\ todo' = [todo EXCEPT ![c] = [k \in 1..n |-> read + k]]
           /\ pel' = [e \in Entries |-> IF e \in read + 1 .. read + n THEN 1 ELSE pel[e]]
           /\ read' = read + n
    /\ pc' = [pc EXCEPT ![c] = "stage1"] /\ phase' = [phase EXCEPT ![c] = "read"]
    /\ UNCHANGED <<stream, idle, dead, storeVars, row, reaping, faultsLeft>>

\* Nothing new after a reclaim: the next turn.
NothingNew(c) ==
    /\ pc[c] = "read" /\ read = Len(stream)
    /\ pc' = [pc EXCEPT ![c] = "idle"]
    /\ UNCHANGED <<streamVars, storeVars, todo, phase, row, reaping, faultsLeft>>

\* A command of a turn fails: the reclaim is skipped, or the turn ends.
CommandFails(c) ==
    /\ faultsLeft > 0 /\ pc[c] \in {"idle", "read"}
    /\ pc' = [pc EXCEPT ![c] = IF pc[c] = "idle" THEN "read" ELSE "idle"]
    /\ faultsLeft' = faultsLeft - 1
    /\ UNCHANGED <<streamVars, storeVars, todo, phase, row, reaping>>

\* The consumer goes on to the next entry of its batch.
Advance(c) ==
    /\ todo' = [todo EXCEPT ![c] = Tail(todo[c])]
    /\ row' = [row EXCEPT ![c] = NoRow]
    /\ pc' = [pc EXCEPT ![c] =
                 CASE Len(todo[c]) > 1 /\ phase[c] = "reclaim" -> "claimed"
                   [] Len(todo[c]) > 1 /\ phase[c] = "read" -> "stage1"
                   [] Len(todo[c]) = 1 /\ phase[c] = "reclaim" -> "read"
                   [] OTHER -> "idle"]
    /\ UNCHANGED phase

Entry(c) == Head(todo[c])
Item(c) == stream[Entry(c)]
-----------------------------------------------------------------------------
(* One reclaimed entry: over the limit it goes to the dead-letter stream. *)

\* Wrong: the entry is acknowledged without its copy.
LookAtClaimUncopied(c) ==
    /\ pc[c] = "claimed"
    /\ pc' = [pc EXCEPT ![c] = IF pel[Entry(c)] >= MaxDeliveries THEN "bury" ELSE "stage1"]
    /\ UNCHANGED <<streamVars, storeVars, todo, phase, row, reaping, faultsLeft>>

\* XPENDING, and XADD to the dead-letter stream when the count has reached
\* the limit.  A failing XPENDING counts as below it.
LookAtClaim(c) ==
    /\ pc[c] = "claimed"
    /\ \/ /\ pel[Entry(c)] >= MaxDeliveries
          /\ dead' = [dead EXCEPT ![Entry(c)] = @ + 1]
          /\ pc' = [pc EXCEPT ![c] = "bury"] /\ UNCHANGED faultsLeft
       \/ /\ pel[Entry(c)] < MaxDeliveries
          /\ pc' = [pc EXCEPT ![c] = "stage1"] /\ UNCHANGED <<dead, faultsLeft>>
       \/ /\ faultsLeft > 0 /\ faultsLeft' = faultsLeft - 1
          /\ pc' = [pc EXCEPT ![c] = "stage1"] /\ UNCHANGED dead
    /\ UNCHANGED <<stream, read, pel, idle, storeVars, todo, phase, row, reaping>>

\* XACK after the dead-letter copy.
Bury(c) ==
    /\ pc[c] = "bury"
    /\ XAck(Entry(c)) /\ Advance(c)
    /\ UNCHANGED <<stream, read, dead, storeVars, reaping, faultsLeft>>
-----------------------------------------------------------------------------
(* Triage.process_one *)

\* Rows that stage 1 may answer with: Redis only decides which of the two
\* fingerprints is looked up first.
Stage1Hits(i) ==
    ({fp[<<"sha256", Text[i]>>]} \cup
        (IF ExtId[i] = NoId THEN {} ELSE {fp[<<"external_id", ExtId[i]>>]})) \ {NoRow}

\* Rows that stage 2 may answer with, one of the nearest.
Stage2Hits(i) ==
    {r \in vectors : events[r].status # "duplicate"
                        /\ <<Text[i], Text[stream[events[r].entry]]>> \in Similar}

\* insert_event
InsertEvent(c, status, of) ==
    events' = Append(events, [entry |-> Entry(c), status |-> status, of |-> of])

InsertDuplicate(c, of) ==
    /\ InsertEvent(c, "duplicate", of)
    /\ pc' = [pc EXCEPT ![c] = "ack"]
    /\ UNCHANGED <<stream, read, pel, idle, dead, fp, vectors, ticked,
                   todo, phase, row, reaping, faultsLeft>>

Stage1(c) ==
    /\ pc[c] = "stage1" /\ Item(c) \notin Unreadable
    /\ LET hits == Stage1Hits(Item(c))
       IN  \/ \E h \in hits : InsertDuplicate(c, h)
           \/ /\ hits = {}
              /\ pc' = [pc EXCEPT ![c] = "stage2"]
              /\ UNCHANGED <<streamVars, storeVars, todo, phase, row, reaping, faultsLeft>>

Stage2(c) ==
    /\ pc[c] = "stage2"
    /\ LET hits == Stage2Hits(Item(c))
       IN  \/ \E h \in hits : InsertDuplicate(c, h)
           \/ /\ hits = {}
              /\ pc' = [pc EXCEPT ![c] = "score"]
              /\ UNCHANGED <<streamVars, storeVars, todo, phase, row, reaping, faultsLeft>>

\* INSERT OR IGNORE: the first row keeps the fingerprint.
Own(f, r) == fp' = [fp EXCEPT ![f] = IF @ = NoRow THEN r ELSE @]

\* Wrong: the hash of a deferred event is recorded.
DeferRemembered(c) ==
    /\ pc[c] = "score"
    /\ InsertEvent(c, "deferred", NoRow) /\ Own(<<"sha256", Text[Item(c)]>>, Len(events) + 1)
    /\ pc' = [pc EXCEPT ![c] = "ack"]
    /\ UNCHANGED <<stream, read, pel, idle, dead, vectors, ticked,
                   todo, phase, row, reaping, faultsLeft>>

\* The scorer gave up: an unscored row, no fingerprint, no vector, no ticker.  A
\* cached answer spares the call until it expires, which may be at any moment.
Defer(c) ==
    /\ pc[c] = "score"
    /\ InsertEvent(c, "deferred", NoRow)
    /\ pc' = [pc EXCEPT ![c] = "ack"]
    /\ UNCHANGED <<stream, read, pel, idle, dead, fp, vectors, ticked,
                   todo, phase, row, reaping, faultsLeft>>

\* The salience of the cache or of the model; the row and, without an await
\* in between, its external id.
Score(c) ==
    /\ pc[c] = "score"
    /\ InsertEvent(c, "scored", NoRow)
    /\ LET r == Len(events) + 1
           id == ExtId[Item(c)]
       IN  /\ row' = [row EXCEPT ![c] = r]
           /\ IF id = NoId THEN UNCHANGED fp ELSE Own(<<"external_id", id>>, r)
    /\ pc' = [pc EXCEPT ![c] = "hash"]
    /\ UNCHANGED <<stream, read, pel, idle, dead, vectors, ticked, todo, phase,
                   reaping, faultsLeft>>

\* Wrong: a row whose hash is taken goes no further.
HashOrLeave(c) ==
    /\ pc[c] = "hash"
    /\ Own(<<"sha256", Text[Item(c)]>>, row[c])
    /\ pc' = [pc EXCEPT ![c] = IF fp[<<"sha256", Text[Item(c)]>>] = NoRow THEN "embed" ELSE "ack"]
    /\ UNCHANGED <<streamVars, events, vectors, ticked, todo, phase, row,
                   reaping, faultsLeft>>

Hash(c) ==
    /\ pc[c] = "hash"
    /\ Own(<<"sha256", Text[Item(c)]>>, row[c])
    /\ pc' = [pc EXCEPT ![c] = "embed"]
    /\ UNCHANGED <<streamVars, events, vectors, ticked, todo, phase, row,
                   reaping, faultsLeft>>

Embed(c) ==
    /\ pc[c] = "embed"
    /\ vectors' = vectors \cup {row[c]}
    /\ pc' = [pc EXCEPT ![c] = "tickers"]
    /\ UNCHANGED <<streamVars, events, fp, ticked, todo, phase, row,
                   reaping, faultsLeft>>

\* insert_event_ticker and auto_promote of every validated ticker.
TickerRows(c) ==
    /\ pc[c] = "tickers"
    /\ ticked' = ticked \cup {row[c]}
    /\ pc' = [pc EXCEPT ![c] = "ack"]
    /\ UNCHANGED <<streamVars, events, fp, vectors, todo, phase, row,
                   reaping, faultsLeft>>

\* _process_entry: XACK after process_one has returned.
Ack(c) ==
    /\ pc[c] = "ack"
    /\ XAck(Entry(c)) /\ Advance(c)
    /\ UNCHANGED <<stream, read, dead, storeVars, reaping, faultsLeft>>

\* Wrong: an entry that fails is tried again at once.
FailAgain(c) == UNCHANGED consumerVars

\* _process_entry swallows what process_one raised and leaves the entry.
Fail(c) == Advance(c)

Undecodable(c) ==
    /\ pc[c] = "stage1" /\ Item(c) \in Unreadable
    /\ Fail(c)
    /\ UNCHANGED <<streamVars, storeVars, reaping, faultsLeft>>

\* Any step between two commits may raise.
Raise(c) ==
    /\ faultsLeft > 0 /\ faultsLeft' = faultsLeft - 1
    /\ pc[c] \in {"stage1", "stage2", "score", "hash", "embed", "tickers", "ack"}
    /\ Fail(c)
    /\ UNCHANGED <<streamVars, storeVars, reaping>>

\* Score is cut short between the row and its external id.
ScoreCutShort(c) ==
    /\ faultsLeft > 0 /\ faultsLeft' = faultsLeft - 1
    /\ pc[c] = "score"
    /\ InsertEvent(c, "scored", NoRow)
    /\ Fail(c)
    /\ UNCHANGED <<stream, read, pel, idle, dead, fp, vectors, ticked, reaping>>
-----------------------------------------------------------------------------
(* The dead-letter sweep, the window and the process. *)

\* dead_letter_sweep: XADD of an entry delivered often enough ...
Reap(e) ==
    /\ pel[e] >= MaxDeliveries /\ reaping = {}
    /\ dead' = [dead EXCEPT ![e] = @ + 1]
    /\ reaping' = {e}
    /\ UNCHANGED <<stream, read, pel, idle, storeVars, consumerVars, faultsLeft>>

\* ... then XACK.
ReapAck(e) ==
    /\ e \in reaping
    /\ XAck(e) /\ reaping' = {}
    /\ UNCHANGED <<stream, read, dead, storeVars, consumerVars, faultsLeft>>

\* A row grows older than the window of stage 2.
LeavesWindow(r) ==
    /\ r \in vectors
    /\ vectors' = vectors \ {r}
    /\ UNCHANGED <<streamVars, events, fp, ticked, consumerVars, reaping, faultsLeft>>

\* The process dies and systemd starts it again; what its consumers held stays
\* on the pending list.
CrashTriage ==
    /\ faultsLeft > 0 /\ faultsLeft' = faultsLeft - 1
    /\ pc' = [c \in Consumers |-> "idle"] /\ todo' = [c \in Consumers |-> <<>>]
    /\ phase' = [c \in Consumers |-> "read"] /\ row' = [c \in Consumers |-> NoRow]
    /\ reaping' = {}
    /\ UNCHANGED <<streamVars, storeVars>>

Consume(c) ==
    \/ Reclaim(c) \/ ReadNew(c) \/ NothingNew(c) \/ LookAtClaim(c) \/ Bury(c)
    \/ Stage1(c) \/ Stage2(c) \/ Defer(c) \/ Score(c) \/ Hash(c) \/ Embed(c)
    \/ TickerRows(c) \/ Ack(c) \/ Undecodable(c)

\* Nothing is left to read or to settle: the daemon waits.
Quiet ==
    /\ \A e \in 1..Len(stream) : Acked(e)
    /\ UNCHANGED triageVars

TriageStep ==
    \/ \E c \in Consumers : Consume(c) \/ CommandFails(c) \/ Raise(c) \/ ScoreCutShort(c)
    \/ \E e \in Entries : GoesIdle(e) \/ Reap(e) \/ ReapAck(e)
    \/ \E r \in Rows : LeavesWindow(r)
    \/ CrashTriage

TriageNext == TriageStep \/ (\E i \in Items : Publish(i)) \/ Quiet

TriageSpec == TriageInit /\ [][TriageNext]_triageVars
-----------------------------------------------------------------------------
TriageTypeOK ==
    /\ stream \in Seq(Items) /\ Len(stream) <= MaxEntries
    /\ read \in 0..Len(stream)
    /\ pel \in [Entries -> Nat] /\ \A e \in Entries : e > read => pel[e] = 0
    /\ idle \subseteq Entries /\ \A e \in idle : pel[e] > 0
    /\ dead \in [Entries -> Nat]
    /\ events \in Seq([entry : Entries, status : {"scored", "duplicate", "deferred"},
                       of : Nat])
    /\ fp \in [Fingerprints -> {NoRow} \cup Rows]
    /\ vectors \subseteq Rows /\ ticked \subseteq Rows
    /\ pc \in [Consumers -> {"idle", "read", "claimed", "bury", "stage1", "stage2",
                             "score", "hash", "embed", "tickers", "ack"}]
    /\ todo \in [Consumers -> Seq(1..read)]
    /\ phase \in [Consumers -> {"reclaim", "read"}]
    /\ row \in [Consumers -> {NoRow} \cup Rows]
    /\ reaping \subseteq 1..read /\ faultsLeft \in 0..MaxFaults

\* Nothing leaves the stream without a trace: an acknowledged entry has a row
\* of its own or a copy on the dead-letter stream, through crashes, failed
\* steps and reclaims (_process_entry, dead_letter_sweep).
AckedLeavesTrace ==
    \A e \in Entries : Acked(e) =>
        dead[e] > 0 \/ \E r \in Rows : events[r].entry = e

\* Every duplicate names an older row that was scored, never a deferred one or
\* another duplicate: a deferred item is scored when it comes again, and no
\* item is hidden behind a row that holds no salience.
DuplicateOfScored ==
    \A r \in Rows : events[r].status = "duplicate" =>
        events[r].of \in 1..(r - 1) /\ Scored(events[r].of)

\* A scored row gets its tickers, without which it alerts nobody, whoever
\* answers a redelivery of its entry meanwhile: each row without them is in
\* the hands of the consumer that scored it, or was lost to a fault, which may
\* take the rows of all consumers.  Its redelivery finds a duplicate.
RowsInHand == {row[c] : c \in Consumers}
TickersFollow ==
    Cardinality({r \in Rows : Scored(r) /\ r \notin ticked \cup RowsInHand})
        <= Cardinality(Consumers) * (MaxFaults - faultsLeft)
=============================================================================
