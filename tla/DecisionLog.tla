---------------------------- MODULE DecisionLog -----------------------------
(***************************************************************************)
(* The decision log (agents/utils/memory.py): one markdown file that every *)
(* study appends its decision to and whose pending entries the next study  *)
(* of the same ticker resolves, by rewriting the file through a temporary  *)
(* one.  Nothing locks the file; the worker's jobs, the committee's        *)
(* threads and the command line share it.                                  *)
(***************************************************************************)
EXTENDS Integers, Sequences, FiniteSets

CONSTANTS
    Writers,        \* processes and threads that run studies
    Subjects,       \* <<trade_date, ticker>> of the studies
    TickerOf,       \* TickerOf[s]: the ticker of a subject
    MaxResolved,    \* memory_log_max_entries
    MaxAppends,     \* bound: entries appended
    MaxDeaths       \* bound: writers that die midway

ASSUME DecisionLogAssumption ==
    /\ MaxResolved \in Nat \ {0} /\ MaxAppends \in Nat /\ MaxDeaths \in Nat
    /\ DOMAIN TickerOf = Subjects

VARIABLES
    file,       \* the log: its entries in order
    tmp,        \* the temporary file: its content, or nothing at all
    at,         \* writer -> where it is
    holds,      \* writer -> the entries it read or is about to write
    target,     \* writer -> the file its open handle leads to
    subject,    \* writer -> the subject of its study
    updates,    \* writer -> the subjects it has an outcome for
    appended,   \* history: number of entries appended, the name of the next
    rotated,    \* history: resolved entries dropped by rotation
    exposed,    \* history: entries in reach of two writers at once
    deaths      \* history

logVars == <<file, tmp, at, holds, target, subject, updates, appended, rotated, exposed, deaths>>

EntriesOf(q) == {q[n].id : n \in DOMAIN q}
ResolvedOf(q) == {q[n].id : n \in {m \in DOMAIN q : ~q[m].pending}}
Pendings(q, s) == {n \in DOMAIN q : q[n].subject = s /\ q[n].pending}

DecisionLogInit ==
    /\ file = <<>> /\ tmp = {}
    /\ at = [w \in Writers |-> "idle"] /\ holds = [w \in Writers |-> <<>>]
    /\ target = [w \in Writers |-> "none"] /\ subject = [w \in Writers |-> "none"]
    /\ updates = [w \in Writers |-> {}]
    /\ appended = 0 /\ rotated = {} /\ exposed = {} /\ deaths = 0

\* Writers between the read of the file and the replace that ends the update.
Rewriting(w) == at[w] \in {"update", "open", "fill", "replace"}
OthersRewrite(w) == \E v \in Writers \ {w} : Rewriting(v)
AllIds == 1..appended
-----------------------------------------------------------------------------
(* _resolve_pending_entries at the start of a study. *)

\* get_pending_entries of the ticker; prices and reflections are fetched for
\* them, and only those that have a price are rewritten.
Begin(w, s) ==
    /\ at[w] = "idle"
    /\ subject' = [subject EXCEPT ![w] = s]
    /\ \E known \in SUBSET {p \in Subjects : Pendings(file, p) # {} /\ TickerOf[p] = TickerOf[s]} :
         /\ updates' = [updates EXCEPT ![w] = known]
         /\ at' = [at EXCEPT ![w] = IF known # {} THEN "resolve" ELSE "study"]
    /\ UNCHANGED <<file, tmp, holds, target, appended, rotated, exposed, deaths>>

\* batch_update_with_outcomes reads the file again.
ReadForUpdate(w) ==
    /\ at[w] = "resolve"
    /\ holds' = [holds EXCEPT ![w] = file]
    /\ at' = [at EXCEPT ![w] = "update"]
    /\ exposed' = IF OthersRewrite(w) THEN AllIds ELSE exposed
    /\ UNCHANGED <<file, tmp, target, subject, updates, appended, rotated, deaths>>

\* The first pending entry of each updated subject gets its outcome.
FirstPending(q, n) ==
    q[n].pending /\ \A m \in 1..(n - 1) : ~(q[m].pending /\ q[m].subject = q[n].subject)

Resolve(q, known) ==
    [n \in DOMAIN q |->
        IF FirstPending(q, n) /\ q[n].subject \in known
        THEN [q[n] EXCEPT !.pending = FALSE] ELSE q[n]]

\* _apply_rotation: the oldest resolved entries over the cap go, pending ones
\* never do.
Excess(q) == Cardinality({n \in DOMAIN q : ~q[n].pending}) - MaxResolved

\* Wrong: pending entries are rotated out like the others.
RotatesOldest(q, n) == n <= Len(q) - MaxResolved

Rotates(q, n) ==
    ~q[n].pending /\ Cardinality({m \in 1..n : ~q[m].pending}) <= Excess(q)
Kept(q) == {n \in DOMAIN q : ~Rotates(q, n)}

\* What is kept stays in the order it had.
InFileOrder(order, places) ==
    /\ {order[k] : k \in DOMAIN order} = places
    /\ \A j, k \in DOMAIN order : j < k => order[j] < order[k]

Update(w) ==
    /\ at[w] = "update"
    /\ LET resolved == Resolve(holds[w], updates[w])
       IN  \E order \in [1..Cardinality(Kept(resolved)) -> Kept(resolved)] :
             LET written == [k \in DOMAIN order |-> resolved[order[k]]]
             IN  /\ InFileOrder(order, Kept(resolved))
                 /\ holds' = [holds EXCEPT ![w] = written]
                 /\ rotated' = rotated \cup (ResolvedOf(resolved) \ EntriesOf(written))
    /\ at' = [at EXCEPT ![w] = "open"]
    /\ UNCHANGED <<file, tmp, target, subject, updates, appended, exposed, deaths>>

\* write_text opens and truncates the temporary file that all writers share ...
OpenTmp(w) ==
    /\ at[w] = "open"
    /\ tmp' = {<<>>}
    /\ target' = [target EXCEPT ![w] = "tmp"]
    /\ at' = [at EXCEPT ![w] = "fill"]
    /\ UNCHANGED <<file, holds, subject, updates, appended, rotated, exposed, deaths>>

\* ... and fills it, under whatever name it has by now.
FillTmp(w) ==
    /\ at[w] = "fill"
    /\ IF target[w] = "tmp" THEN tmp' = {holds[w]} /\ UNCHANGED file
       ELSE file' = holds[w] /\ UNCHANGED tmp
    /\ at' = [at EXCEPT ![w] = "replace"]
    /\ UNCHANGED <<holds, target, subject, updates, appended, rotated, exposed, deaths>>

\* os.replace; without a temporary file it raises and the study is over.
Replace(w) ==
    /\ at[w] = "replace"
    /\ \/ /\ tmp = {}
          /\ at' = [at EXCEPT ![w] = "idle"]
          /\ target' = [target EXCEPT ![w] = "none"]
          /\ UNCHANGED <<file, tmp>>
       \/ /\ file' \in tmp /\ tmp' = {}
          /\ at' = [at EXCEPT ![w] = "study"]
          /\ target' = [v \in Writers |-> IF v = w THEN "none"
                                          ELSE IF target[v] = "tmp" THEN "log"
                                          ELSE target[v]]
    /\ holds' = [holds EXCEPT ![w] = <<>>] /\ updates' = [updates EXCEPT ![w] = {}]
    /\ UNCHANGED <<subject, appended, rotated, exposed, deaths>>
-----------------------------------------------------------------------------
(* store_decision at its end. *)

\* The scan: a pending entry of the subject ends it.
Scan(w) ==
    /\ at[w] = "study"
    /\ at' = [at EXCEPT ![w] = IF Pendings(file, subject[w]) # {} THEN "idle" ELSE "append"]
    /\ UNCHANGED <<file, tmp, holds, target, subject, updates, appended, rotated, exposed, deaths>>

\* The append, of whatever the file has become.
AppendEntry(w) ==
    /\ at[w] = "append" /\ appended < MaxAppends
    /\ file' = Append(file, [id |-> appended + 1, subject |-> subject[w], pending |-> TRUE])
    /\ appended' = appended + 1
    /\ exposed' = IF OthersRewrite(w) \/ \E v \in Writers \ {w} : at[v] = "append"
                  THEN exposed \cup {appended + 1} ELSE exposed
    /\ at' = [at EXCEPT ![w] = "idle"]
    /\ UNCHANGED <<tmp, holds, target, subject, updates, rotated, deaths>>

\* The study fails, or its process dies.
Dies(w) ==
    /\ at[w] # "idle" /\ deaths < MaxDeaths /\ deaths' = deaths + 1
    /\ at' = [at EXCEPT ![w] = "idle"] /\ target' = [target EXCEPT ![w] = "none"]
    /\ UNCHANGED <<file, tmp, holds, subject, updates, appended, rotated, exposed>>

LogOver ==
    /\ appended = MaxAppends
    /\ UNCHANGED logVars

DecisionLogNext ==
    \/ \E w \in Writers :
         \/ \E s \in Subjects : Begin(w, s)
         \/ ReadForUpdate(w) \/ Update(w) \/ OpenTmp(w) \/ FillTmp(w) \/ Replace(w)
         \/ Scan(w) \/ AppendEntry(w) \/ Dies(w)
    \/ LogOver

DecisionLogSpec == DecisionLogInit /\ [][DecisionLogNext]_logVars
-----------------------------------------------------------------------------
\* A decision is never forgotten: it is in the file, or it was resolved and
\* rotated out, or it was appended while another study rewrote the file.  A
\* crash at any point of a rewrite loses nothing.
NothingForgotten ==
    AllIds \subseteq EntriesOf(file) \cup rotated \cup exposed
=============================================================================
