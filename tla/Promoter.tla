------------------------------ MODULE Promoter ------------------------------
(***************************************************************************)
(* iic-promoter.service: orchestrator/promoter.py with its candidate query *)
(* (orchestrator/candidates.py), its two queue guards and                  *)
(* Secretary.compose_event_alert_light.                                    *)
(*                                                                         *)
(* A pass works on the rows it fetched at its start.  Behind the approval  *)
(* gate each event becomes a light alert: one action row and one           *)
(* suppression per ticker, every one a commit of its own.  Without the     *)
(* gate each row becomes a queue job and a suppression in one transaction. *)
(***************************************************************************)
EXTENDS Naturals, FiniteSets

CONSTANTS Events,       \* salient events, numbered in the order of ingested_ts
          Tickers,      \* numbered in the order the query returns them
          Names,        \* per event: its tickers of sufficient confidence
          AutoTickers,  \* tickers triage put on the watchlist, which expire
          Modes,        \* settings of alert_approval_gate_enabled
          BatchSize,    \* promoter_batch_size, in rows
          MaxPending,   \* trigger_backpressure_max_pending
          MaxPerDay,    \* trigger_daily_rate_max_jobs
          DayLength,    \* ticks of a day
          UtcMidnight,  \* the tick of the local day at which the UTC day begins
          Cooldown,     \* alert_cooldown_min, in ticks
          MaxFaults     \* bound: crashes, failing commits, cycles lost to the endpoint

ASSUME PromoterAssumption ==
    /\ Events \subseteq Nat \ {0}
    /\ Tickers \subseteq Nat
    /\ Names \in [Events -> SUBSET Tickers]
    /\ AutoTickers \subseteq Tickers
    /\ Modes \subseteq {"gate", "legacy"}
    /\ BatchSize \in Nat \ {0}
    /\ MaxPending \in Nat \ {0}
    /\ MaxPerDay \in Nat \ {0}
    /\ DayLength \in Nat \ {0}
    /\ UtcMidnight \in 0 .. DayLength - 1
    /\ Cooldown \in Nat \ {0}
    /\ MaxFaults \in Nat

VARIABLES mode,         \* the setting this installation runs with
          clock,        \* tick of the local day
          tagged,       \* rows of event_ticker, of events with status 'triaged'
          watched,      \* watchlist
          left,         \* per ticker: time until its suppression ends
          queued,       \* (event, ticker) of the rows of queue_jobs
          open,         \* those queued or running
          today,        \* those enqueued on the current UTC date
          shown,        \* (event, ticker) with an action row
          shownToday,   \* history: action rows per ticker on this local date
          treated,      \* history: the event the pass has treated last (0: none)
          ppc,          \* where the process is
          batch,        \* rows of the pass not yet handled
          seen,         \* seen_tickers
          todo,         \* tickers of the event in hand still to be written
          hold,         \* time until the midnight the compose computed
          straddled,    \* history: the date changed inside a compose
          faults

tables == <<tagged, watched, left, queued, open, today, shown>>
history == <<shownToday, treated, straddled>>
process == <<ppc, batch, seen, todo, hold>>
promoterVars == <<mode, clock, tables, history, process, faults>>

Rows == {p \in Events \X Tickers : p[2] \in Names[p[1]]}

PromoterInit ==
    /\ mode \in Modes
    /\ clock = 0
    /\ tagged = {} /\ watched = Tickers
    /\ left = [t \in Tickers |-> 0]
    /\ queued = {} /\ open = {} /\ today = {} /\ shown = {}
    /\ shownToday = [t \in Tickers |-> 0]
    /\ treated = 0
    /\ ppc = "down"
    /\ batch = {} /\ seen = {} /\ todo = {}
    /\ hold = 0
    /\ straddled = FALSE
    /\ faults = 0
-----------------------------------------------------------------------------
(***************************************************************************)
(* The candidate query.                                                    *)
(***************************************************************************)
Candidates ==
    {p \in tagged : /\ p[2] \in watched
                    /\ left[p[2]] = 0
                    /\ \A q \in queued : q[1] # p[1]}

Before(p, q) == p[1] < q[1] \/ (p[1] = q[1] /\ p[2] < q[2])

\* ORDER BY ingested_ts LIMIT batch_size
Fetched == {p \in Candidates :
               Cardinality({q \in Candidates : Before(q, p)}) < BatchSize}

\* Wrong: a guard that only measures.
GuardsOff == TRUE

\* QueueBackpressure.gate and QueueRateGuard.gate
GuardsPass == Cardinality(open) < MaxPending /\ Cardinality(today) < MaxPerDay

\* The event the loop is at, and those of its tickers not alerted in this pass.
InHand(e) == /\ \E p \in batch : p[1] = e
            /\ \A p \in batch : e <= p[1]
RowsOfEvent(e) == {p \in batch : p[1] = e}
FreshTickers(e) == {t \in Tickers : <<e, t>> \in batch /\ t \notin seen}

Leave(e) == /\ batch' = batch \ RowsOfEvent(e)
            /\ ppc' = "pass"
            /\ todo' = {}
            /\ hold' = 0
-----------------------------------------------------------------------------
(***************************************************************************)
(* The loop.                                                               *)
(***************************************************************************)
Boot ==
    /\ ppc = "down"
    /\ ppc' = "idle"
    /\ UNCHANGED <<mode, clock, tables, history, batch, seen, todo, hold, faults>>

\* The guards and the fetch; the reads in between decide nothing.
BeginPass ==
    /\ ppc = "idle"
    /\ GuardsPass
    /\ batch' = Fetched
    /\ seen' = {}
    /\ treated' = 0
    /\ ppc' = "pass"
    /\ UNCHANGED <<mode, clock, tables, shownToday, straddled, todo, hold, faults>>

EndPass ==
    /\ ppc = "pass"
    /\ batch = {}
    /\ ppc' = "idle"
    /\ seen' = {} /\ treated' = 0
    /\ UNCHANGED <<mode, clock, tables, shownToday, straddled, batch, todo, hold, faults>>

\* Every ticker of the event was alerted in this pass.
SkipEvent(e) ==
    /\ ppc = "pass" /\ mode = "gate"
    /\ InHand(e)
    /\ FreshTickers(e) = {}
    /\ Leave(e)
    /\ treated' = e
    /\ UNCHANGED <<mode, clock, tables, shownToday, straddled, seen, faults>>

\* Wrong: a rejection ends the pass.
RejectEndsPass(e) ==
    /\ ppc = "pass" /\ mode = "gate"
    /\ InHand(e)
    /\ FreshTickers(e) # {}
    /\ treated' = e
    /\ \/ ppc' = "compose" /\ todo' = FreshTickers(e) /\ UNCHANGED batch
       \/ ppc' = "pass" /\ batch' = {} /\ UNCHANGED todo
    /\ UNCHANGED <<mode, clock, tables, shownToday, straddled, seen, hold, faults>>

\* The evaluator answers and its verdict is stored: on to the alert, or to
\* the next event (a rejection or an answer that does not parse).
Evaluate(e) ==
    /\ ppc = "pass" /\ mode = "gate"
    /\ InHand(e)
    /\ FreshTickers(e) # {}
    /\ treated' = e
    /\ \/ ppc' = "compose" /\ todo' = FreshTickers(e) /\ UNCHANGED <<batch, hold>>
       \/ Leave(e)
    /\ UNCHANGED <<mode, clock, tables, shownToday, straddled, seen, faults>>

\* The evaluator, or the insert of its verdict, raises: the cycle is lost.
CycleLost ==
    /\ ppc = "pass" /\ mode = "gate"
    /\ batch # {}
    /\ faults < MaxFaults
    /\ faults' = faults + 1
    /\ ppc' = "idle"
    /\ batch' = {} /\ seen' = {}
    /\ UNCHANGED <<mode, clock, tables, history, todo, hold>>
-----------------------------------------------------------------------------
(***************************************************************************)
(* compose_event_alert_light.                                              *)
(***************************************************************************)

\* Wrong: the tickers are reserved before their rows exist.
ReserveTickers ==
    /\ ppc = "compose"
    /\ hold' = DayLength - clock
    /\ left' = [t \in Tickers |-> IF t \in todo THEN DayLength - clock ELSE left[t]]
    /\ ppc' = "action"
    /\ UNCHANGED <<mode, clock, tagged, watched, queued, open, today, shown, history,
                   batch, seen, todo, faults>>

\* The summary, the brief row, and the reading of the clock.
WriteLightBrief ==
    /\ ppc = "compose"
    /\ hold' = DayLength - clock
    /\ ppc' = "action"
    /\ UNCHANGED <<mode, clock, tables, history, batch, seen, todo, faults>>

\* The summary fails: the pass goes on with the next event.
SummaryRaises(e) ==
    /\ ppc = "compose"
    /\ InHand(e)
    /\ Leave(e)
    /\ UNCHANGED <<mode, clock, tables, history, seen, faults>>

Lowest(t) == t \in todo /\ \A u \in todo : t <= u

InsertAction(e, t) ==
    /\ ppc = "action"
    /\ InHand(e) /\ Lowest(t)
    /\ shown' = shown \cup {<<e, t>>}
    /\ shownToday' = [shownToday EXCEPT ![t] = @ + 1]
    /\ ppc' = "suppress"
    /\ UNCHANGED <<mode, clock, tagged, watched, left, queued, open, today,
                   treated, straddled, batch, seen, todo, hold, faults>>

Suppress(t) ==
    /\ ppc = "suppress"
    /\ Lowest(t)
    /\ left' = [left EXCEPT ![t] = hold]
    /\ todo' = todo \ {t}
    /\ ppc' = IF todo = {t} THEN "deliver" ELSE "action"
    /\ UNCHANGED <<mode, clock, tagged, watched, queued, open, today, shown, history,
                   batch, seen, hold, faults>>

\* Wrong: seen_tickers is not updated.
DeliverUnseen(e) ==
    /\ ppc = "deliver"
    /\ InHand(e)
    /\ Leave(e)
    /\ UNCHANGED <<mode, clock, tables, history, seen, faults>>

\* Delivery is best effort; then the pass remembers the tickers.
DeliverLight(e) ==
    /\ ppc = "deliver"
    /\ InHand(e)
    /\ seen' = seen \cup FreshTickers(e)
    /\ Leave(e)
    /\ UNCHANGED <<mode, clock, tables, history, faults>>

\* A commit inside the compose raises; what was committed stays, and the pass
\* goes on without remembering the tickers.
ComposeRaises(e) ==
    /\ ppc \in {"action", "suppress", "deliver"}
    /\ InHand(e)
    /\ faults < MaxFaults
    /\ faults' = faults + 1
    /\ Leave(e)
    /\ UNCHANGED <<mode, clock, tables, history, seen>>

Compose == \/ WriteLightBrief
           \/ \E t \in Tickers : Suppress(t)
           \/ \E e \in Events : SummaryRaises(e) \/ DeliverLight(e)
           \/ \E e \in Events, t \in Tickers : InsertAction(e, t)
-----------------------------------------------------------------------------
(***************************************************************************)
(* The path without the gate.                                              *)
(***************************************************************************)
NextRow(p) == p \in batch /\ \A q \in batch : p = q \/ Before(p, q)

\* Job and suppression in one transaction.
LegacyEnqueue(p) ==
    /\ ppc = "pass" /\ mode = "legacy"
    /\ NextRow(p)
    /\ queued' = queued \cup {p}
    /\ open' = open \cup {p}
    /\ today' = today \cup {p}
    /\ left' = [left EXCEPT ![p[2]] = Cooldown]
    /\ treated' = p[1]
    /\ batch' = batch \ {p}
    /\ UNCHANGED <<mode, clock, tagged, watched, shown, shownToday, straddled,
                   ppc, seen, todo, hold, faults>>

\* The transaction is rolled back and the loop goes on.
LegacyRaises(p) ==
    /\ ppc = "pass" /\ mode = "legacy"
    /\ NextRow(p)
    /\ faults < MaxFaults
    /\ faults' = faults + 1
    /\ batch' = batch \ {p}
    /\ UNCHANGED <<mode, clock, tables, history, ppc, seen, todo, hold>>

Crash ==
    /\ ppc # "down"
    /\ faults < MaxFaults
    /\ faults' = faults + 1
    /\ ppc' = "down"
    /\ batch' = {} /\ seen' = {} /\ todo' = {} /\ hold' = 0
    /\ UNCHANGED <<mode, clock, tables, history>>

Pass == \/ Boot \/ BeginPass \/ EndPass \/ Compose
        \/ \E e \in Events : SkipEvent(e) \/ Evaluate(e)
        \/ \E p \in Rows : LegacyEnqueue(p)
-----------------------------------------------------------------------------
(***************************************************************************)
(* What the others do to the tables, and the clock.                        *)
(***************************************************************************)

\* Triage writes the tickers of an event one by one, and events in any order
\* of ingested_ts.
Tag(p) ==
    /\ p \notin tagged
    /\ \A q \in Rows \ tagged : q[1] = p[1] => p[2] <= q[2]
    /\ tagged' = tagged \cup {p}
    /\ UNCHANGED <<mode, clock, watched, left, queued, open, today, shown, history,
                   process, faults>>

\* A ticker expires from the watchlist, or another event brings it back.
Rewatch(t) ==
    /\ t \in AutoTickers
    /\ watched' = IF t \in watched THEN watched \ {t} ELSE watched \cup {t}
    /\ UNCHANGED <<mode, clock, tagged, left, queued, open, today, shown, history,
                   process, faults>>

\* The operator accepts a row and the action handler enqueues its study.
Approve(p) ==
    /\ p \in shown \ queued
    /\ queued' = queued \cup {p}
    /\ open' = open \cup {p}
    /\ today' = today \cup {p}
    /\ UNCHANGED <<mode, clock, tagged, watched, left, shown, history, process, faults>>

\* The worker settles a job.
JobEnds(p) ==
    /\ p \in open
    /\ open' = open \ {p}
    /\ UNCHANGED <<mode, clock, tagged, watched, left, queued, today, shown, history,
                   process, faults>>

Less(n) == IF n = 0 THEN 0 ELSE n - 1

Tick ==
    /\ clock' = (clock + 1) % DayLength
    /\ left' = [t \in Tickers |-> Less(left[t])]
    /\ hold' = Less(hold)
    /\ shownToday' = IF clock' = 0 THEN [t \in Tickers |-> 0] ELSE shownToday
    /\ straddled' = IF clock' = 0 THEN ppc \in {"action", "suppress"} ELSE straddled
    /\ today' = IF clock' = UtcMidnight THEN {} ELSE today
    /\ UNCHANGED <<mode, tagged, watched, queued, open, shown, treated,
                   ppc, batch, seen, todo, faults>>

PromoterNext ==
    \/ Pass
    \/ CycleLost \/ Crash
    \/ \E e \in Events : ComposeRaises(e)
    \/ \E t \in Tickers : Rewatch(t)
    \/ \E p \in Rows : LegacyRaises(p) \/ Tag(p) \/ Approve(p) \/ JobEnds(p)
    \/ Tick

PromoterSpec == PromoterInit /\ [][PromoterNext]_promoterVars

(***************************************************************************)
(* The loop goes on (the unit restarts a process that died), calls of the  *)
(* endpoint return or raise within their time-out, jobs come to an end.    *)
(***************************************************************************)
PromoterFairness ==
    /\ WF_promoterVars(Pass)
    /\ WF_promoterVars(Tick)
    /\ \A p \in Rows : WF_promoterVars(JobEnds(p))

FairPromoter == PromoterSpec /\ PromoterFairness
-----------------------------------------------------------------------------
(***************************************************************************)
(* Properties.                                                             *)
(***************************************************************************)
\* A ticker is alerted once a day, however many events name it in one batch
\* or in many: only a fault inside a pass, or a midnight inside a compose,
\* adds an alert.
AlertedOnceUnlessFault ==
    \A t \in Tickers :
        shownToday[t] <= 1 + faults + (IF straddled THEN 1 ELSE 0)

\* What the README says: a ticker alerts at most once per day.
AlertedOncePerDay == \A t \in Tickers : shownToday[t] <= 1

\* No ticker is silenced without a trace: a suppression in force means that
\* an action row was made today or, without the gate, a job, whatever crashed.
SuppressedWasShown ==
    \A t \in Tickers : left[t] > 0 =>
        IF mode = "gate" THEN shownToday[t] > 0 ELSE \E e \in Events : <<e, t>> \in queued

\* The guards are read once per pass, so a pass may exceed them, by no more
\* than its batch.
GuardsOvershoot ==
    mode = "legacy" => /\ Cardinality(open) < MaxPending + BatchSize
                       /\ Cardinality(today) < MaxPerDay + BatchSize

\* What is within reach of the batch is judged or drops out: rejected and
\* failing events do not hold up the rest of their batch, and a lost cycle,
\* a guard or a crash only delays it.
BatchIsConsidered ==
    \A p \in Rows : (p \in Fetched) ~> (treated = p[1] \/ p \notin Fetched)
=============================================================================
