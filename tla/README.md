# Formal model of IIC-Forge

IIC-Forge watches news sources, decides which events deserve an alert, asks the
operator whether a full study is wanted, runs the study (a graph of LLM agents)
and delivers the result. Its daemons are separate processes that talk through
SQLite tables and one Redis stream; almost every row is written by a commit of
its own. The model is about that: what the daemons may find in the tables while
the others work, time out, fail or die.

## 1. Inventory

| Part | Source | State it keeps | Operations | Model |
|---|---|---|---|---|
| Sensing adapters | `sensing/adapters/`, `cursor.py`, `envelope.py` | a cursor per source; the stream `ingest:raw` | poll, XADD, set cursor, receive a pushed message | `Adapters`, `IngestStream` |
| Triage daemon | `sensing/triage.py`, `dedupe.py`, `salience.py` | pending list of the stream, fingerprints, vectors, `events`, `event_ticker` | read, reclaim, dead-letter, dedupe, score, defer, ack | `Triage`, `Sensing` |
| Watchlist | `sensing/watchlist.py`, `cli/forge.py` | `watchlist` | promote, add, remove, sweep | `Watchlist` |
| Promoter daemon | `orchestrator/promoter.py`, `candidates.py`, `alert_evaluator.py`, `guards.py` | `suppression`, `alert_evaluations`, light briefs and their actions | poll, guard, evaluate, compose light alert, legacy enqueue | `Promoter` |
| Approval gate | `persistence/store.py` (`brief_actions`), `delivery/telegram_bot.py`, `cli/alert.py`, `dashboard/action_form.py` | state, verdict and results of each action row | propose, select, update, submit, expire | `ActionHandler` |
| Action handler daemon | `orchestrator/action_handler.py`, `cli/action_handler.py` | none (reads the rows at each tick) | expire, fetch, reject, enqueue, run a backtest or refinement, record | `ActionHandler` |
| Study queue | `orchestrator/queue_store.py` | `queue_jobs` | insert, lease, mark done, mark error, sweep, daily cost | `QueueStore` |
| Worker daemon | `orchestrator/worker.py`, `dispatch.py`, `systemd/iic-worker.service` | drain threads, current future, sweep clock, stop event | boot sweep, submit drain, await, time out, in-loop sweep, stop, exit | `Worker` |
| Secretary | `secretary/` | briefs, refinement chains | full study, light alert, refinement, morning digest | `Delivery`; study and refinement as steps of `Worker` and `ActionHandler`, the light alert in `Promoter` |
| Delivery | `delivery/` | `deliveries`, the pending action of an alert | send, skip in quiet hours, record a failure, offer a backtest, resolve an answer | `Delivery` |
| Trading graph, agents | `graph/`, `agents/` | debate states, checkpoints, `runs` | analysts and their tools, two debates, plans, decision, record | `Study` |
| Decision memory | `agents/utils/memory.py` | one markdown file and its temporary file | append, update outcomes, rotate | `DecisionLog` |
| LLM availability | `llm_clients/availability.py` | failure counter, alert latch, sticky fallback, daily budget in memory and in `ops_counters` | probe, record failure or success, engage, consume | `Availability` |
| Backtest | `backtest/` | `backtests`, `backtest_runs`, `outcome_log` | open, mature, close, write outcome | `Backtest`; one request of `ActionHandler` |
| Data flows, LLM clients, personas, panels, scripts | `dataflows/`, `llm_clients/`, `personas/`, `dashboard/`, `scripts/` | none of their own | requests, formats, views | not modelled |

How they interact: adapters -> `ingest:raw` -> triage -> `events`,
`event_ticker`, `watchlist` -> promoter -> light brief with one pending row of
`brief_actions` per ticker -> an answer of the operator -> action handler ->
`queue_jobs` -> worker -> graph -> brief, analysis pack, delivery, and the result
written back on the row that asked. The graph reads and writes the decision log;
triage and the promoter call their model through the availability policy; a
backtest opens runs whose rows are closed days later.

What is hard here, and what correctness means:

* **Worker.** A drain that outlives its wall-clock cap is abandoned, not killed:
  it goes on writing next to its successor. Sweeps settle rows by age alone.
  Right means: no job is studied twice at once, a row that says done is
  delivered, a result lands on the action that asked, jobs are taken in order,
  and every leased job reaches an outcome although a study may hang for ever.
* **Gate and handler.** Answers are a SELECT followed by UPDATEs that do not look
  at the state they overwrite; a dispatch is two commits; a backtest or a refinement
  runs inside the tick and commits as it goes. Right means: nothing is
  studied unless a row was accepted; ticks, repeated answers and failing
  neighbours make no second study; rows nobody answers are closed; a failing row
  does not hold up the others.
* **Promoter.** The candidates are fetched once, suppressions are written one by
  one. Right means: a ticker is alerted once a day, a rejected event costs no
  alert, younger events are reached.
* **Sensing.** The stream delivers at least once, the cursor is committed after
  the XADD, the dedupe check and its record are apart, consumers take each
  other's entries. Right means: what a cursor has passed was published, what was
  acknowledged left a row or a dead letter, a duplicate names a row that was
  scored, a scored row gets its tickers, and every item is settled.
* **Watchlist.** Three writers read a row and then write it. Right means: what the
  operator added stays until the operator removes it.
* **Study.** Runs of a committee write their checkpoints under one thread, and a run
  starts on what others left there. Right means: a complete run row tells of a whole
  study of its own, with every report, every turn and its own plans.
* **Decision log.** No lock, one temporary file for all writers. Right means: no
  decision is lost but those written while another study rewrites the file.
* **Availability.** Calls run in threads that share the fallback's state without a
  lock; what they spend is counted in memory and in a table. Right means: the
  paid calls of a day stay within the budget, a dead endpoint leads to the
  fallback.
* **Delivery.** A message and its row cannot be one commit, and a digest has a loop of
  its own, which catches nothing. Right means: a channel
  that fails does not silence the others, the rows tell the truth, an alert has
  one offer, a chain of refinements ends.
* **Backtest.** Rows are read as open and closed later by whoever comes. Right
  means: one outcome per closed row, and no row that is due stays open.

`PROJECT.json` lists each hazard at its line with the properties that would catch it.

## 2. Modules

| Module | What it is |
|---|---|
| `QueueStore` | The table `queue_jobs` and the helpers of `queue_store.py`, one operator per committed statement. Shared by both daemons. |
| `JobLifecycle` | The abstract queue: submit, claim the oldest, report, give up; a claimed job is eventually settled. |
| `Worker` | The worker process: main loop, drain threads, the commits of a study, clock, stop, crash. Refines `JobLifecycle`. |
| `ActionHandler` | `brief_actions`, the responders, and the handler's tick. |
| `StudyPipeline` | `Worker` and `ActionHandler` over the same `queue_jobs` and result column. |
| `Promoter` | The promoter's loop: guards, candidate query, evaluator, the commits of a light alert, the path without the gate; triage, operator, worker and clock as its environment. |
| `IngestStream` | The stream `ingest:raw`, which the next three share. |
| `Adapters` | Sources, polls, XADD and cursor. |
| `Triage` | The consumers of the group, their entries from XREADGROUP or XAUTOCLAIM to XACK, the dead-letter sweep. |
| `Sensing` | `Adapters` and `Triage` over one stream. |
| `Watchlist` | The table and its three writers. |
| `Availability` | The LLM role of a daemon: probe, counter, fallback, budget. |
| `Study` | The walk of a run through the graph, with checkpoints. |
| `DecisionLog` | The log file and its writers, step by step of each file operation. |
| `Delivery` | The compose operations, the channels, and the user who answers a message. |
| `Backtest` | Openers and maturation passes over the backtest tables. |
| `MCWorker`, `MCActionHandler`, `MCStudyPipeline`, `MCPromoter`, `MCSensing`, `MCServices` | Instances for TLC. |
| `QueueProofs` | Lemmas on the operators of the table that the next two rest on. |
| `WorkerProofs`, `ActionHandlerProofs`, `PromoterProofs`, `PipelineProofs` (about `StudyPipeline`), `SensingProofs` (`Triage`, `Adapters`, `Sensing`), `ServicesProofs` (`Watchlist`, `Availability`, `Delivery`), `StudyProofs` (`Study`, `DecisionLog`, `Backtest`) | Theorems about these modules, checked by TLAPS. |

The daemons from `Adapters` to `Backtest` share no state beyond what `Sensing`
composes, so `MCServices` explores them in one run, one at a time: its variable
`part` is chosen at the start and says which of them moves, the others stay in one
of their initial states. A behaviour of one part is a behaviour of its own
specification; products of the parts would add states and no case.

### State and code

* `jobs[j]` is the row with `job_id` j; `"none"` is a row not inserted yet
  (AUTOINCREMENT gives ids in order). `age` is `now - started_ts` in ticks and
  saturates at `AgeCap`; `today` says whether `finished_ts` is on the current
  UTC date. `actResult[a]` is `brief_actions.result_brief_id` of a study; as a
  study writes one brief, the brief is named by its job. `DailyCostTotal`, the SUM of
  `daily_cost_total`, counts the dollars of the rows done today.
* `thr[t]` is a drain thread: `start` (before the budget gate), `lease`,
  `study`, then the last commit it made (`written`, `packed`, `delivered`,
  `linked`), `fail` in the except branch, `ran`/`idle` when its future is
  resolved. `cur` is the thread whose future the main loop holds, `mpc` its place.
* `AwaitTimesOut` looks at the deadline before the future, as `_await_job` does:
  a future that resolves in the last second is lost, its row is not.
* `StudyRaises` may happen before each commit; `FinishError` is `mark_error`;
  `MarkErrorRaises` leaves the row `running` for the sweep.
* `SeeStop`, `Exit`, `KillAfterStop`: the interpreter joins the pool threads
  before it exits, and systemd kills it after `TimeoutStopSec`.
* `actState`, `actJob`, `actDone`, `actError` are columns of `brief_actions`;
  `approved` is a history variable (rows ever set to accepted), `lapsed` the rows
  whose `expires_at` has passed, `answer[r]` the rows a responder has selected and
  not yet updated.
* `hrows` are the rows the tick fetched: the handler works on them although the
  table may have moved on. `hpc = "record"` is the gap between the two commits of
  a dispatch.
* A backtest or a refinement is a call within the tick (`BeginRequest`), with no
  time-out around it. `LeaveArtifact` is the first of its commits that stays: the row
  of `backtests`, or the first run of the refinement's study. It may raise before or
  after that (`RequestRaises`: maturation, prices, synthesis, depth), and `tick` then
  logs, leaves the row accepted and begins the request again at the next tick.
  `artifacts[a]` counts what was left, `spoilt[a]` (history) what was left by a request
  that raised.

* In `Promoter` a row is a pair (event, ticker), as the candidate query returns
  it; `BatchSize` is the LIMIT and counts rows, not events. `left[t]` is the time
  until `suppression.until_ts` of t, `hold` the time until the midnight that the
  compose in hand has read from the clock: as both are durations, days need no
  number. `batch` and `seen` are the rest of the fetched rows and `seen_tickers`,
  `todo` the tickers of the event in hand without a row yet. The guards and the
  fetch are one step: the reads between them decide nothing.
* `shownToday`, `treated` and `straddled` are history: action rows of a ticker on
  this local date, the event the pass has treated last, and whether the date
  changed between the reading of the clock and the last suppression of a compose.
* `mode` is `alert_approval_gate_enabled`, chosen once: a process reads its
  configuration at boot. The local day of the suppression and the UTC day of the
  rate guard begin at different ticks (`UtcMidnight`).

* `stream` is a sequence of items; an entry is its position. `read` is the group's
  last delivered id, `pel[e]` the delivery count of a pending entry (0 when it is
  not pending), `idle` the pending entries untouched for `min_idle_ms`, whoever
  works on them. `Reclaim` is XAUTOCLAIM from the start of the list, which counts a
  delivery of each entry; the comparison with the limit comes after it.
* A consumer's `pc` is its place in `_consume_once` and `process_one`: `claimed`
  (XPENDING), `bury` (XACK after the copy), `stage1`, `stage2`, `score`, `hash`,
  `embed`, `tickers`, `ack`. Steps end where the coroutine awaits: the row and its
  external id are one step, its hash another. `events` is the table in order of
  insertion, `fp` the UNIQUE fingerprints, `vectors` the rows stage 2 can find,
  `ticked` the rows whose tickers are written. The cache of the scorer is not a variable:
  an answer of it may expire at any moment, so every scoring may `Defer`.
* `Raise` is any exception between two commits, swallowed by `_process_entry`;
  `CommandFails` a Redis command of the loop; `CrashTriage` the process.
* In `Adapters` `Stamp` is what the cursor compares: a time or an id. The four
  shapes are the four ways the adapters use a cursor; `CommitCursor` follows `Emit`
  in a step of its own, `Abort` is an exception or a crash at any point of a poll.
  An answer is any page in the order of the source, which leaves open how items of
  one stamp are arranged. `since` is the beginning of the last hour, which is all that
  polygon asks for while it has no cursor (`HourPasses` moves it on). A telegram message
  is a member of `handlers` from `Arrive`, where the cursors of all channels are read, to
  `PushCommit`, where they are written back as they were read; in between it awaits the
  XADD and other handlers run. `cut` is history: the items a full page, a late listing,
  the first hour or an abort left behind a cursor, those included that share a stamp with
  what was published. An RSS feed is a source of its own, as its cursor is an entry of the
  adapter's dictionary.
* A watchlist row is there or not, with the time it lasts and the `user` tag;
  `upsert_watchlist` reads (`PromoteReads`, `AddReads`) and then inserts or updates.
  `torn` is history: the rows whose last add met another write midway.
* `Availability`: `call[c]` is where a thread is in `call_llm`. `CheckThreshold`,
  `ResolveGlobal` (which may raise), `Stick`, `CheckSticky`, `TryConsume` and `Invoke`
  are steps apart: `llm` and `engaged` are the two entries of `_llm_state`, read and
  written without a lock. `unmetered` counts (history) the calls that reached the API
  without asking the budget, `overtaken` those that found the flag down with the API
  already in place. `table` is `ops_counters`, `spent` and `spentDay` the memory of
  `DailyFallbackBudget`; a failing read counts as nothing spent and a failing write is
  swallowed, both count in `storeFaults`.
* In `Study` `walk[r]` is what a checkpoint holds of a run: the next node and the
  part of the state the conditional edges and the recorder look at. `saved` is the
  checkpoint of the thread, which the runs of a committee share (same ticker and
  date). Every walk begins at START: `graph.invoke` is given an initial state, which
  overwrites the channels it names and keeps those it leaves out, the three plans.
  `stale` is which plans a walk has found there and not yet rewritten. `Finish` may fail
  to delete the checkpoint.
* `DecisionLog`: `holds[w]` is what a writer read, `target[w]` the file its handle
  leads to: after another writer's `os.replace` a handle opened on the temporary
  file writes to the log itself. A rotation keeps the order of the file and drops
  resolved entries only.
* `Delivery`: `work` is the compose in hand, `sends` the rows of `deliveries` by
  brief and channel, `Route` the channels of its mode: `Channels` is what `_deliver_*`
  go through, the enabled ones and telegram; `DigestChannels` what `_build_channels` of
  `cli/morning.py` gives a digest, the enabled ones in an order of its own. `_deliver_*`
  records what a channel raises (`RenderFails`); the loop of the digest does not, so
  there it is `ComposerDies`. `offers` are the `run_backtest` rows and `replies` the
  `refine_brief` rows of a brief; `chain` is the true length of a chain of
  refinements, `depth` what the row says.
* `Backtest`: `hand[p]` is what a process has read and still has to close, its
  backtests and the rows of the one in turn, both taken in the order of their ids
  (`Turn`). A row is `bad` when its arithmetic raises.

Operators and actions marked `Wrong:` are plausible errors of the code. They are
used by nothing in the specifications; each is the replacement of one definition
that a property must notice (`mutants` in `PROJECT.json`).

## 3. Runs

| Run | Instance | Shows |
|---|---|---|
| `WorkerSafety` | 2 jobs, 2 threads, 2 faults, cap 1 tick, sweeps at 2 and 3 | types; one executor per job; done is delivered; results belong to their action; order; refinement of `JobLifecycle`; the sweep takes a job from a thread only when overdue |
| `WorkerLiveness` | 2 jobs, 3 threads, 1 fault, studies may hang | every leased job gets an outcome and the queue goes on (the fair `JobLifecycle`) |
| `WorkerBudget` | 3 jobs of 0 or 1 dollar, limit 1, 2 threads | the daily spend passes the limit by at most one study per thread |
| `GateSafety` | 2 tickers of one light alert, one of them unusable, and a backtest; bot and console, 1 fault, 3 artefacts | no study without approval; one study per row unless a fault, one backtest unless a fault or a raise after the first; dispatch bookkeeping |
| `PipelineSafety` | both daemons, 2 rows, 2 threads | the result shown comes from the recorded job; nothing is written for unapproved or declined rows; results are final |
| `PipelineLiveness` | a refinement that may fail for ever or never return, then a study that may hang | unless the handler stays in a request for ever, accepted rows are enqueued and come to an end, lapsed rows are closed |
| `Promoter` | 2 events sharing a ticker, 3 rows against a batch of 2, both settings of the gate, 1 fault | a ticker is alerted once a day unless a fault or a midnight intervenes; nothing is suppressed without an alert or a job; how far a pass may exceed the guards; every row within reach is considered |
| `Services` | triage: the same text from two sources, two consumers, batches of 2, 1 fault; adapters: four items of a source of any shape, polled or pushed, two of them with one stamp, 2 aborts; watchlist: 2 tickers over 3 ticks; availability: 2 threads, 2 days, 1 restart, 1 fault of the counter, 1 failing resolution, 1 overtaking call; study: 4 plans, 2 runs on one thread; delivery: alerts to email, cli and telegram, digests to cli and email, 3 briefs, 2 mishaps; log: 2 writers; backtest: rows 2 and 1, an opener and a pass | the safety of each: acknowledged entries leave a trace, duplicates name scored rows, tickers follow; cursors pass only what was published; curated tickers stay; the budget of a day; whole records; truthful delivery rows, one offer, capped chains; no decision forgotten; one outcome per row |
| `Progress` | sensing: 2 items from one poller of each kind, one of them unreadable, 2 deliveries; availability on one day with no fault of the counter; backtests of one row each | every item is settled, an outage leads to the fallback, what is due is matured |
| `GateIdempotent` | as `GateSafety`, 1 fault | *violated*: a crash between the two commits of a dispatch repeats it |
| `PromoterOnce` | as `Promoter` | *violated*: a failing commit after an alert repeats it the same day |
| `DeferredIsScored` | 2 items, one poller of each kind, no fault | *violated*: a deferred item is not published again |

**Bounds.** Two jobs are what order, double execution and mixed-up results need;
the third job of `WorkerBudget` is the one that passes a limit two threads have
not reported against yet. Two threads are an abandoned one and its successor;
`WorkerLiveness` has three so that two studies can hang and the queue still goes
on. With `MaxThreads` threads alive, a further time-out waits until one ends: the
code has no such limit, so `WorkerLiveness` keeps `MaxThreads` above the number
of jobs. Ticks order the thresholds as the defaults do (time-out 20 min < in-loop
sweep 40 min < boot sweep 60 min); ages beyond the largest threshold are not told
apart. Two faults let a crash meet a failed recovery. Three rows are two tickers
of one alert and a row of another kind; one bot and one console are two writers
that race. Three artefacts are two raises and the last of a backtest, or one of each with
a fault; `PipelineLiveness` needs one, since a request that has left something may still
raise, return or hang. The safety runs of the composition have no fault because each side is
run with faults by itself; `PipelineLiveness` has one job since each row that can
be dispatched is dispatched once without faults.
In `Promoter` the second event names the ticker of the first and one of its own,
so one batch meets a ticker it has just alerted and cuts an event in two. A day has
two ticks, the least in which a compose can lie within a day or across its end, and
the two midnights differ; one ticker is on the watchlist automatically and may
leave it. A second fault multiplies the states and adds only another repetition of
the same kind, which `AlertedOnceUnlessFault` counts.

In `Services`, triage gets one text from two sources, once with an external id and once
without, so that each dedupe stage is the one that has to notice; two consumers take the
two entries in either order and each other's when idle, and the single fault is an
exception, a failing Redis command or a crash at every place. Its stream grows to two
entries; two deliveries are a retry and a dead letter. The adapters meet a page that is
full, a late listing, an hour that passes before the first poll, a page that ends
between two items of one stamp, two aborts, for each of the shapes, and four messages
whose handlers overlap; `MaxEntries` leaves room for every item and four publications
more. A cursor and its aborts are those of one source, so one source shows what several do. A watchlist row needs an automatic and a user's
write and a sweep between them, three ticks with a life of one. Two scoring threads pass
a budget of one call and are enough for one to run between the other's two assignments;
a second resolution that raises (`MaxUnresolved`) and a second call that overruns them
(`MaxOvertaken`) repeat the first. Two days give a counter a midnight to survive, and
one restart lets it forget what it held in memory. One round of each debate and one plan
per kind of analyst reach every edge of the graph, and two runs one shared checkpoint;
`RecurLimit` lets the shortest walk of each plan end and cuts the ones that call more
tools. Three briefs are an alert or a digest, a refinement and a refinement of it; the
channels are the default ones, telegram added for the alert only. At least one channel
is enabled, and one process composes at a time: the digest is composed by a command of
its own, but no row is shared by two briefs. Two log writers with a second append and a
death find the log with and without a temporary file. A backtest of two runs and one of
a single run make an opener and a pass meet on the same row. `Progress` is smaller: each
item is read and settled by itself, so one consumer, one good and one unreadable item
show it, for every kind of poller.

**Fairness.** The main loop runs and the clock ticks (weak fairness of `MainLoop` and
`Tick`): the loop waits in steps of a second and never blocks on a study. A thread that
was started reaches the queue and a failed one reaches `mark_error`. Nothing makes a
study return, no answer is ever owed, and no weak fairness is put on the steps of a
study: an LLM call may hang. A crashed worker is booted again (`Restart=on-failure`),
and a stop is taken as the first half of a restart. The handler ticks for ever
(`HandlerTick`): its loop has no exit but a crash, after which its unit restarts it.
That covers the steps the handler takes by itself, up to `BeginRequest` and from
`RecordDone`. The answer of a request (`Request`) is owed by nobody: `tick` calls the
whole study of a refinement without a time-out (`action_handler.py:147`), so the
liveness of the gate is stated with the escape that the handler stays `InRequest` for
ever. Crashes, failing commits and stop signals are bounded by `MaxFaults` and
`MaxHandlerFaults`. The promoter's loop goes on and its clock ticks (`Pass`, `Tick`):
calls of the endpoint return or raise within their time-out, and `Restart` brings a dead
process back. Every queued job ends (`JobEnds`, what `WorkerLiveness` shows), otherwise
a full queue holds the promoter for ever, as it should. Cycles lost to a failing
endpoint count against `MaxFaults`.

In `Progress`, every source is polled again and again (`Poll`: each adapter's loop
sleeps and goes on, exceptions included), every consumer goes on (`Consume`: its loop
catches what `process_one` raises), and an entry that nobody touches becomes idle or is
found by the dead-letter sweep (`GoesIdle`, `ReapAck`: both run on every turn). Entries
keep coming to the scoring call and each call returns or raises within its time-out
(`ScoringCall`); a daemon that refused to start is started again (`Retry`, the `Restart`
of its unit). That the role moves to the API supposes that the global provider can be
resolved in the end: a resolution that raises at every call (`resolve_role_llm_global`)
leaves the events deferred. Nothing brings a dead endpoint back. An opener that has
begun goes on, windows end with the calendar (`WindowEnds`), and passes are started
again and again (`Sweep1`): the last is what `sweep.py` expects of its caller, see
below. Every run checks for deadlock.

## 4. Proofs

`WorkerProofs` proves, for every number of jobs, threads, actions and faults, all
settings of the time limits and any set of costs (`QueueAssumption`,
`WorkerAssumption`):

| Theorem | Statement |
|---|---|
| `WorkerTypeCorrect` | `WorkerSpec => []WorkerTypeOK` |
| `JobsRunOnce` | `WorkerSpec => []OneExecutor` |
| `DoneMeansDelivered` | `WorkerSpec => []DoneIsDelivered` |
| `ResultsBelong` | `WorkerSpec => []ResultBelongsToAction` |
| `JobsRunInOrder` | `WorkerSpec => []NoOvertaking` |
| `SpendIsBounded` | `WorkerSpec => []BudgetOvershoot`, if `DailyUsd > 0` |
| `SweepIsPatient` | `WorkerSpec => SweepOnlyOverdue` |
| `WorkerImplements` | `WorkerSpec => ImplementsLifecycle` |

The invariant they rest on is `WorkerInv`. The properties alone are not inductive:

* `OneExecutor` needs that a thread's program counter agrees with the stage of its
  job's brief (`StageOfThread`) and that a row nobody has leased has no brief
  (`UnleasedHasNoBrief`); otherwise a thread could finish a job whose brief
  another one wrote. Leases come from queued rows, and a row in execution is
  running or given up: that is why no second thread can take it.
* `NoOvertaking` needs `NoGaps` (rows are inserted in order).
* A process that is down has no threads (`DownHasNoThread`): the boot sweep
  meets no executor. `SweepIsPatient` uses it, with `SweepMaxAge > JobTimeout`.
* `SpendIsBounded` rests on `BudgetInv`: what is conserved is the spend of the day
  together with the highest cost of each thread past the gate (`PastGate`). The
  gate lets a thread in only below the limit, and a job that ends moves its cost from
  one summand to the other. With a limit of 0 nothing is let in and nothing is
  below it either, hence the condition.

Steps that move no row between states, no thread between jobs and no brief
(`Quiet`) keep the invariant at once; each remaining action has a lemma of its
own. The refinement maps a drain's lease to `Claim`, `mark_done`/`mark_error` to
`Report`, a sweep to `GiveUp` of the stale rows and everything else to a stutter.

`ActionHandlerProofs` proves, for every set of rows and responders, any number of
jobs and faults (`QueueAssumption`, `ActionAssumption`):

| Theorem | Statement |
|---|---|
| `GateTypeCorrect` | `GateSpec => []GateTypeOK` |
| `StudiesAreApproved` | `GateSpec => []NoStudyWithoutApproval` |
| `RepetitionsAreFaults` | `GateSpec => []DuplicatesNeedFaults` |
| `DispatchesAreConsistent` | `GateSpec => []DispatchIsConsistent` |

Its invariant is `GateInv`. The handler works on rows it fetched earlier, so
`WorkIsApproved` and `FetchedIsOpen` carry what the fetch has checked over to the
dispatch: the row was accepted once, and nothing is recorded on it yet, whatever
the responders do in between. `JobInHand` ties the job between the two commits of
a dispatch to its row. `WorkIsPaid` sharpens the count of repetitions: a row that
is neither recorded nor in hand has had no more work than there were faults and, for
what requests leave, requests of its own that raised afterwards; a dispatch from there
adds one, and only a fault or such a raise leads back there. Steps of the
responders are `Outside`: they touch no work and approve what they accept.

`PipelineProofs` proves, for any jobs, rows, threads, responders and faults on both
sides (the three assumptions above):

| Theorem | Statement |
|---|---|
| `PipelineIsWorker` | `PipelineSpec => WorkerSpec` |
| `BriefsAreApproved` | `PipelineSpec => []NoBriefWithoutApproval` |
| `ResultsAreOfRecordedJobs` | `PipelineSpec => []ResultFromRecordedJob`, if `MaxHandlerFaults = 0` |
| `ResultsAreFinal` | `PipelineSpec => ResultIsFinal`, if `MaxHandlerFaults = 0` |
| `DeclinedIsFinal` | `PipelineSpec => []DeclinedNeverStudied`, if there is one responder |

Each daemon keeps the other's invariant: the gate is one of the producers the worker
allows for, so its steps are steps of `WorkerSpec`; the worker moves rows between
states and inserts none, so it keeps who was dispatched (`DispatchKept`). With
`JobsHaveRows` (nothing else feeds the queue) that is `PipelineInv`. A handler that
does not fail has one job a row (`WorkIsPaid`), and both the recorded job and the
shown result are jobs of the row, so they agree. `GateIdempotent` shows that the
condition is needed.

`PromoterProofs`, for any events, tickers, rows, batch size, days and faults, with or
without the gate (`PromoterAssumption`):

| Theorem | Statement |
|---|---|
| `PromoterInvHolds` | `PromoterSpec => []PromoterInv` |
| `AlertsAreBounded` | `PromoterSpec => []AlertedOnceUnlessFault` |
| `SuppressionsHaveATrace` | `PromoterSpec => []SuppressedWasShown` |
| `GuardsOvershootByABatch` | `PromoterSpec => []GuardsOvershoot` |

`PromoterInv` has a part for each path. Without the gate nothing is shown, a
suppressed ticker has a job, and the queue plus the rows still in hand stays within a
batch of each guard (`PassIsWithin`). Behind the gate a suppression, and the one a
compose will write, ends at midnight and no later (`EndsAtMidnight`); what a compose
has still to write was checked when it was fetched (`TodoIsFresh`, `HoldIsOver`); and a
ticker that may still be alerted has been alerted less often than the faults and
midnights allow (`Spares`). The last is the strengthening that
`AlertedOnceUnlessFault` needs: the count in the property is exhausted only by a
ticker that is suppressed or remembered by the pass.

`SensingProofs`, for every stream, number of consumers, sources, batches, pages and
faults (`TriageAssumption`, `AdaptersAssumption`):

| Theorem | Statement |
|---|---|
| `TriageTypes` | `TriageSpec => []TriageTypeOK` |
| `NothingIsLost` | `TriageSpec => []AckedLeavesTrace` |
| `DuplicatesAreSound` | `TriageSpec => []DuplicateOfScored` |
| `TickersAreWritten` | `TriageSpec => []TickersFollow` |
| `AdaptersInvHolds` | `SensingSpec => []AdaptersInv` |
| `CursorsPassWhatIsPublished` | `SensingSpec => []PassedIsPublished` |
| `RepublicationsAreCounted` | `SensingSpec => []RepublishedAfterAbort` |
| `SensingIsTriage` | `SensingSpec => TriageSpec` |

`TriageInv` says what a consumer has written when it is at a place in the code
(`ConsumerOK`: before `XACK` the entry has a row, or a copy in the dead letters;
between the row and its tickers the row is a scored one), that a fingerprint and a
vector name scored rows, and that an entry the sweep is about to acknowledge has been
copied. Rows and copies are only ever added (`Adds`), so what one consumer has left
stays whatever the others do, redelivered entries included. `TickInv` adds that a
consumer lets go of a scored row only after its tickers or by a fault, and that a
fault costs at most one such row per consumer.

`AdaptersInv` is about a poll in progress: what it holds is listed and lies ahead of the
cursor, or of the first hour, in the order of its shape (`PollIsSound`), and each listed
item is published, cut, still in the poll, ahead of the cursor, or in the hands of a
telegram handler that awaits its XADD (`Accounted`), so a commit passes none that a
source at rest has not accounted for. `HandlersAreSound` ties each handler to one
message, on the stream once it was sent: nothing needs to be known of the marks it
writes back. `CopiesBounded` counts the publications of an item with the one its poll
still owes: only an abort lets an item be owed twice (the adapters that commit every
item newest first are outside the property: their cursor moves back). As the adapters
touch nothing of the daemon but the stream, and only append to it, `SensingIsTriage`
carries the theorems of `Triage` over to the composition.

`ServicesProofs`, each part under the assumption on its constants:

| Theorem | Statement |
|---|---|
| `CuratedIsKept` | `WatchlistSpec => []CuratedNeverExpires` |
| `FallbackIsBounded` | `AvailSpec => []FallbackWithinBudget` |
| `DeliveryInvHolds` | `DeliverySpec => []DeliveryInv` |
| `ChannelsAreRecorded` | `DeliverySpec => []EveryChannelRecorded` |
| `OffersAreSingle` | `DeliverySpec => []OneOfferEach` |
| `ChainsAreCapped` | `DeliverySpec => []ChainIsCapped` |

`ListInv` adds to the watchlist that an add which met no other write has seen whether
the row is there (`SeenIsThere`), and that a promotion of a user's row carries the tag
(`PromotedAsUser`), so its write keeps it. `BudgetInv` says that the table, and the
memory while it is of the same day, know of all calls paid on a day but for one budget
per failing access to the table. For the calls that burn none, the strengthening counts
the threads that have gone past `CheckSticky` without the flag (`Passed`) together with
those that have called since: the thread that moves the role is not one of them, hence
`Cardinality(Calls) - 1` for each life of the process. `DeliveryInv` holds for any
channels, any choice of those a digest takes and any `max_depth`: the channels of the
mode before the one in turn have their rows, those after it none (`ChannelsInOrder`), an
alert that reached somebody has the offer or is about to get it (`OffersCounted`), and
the true length of a chain exceeds its recorded depth only by what crashes have hidden
(`ChainsBounded`).

`StudyProofs`, for every plan of analysts, number of rounds, runs, writers, openers
and passes:

| Theorem | Statement |
|---|---|
| `RecordsAreWhole` | `StudySpec => []RecordIsWhole` |
| `DecisionsAreKept` | `DecisionLogSpec => []NothingForgotten` |
| `OutcomesCountOnce` | `BacktestSpec => []OneOutcomeEach` |

`StudyInv` says how far a walk has come at each node (`OnTrack`: the reports of the
analysts before it, the turns of the debates, the plans) and holds of every walk. The
debates end with three writers, and each takes its own plan off `stale`, so none that an
earlier walk left in the thread is there at the end. `LogInv` asks of whatever may
become the log (the file, what a rewriting writer holds, the temporary file a writer is
about to put in place) that it has every decision which is not excused (`Accounted`).
That a writer finds another file behind its handle, or an empty one in place of what it
wrote, takes two of them (`TwoExpose`, `StolenHandle`), and then all that was written is
what the property excuses. `BacktestInv` says of the rows in hand that those in two
hands are counted as doubled (`Shared`), and that one in a single hand is as it was
read: open, or closed by its holder, who has its outcome still to write (`HandIsFresh`).

**Only model-checked.** Every safety invariant and action property of the runs is stated
by a theorem, under the conditions the tables name. What stays with TLC are the liveness
properties (`ImplementsFairLifecycle`, `AcceptedIsEnqueued`, `LapsedIsClosed`,
`AcceptedIsAnswered`, `BatchIsConsidered`, `AllIsTraced`, `OutageEngages`,
`DueIsMatured`): fairness and ENABLED are outside the reach of the proof system. The
three violations are counterexamples of TLC. No recursive operator occurs in a module
with a theorem.

## 5. Findings

* `GateIdempotent`: `action_handler.py:10` says the handler is idempotent by
  construction; a crash between the INSERT and `mark_action_dispatched` queues a
  second study.
* `PromoterOnce`: `README.md:76-77` and `promoter.py:64-65` promise one alert per
  ticker and day. Action and suppression of a ticker are commits apart
  (`service.py:383-392`); when the second fails, `promoter.py:97-110` goes on without
  remembering the ticker, and the next event or pass alerts it again.
* `DeferredIsScored`: `triage.py:240-242` relies on the source to publish a deferred
  item again. The adapters commit their cursor past an item when they have published
  it, so no later poll lists it, and it is never scored.

Seen while reading, without a run:

* `worker.py:3-4` says concurrency is capped by `max_concurrent_jobs`; after a
  time-out (`worker.py:227-242`) an abandoned study runs next to its successor.
* `telegram_bot.py:40-41` says only pending rows are touched; the UPDATE
  (`store.py:489`) does not look, so an answer overwrites another one or an expiry
  that came in between.
* `worker.py:108-109` says rows left behind are reclaimed on the next boot, which
  skips those younger than an hour (the in-loop sweep ends them, and
  `WorkerLiveness` shows that this is enough).
* `action_handler.py:147` runs a refinement's study within `tick`, with no time-out. While
  it hangs, nothing is enqueued and nothing expires (the escape in the properties of
  `PipelineLiveness`).
* A backtest whose window is over commits its rows and then matures them
  (`harness.py:162-173`); if that raises, and likewise if a refinement's synthesis does
  after its study, `action_handler.py:115` logs it and the next tick begins again, so a row
  leaves another backtest or study at every tick: against "idempotent by construction"
  (`action_handler.py:10`), with no crash. `DuplicatesNeedFaults` counts them in `spoilt`.
* `triage.py:612-613` says that every fallback call burns the daily budget. A thread that
  looked at `used_fallback` (line 622) before another set it (621) and takes the endpoint
  (628) after the other put it in (619-620) calls the API without asking the budget:
  `unmetered` in `FallbackWithinBudget`.
* The docstring of `propagate` (`trading_graph.py:353-361`) says that a crashed run resumes
  from the last successful node, and logs "Resuming from step"; `graph.invoke` is given an
  initial state (452), with which the graph starts over. Only `invoke(None)` goes on, as in
  `tests/test_checkpoint_resume.py:77`.
* A digest goes to telegram only when it is an enabled channel, alerts whenever the bot is
  on; and an exception while one channel of a digest is rendered or recorded silences
  those behind it (`cli/morning.py:98-113`).
* Two telegram handlers can write the cursor back in either order, over each other; nothing
  reads it to fetch, so a message whose handler raises is lost either way.
* An event whose alert nobody answers keeps its status, so it alerts again on the
  next day.
* Nothing in the repository calls `run_maturation_pass`; the commands the docstring
  of `backtest/sweep.py` names do not exist, so `DueIsMatured` rests on an operator.

## 6. Plan

Every daemon and every table with more than one writer has its module. What is left,
in order of weight:

1. `Sensing` refining an abstract intake in which an item is published, and then
   scored, found a duplicate, deferred or buried; the promoter refining one in which a
   ticker is suppressed or not.
2. Action properties: what a step of a drain, of a responder or of a pass may never
   undo, stated for the pipeline as `ResultIsFinal` is.
3. The rows of `persistence/store.py` that only one process writes: conversations
   and sessions.

## 7. Not modelled

Prompts, LLM output, prices, rendering and data vendors are data: no property here
depends on them. An RSS entry without a date is given the time of the poll, and is
published at every poll; `Adapters` has only items whose stamp does not change. The
interactive command line, evaluation scripts and dashboards
only read or start what is modelled. SQLite's own locking is taken as given: one
statement with its commit is one step, and a `SQLITE_BUSY` that outlasts the busy
time-out is a failing commit.
