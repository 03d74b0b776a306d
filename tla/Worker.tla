------------------------------- MODULE Worker -------------------------------
(***************************************************************************)
(* iic-worker.service: the main loop of orchestrator/worker.py, the drain  *)
(* threads it starts, and the study each thread runs through               *)
(* orchestrator/dispatch.py and Secretary.compose_event_alert.             *)
(*                                                                         *)
(* The main thread submits one drain at a time and waits for it.  A drain  *)
(* that outlives the wall-clock cap is abandoned, not killed: its thread   *)
(* keeps running next to its successors.  A crash loses every thread and   *)
(* leaves the table as it was.                                             *)
(***************************************************************************)
EXTENDS QueueStore

CONSTANTS MaxThreads,    \* bound: drain threads alive at once
          JobTimeout,    \* worker_job_timeout_min, in ticks
          SweepMargin,   \* the 300 s margin, in ticks
          BootMaxAge,    \* max_age of the boot sweep, in ticks
          BudgetEnabled, \* daily_budget_enabled
          DailyUsd,      \* daily_budget_usd
          MaxFaults      \* bound: crashes, stops and failing commits

ASSUME WorkerAssumption ==
    /\ JobTimeout \in Nat \ {0}
    /\ SweepMargin \in Nat \ {0}
    /\ BootMaxAge \in Nat
    /\ BudgetEnabled \in BOOLEAN
    /\ DailyUsd \in Nat
    /\ MaxFaults \in Nat
    /\ MaxThreads \in Nat \ {0}

VARIABLES briefs,     \* per job: how far its full-study brief has come
          thr,        \* drain threads
          cur,        \* the thread whose future the main loop holds
          mpc,        \* where the main loop is
          waited,     \* time since the current drain was submitted
          sweepDue,   \* sweep_interval has elapsed since last_sweep
          stop,       \* _shutdown; kept while down, to tell a stop from a crash
          faults

threadVars == <<thr, cur, mpc, waited, sweepDue, stop>>
tableVars == <<jobs, briefs, actResult>>
workerVars == <<jobs, briefs, actResult, thr, cur, mpc, waited, sweepDue, stop, faults>>

\* Wrong: the margin where minutes and seconds are mixed up.
SweepAtOnce == 0

\* max(job_timeout * 2, job_timeout + 300)
SweepMaxAge ==
    IF JobTimeout > SweepMargin THEN JobTimeout * 2 ELSE JobTimeout + SweepMargin

BriefStage == {"none", "written", "packed", "delivered"}
ThreadPc == {"none", "start", "lease", "study", "written", "packed",
             "delivered", "linked", "fail", "ran", "idle"}
MainPc == {"down", "top", "await", "stopping"}

Threads == 1 .. MaxThreads
NoThread == [pc |-> "none", job |-> 0]

\* Thread numbers only tell threads apart: a new one gets the lowest free.
Fresh(t) == /\ thr[t].pc = "none"
            /\ \A s \in Threads : s < t => thr[s].pc # "none"

\* A thread that holds a lease.
Busy(t) == thr[t].pc \in {"study", "written", "packed", "delivered", "linked", "fail"}

\* No process: its memory is gone.
ProcessGone ==
    /\ mpc' = "down"
    /\ thr' = [t \in Threads |-> NoThread]
    /\ cur' = 1
    /\ waited' = 0
    /\ sweepDue' = FALSE

WorkerInit ==
    /\ jobs = EmptyQueue
    /\ briefs = [j \in JobId |-> "none"]
    /\ actResult = [a \in Actions |-> 0]
    /\ thr = [t \in Threads |-> NoThread]
    /\ cur = 1
    /\ mpc = "down"
    /\ waited = 0
    /\ sweepDue = FALSE
    /\ stop = FALSE
    /\ faults = 0
-----------------------------------------------------------------------------
(***************************************************************************)
(* The main loop.                                                          *)
(***************************************************************************)

\* main() up to the loop: boot sweep, fresh executor, last_sweep = now.
Boot ==
    /\ mpc = "down"
    /\ mpc' = "top"
    /\ jobs' = SweepStaleLeases(jobs, BootMaxAge)
    /\ stop' = FALSE
    /\ UNCHANGED <<briefs, actResult, thr, cur, waited, sweepDue, faults>>

\* One turn of the loop: the periodic sweep (whose failure is only logged),
\* then ex.submit(_drain_once).
LoopTurn ==
    /\ mpc = "top"
    /\ ~stop
    /\ \/ /\ sweepDue
          /\ jobs' = SweepStaleLeases(jobs, SweepMaxAge)
          /\ UNCHANGED faults
       \/ /\ sweepDue
          /\ faults < MaxFaults
          /\ faults' = faults + 1
          /\ UNCHANGED jobs
       \/ /\ ~sweepDue
          /\ UNCHANGED <<jobs, faults>>
    /\ sweepDue' = FALSE
    /\ thr' = [thr EXCEPT ![cur] = [pc |-> "start", job |-> 0]]
    /\ mpc' = "await"
    /\ UNCHANGED <<briefs, actResult, cur, waited, stop>>

\* _await_job returns: the drain ran a job, found none, or raised.
AwaitReturns ==
    /\ mpc = "await"
    /\ ~stop
    /\ thr[cur].pc \in {"ran", "idle"}
    /\ thr' = [thr EXCEPT ![cur] = NoThread]
    /\ mpc' = "top"
    /\ waited' = 0
    /\ UNCHANGED <<tableVars, cur, sweepDue, stop, faults>>

\* Wrong: future.result() without a cap.
AwaitForEver == FALSE

\* _await_job raises FuturesTimeout: the executor is replaced, the thread is
\* left to run.  The deadline is looked at before the future is.
AwaitTimesOut ==
    /\ mpc = "await"
    /\ ~stop
    /\ waited >= JobTimeout
    /\ thr' = [thr EXCEPT ![cur] = IF Busy(cur) \/ @.pc \in {"start", "lease"}
                                   THEN @ ELSE NoThread]
    /\ \E t \in Threads : Fresh(t) /\ cur' = t
    /\ mpc' = "top"
    /\ waited' = 0
    /\ UNCHANGED <<tableVars, sweepDue, stop, faults>>

\* _await_job or the loop condition sees _shutdown; the interpreter then
\* joins the pool threads before it exits.
SeeStop ==
    /\ mpc \in {"top", "await"}
    /\ stop
    /\ mpc' = "stopping"
    /\ waited' = 0
    /\ sweepDue' = FALSE
    /\ UNCHANGED <<tableVars, thr, cur, stop, faults>>

Exit ==
    /\ mpc = "stopping"
    /\ \A t \in Threads : thr[t].pc \in {"none", "ran", "idle"}
    /\ ProcessGone
    /\ UNCHANGED <<tableVars, stop, faults>>

\* systemd's SIGKILL once TimeoutStopSec has passed: a hanging study keeps
\* the interpreter from exiting by itself.
KillAfterStop ==
    /\ mpc = "stopping"
    /\ ProcessGone
    /\ UNCHANGED <<tableVars, stop, faults>>

\* SIGTERM or SIGINT.
StopSignal ==
    /\ mpc \in {"top", "await"}
    /\ ~stop
    /\ faults < MaxFaults
    /\ faults' = faults + 1
    /\ stop' = TRUE
    /\ UNCHANGED <<tableVars, thr, cur, mpc, waited, sweepDue>>

\* The process dies (OOM kill, power).
Crash ==
    /\ mpc # "down"
    /\ faults < MaxFaults
    /\ faults' = faults + 1
    /\ ProcessGone
    /\ stop' = FALSE
    /\ UNCHANGED tableVars

MainLoop == Boot \/ LoopTurn \/ AwaitReturns \/ AwaitTimesOut \/ SeeStop \/ Exit
            \/ KillAfterStop
-----------------------------------------------------------------------------
(***************************************************************************)
(* A drain thread: drain_one.                                              *)
(***************************************************************************)

\* Wrong: the finished drain still holds its lease.
KeepsLease(t, result) == [pc |-> result, job |-> thr[t].job]

\* The future of the awaited thread keeps its result; an abandoned thread
\* ends with its future.
Finished(t, result) ==
    IF t = cur THEN [pc |-> result, job |-> 0] ELSE NoThread

\* Wrong: the gate's answer is ignored.
GateIgnored(t) ==
    /\ thr[t].pc = "start"
    /\ thr' = [thr EXCEPT ![t] = [pc |-> "lease", job |-> 0]]
    /\ UNCHANGED <<tableVars, cur, mpc, waited, sweepDue, stop, faults>>

\* budget_guard.gate(conn): a read of its own, before the lease.
BudgetGate(t) ==
    /\ thr[t].pc = "start"
    /\ thr' = [thr EXCEPT ![t] =
                  IF BudgetEnabled /\ DailyCostTotal(jobs) >= DailyUsd
                  THEN Finished(t, "idle")
                  ELSE [pc |-> "lease", job |-> 0]]
    /\ UNCHANGED <<tableVars, cur, mpc, waited, sweepDue, stop, faults>>

Lease(t) ==
    /\ thr[t].pc = "lease"
    /\ \/ \E j \in JobId :
             /\ OldestQueued(jobs, j)
             /\ jobs' = LeaseOne(jobs, j)
             /\ thr' = [thr EXCEPT ![t] = [pc |-> "study", job |-> j]]
       \/ /\ QueueIdle(jobs)
          /\ thr' = [thr EXCEPT ![t] = Finished(t, "idle")]
          /\ UNCHANGED jobs
    /\ UNCHANGED <<briefs, actResult, cur, mpc, waited, sweepDue, stop, faults>>

\* Connecting, building the Secretary, the gate or the lease raises: no job
\* was taken and the loop logs it.
DrainRaises(t) ==
    /\ thr[t].pc \in {"start", "lease"}
    /\ faults < MaxFaults
    /\ faults' = faults + 1
    /\ thr' = [thr EXCEPT ![t] = Finished(t, "idle")]
    /\ UNCHANGED <<tableVars, cur, mpc, waited, sweepDue, stop>>

\* compose_event_alert commits the brief row, then the analysis pack and its
\* link, then delivers (best effort, never raising).
ComposeStep(t, from, to) ==
    /\ thr[t].pc = from
    /\ thr' = [thr EXCEPT ![t].pc = to]
    /\ briefs' = [briefs EXCEPT ![thr[t].job] = to]
    /\ UNCHANGED <<jobs, actResult, cur, mpc, waited, sweepDue, stop, faults>>

WriteBrief(t) == ComposeStep(t, "study", "written")
PackBrief(t) == ComposeStep(t, "written", "packed")
DeliverBrief(t) == ComposeStep(t, "packed", "delivered")

\* Wrong: the link is made from state the threads share.
LinkCurrent(t) ==
    /\ thr[t].pc = "delivered"
    /\ thr' = [thr EXCEPT ![t].pc = "linked"]
    /\ LET a == jobs[thr[t].job].action IN
       actResult' = IF a = NoAction THEN actResult
                    ELSE [actResult EXCEPT ![a] = thr[cur].job]
    /\ UNCHANGED <<jobs, briefs, cur, mpc, waited, sweepDue, stop, faults>>

\* store.mark_action_done, in a commit of its own.
LinkAction(t) ==
    /\ thr[t].pc = "delivered"
    /\ thr' = [thr EXCEPT ![t].pc = "linked"]
    /\ LET a == jobs[thr[t].job].action IN
       actResult' = IF a = NoAction THEN actResult
                    ELSE [actResult EXCEPT ![a] = thr[t].job]
    /\ UNCHANGED <<jobs, briefs, cur, mpc, waited, sweepDue, stop, faults>>

\* Wrong: mark_done before mark_action_done.
DoneBeforeLink(t) ==
    /\ thr[t].pc = "delivered"
    /\ \E c \in CostValues : jobs' = MarkDone(jobs, thr[t].job, c)
    /\ thr' = [thr EXCEPT ![t] = Finished(t, "ran")]
    /\ UNCHANGED <<briefs, actResult, cur, mpc, waited, sweepDue, stop, faults>>

FinishDone(t) ==
    /\ thr[t].pc = "linked"
    /\ \E c \in CostValues : jobs' = MarkDone(jobs, thr[t].job, c)
    /\ thr' = [thr EXCEPT ![t] = Finished(t, "ran")]
    /\ UNCHANGED <<briefs, actResult, cur, mpc, waited, sweepDue, stop, faults>>

\* Anything inside the try raises: the study, any later write, mark_done.
StudyRaises(t) ==
    /\ Busy(t)
    /\ thr[t].pc # "fail"
    /\ thr' = [thr EXCEPT ![t].pc = "fail"]
    /\ UNCHANGED <<tableVars, cur, mpc, waited, sweepDue, stop, faults>>

FinishError(t) ==
    /\ thr[t].pc = "fail"
    /\ jobs' = MarkError(jobs, thr[t].job)
    /\ thr' = [thr EXCEPT ![t] = Finished(t, "ran")]
    /\ UNCHANGED <<briefs, actResult, cur, mpc, waited, sweepDue, stop, faults>>

\* mark_error raises as well: the row stays running with no thread behind it.
MarkErrorRaises(t) ==
    /\ thr[t].pc = "fail"
    /\ faults < MaxFaults
    /\ faults' = faults + 1
    /\ thr' = [thr EXCEPT ![t] = Finished(t, "idle")]
    /\ UNCHANGED <<tableVars, cur, mpc, waited, sweepDue, stop>>

Drain(t) ==
    \/ BudgetGate(t) \/ Lease(t) \/ DrainRaises(t)
    \/ WriteBrief(t) \/ PackBrief(t) \/ DeliverBrief(t)
    \/ LinkAction(t) \/ FinishDone(t)
    \/ StudyRaises(t) \/ FinishError(t) \/ MarkErrorRaises(t)
-----------------------------------------------------------------------------
(***************************************************************************)
(* The clock, and the producers of the queue.                              *)
(***************************************************************************)
Tick ==
    /\ jobs' = AgeRunning(jobs)
    /\ waited' = IF mpc = "await" /\ waited < JobTimeout THEN waited + 1 ELSE waited
    /\ sweepDue' = (mpc \in {"top", "await"})
    /\ UNCHANGED <<briefs, actResult, thr, cur, mpc, stop, faults>>

\* The date is read by the budget guard alone.
Midnight ==
    /\ BudgetEnabled
    /\ jobs' = NewDay(jobs)
    /\ UNCHANGED <<briefs, actResult, threadVars, faults>>

WorkerStep == MainLoop \/ StopSignal \/ Crash \/ Tick \/ Midnight
              \/ \E t \in Threads : Drain(t)

\* The producers of the queue, as the worker sees them: the action handler
\* inserts a job for an action, a second one after a crash; the promoter's
\* legacy path jobs with no action.
Enqueue(j, a) ==
    /\ NextJobId(jobs, j)
    /\ jobs' = InsertQueueJob(jobs, j, a)
    /\ UNCHANGED <<briefs, actResult, threadVars, faults>>

WorkerNext ==
    \/ WorkerStep
    \/ \E j \in JobId, a \in Actions \cup {NoAction} : Enqueue(j, a)

WorkerSpec == WorkerInit /\ [][WorkerNext]_workerVars

(***************************************************************************)
(* systemd restarts a process that died (Restart=on-failure), and a stop   *)
(* signal is the first half of a `systemctl restart`.  The main thread     *)
(* runs, a thread that has just been started reaches the queue and a       *)
(* failed one records it.  Nothing makes a study return: an LLM call may   *)
(* hang for ever.                                                          *)
(***************************************************************************)
WorkerFairness ==
    /\ WF_workerVars(MainLoop)
    /\ WF_workerVars(Tick)
    /\ \A t \in Threads : WF_workerVars(BudgetGate(t)) /\ WF_workerVars(Lease(t))
                          /\ WF_workerVars(FinishError(t))

FairWorker == WorkerSpec /\ WorkerFairness
-----------------------------------------------------------------------------
(***************************************************************************)
(* Properties.                                                             *)
(***************************************************************************)
WorkerTypeOK ==
    /\ jobs \in [JobId -> Job]
    /\ briefs \in [JobId -> BriefStage]
    /\ actResult \in [Actions -> 0 .. MaxJobs]
    /\ thr \in [Threads -> [pc : ThreadPc, job : 0 .. MaxJobs]]
    /\ \A t \in Threads : (thr[t].job # 0) <=> Busy(t)
    /\ cur \in Threads
    /\ mpc \in MainPc
    /\ waited \in 0 .. JobTimeout
    /\ sweepDue \in BOOLEAN
    /\ stop \in BOOLEAN
    /\ faults \in 0 .. MaxFaults

\* A job is executed by at most one thread, abandoned threads included, and
\* the row of a job in execution is running, or error when the sweep has
\* given up on it: no second study of a job, whatever timed out or crashed.
OneExecutor ==
    /\ \A s, t \in Threads : (Busy(s) /\ Busy(t) /\ thr[s].job = thr[t].job) => s = t
    /\ \A t \in Threads : Busy(t) => jobs[thr[t].job].state \in {"running", "error"}

\* A row says done only when the brief is delivered and the action that asked
\* for the study shows it: the order compose, deliver, mark_action_done,
\* mark_done over four commits, with runaway threads still writing.
DoneIsDelivered ==
    \A j \in JobId : jobs[j].state = "done" =>
        /\ briefs[j] = "delivered"
        /\ jobs[j].action # NoAction => actResult[jobs[j].action] # 0

\* The result shown on an action is the delivered brief of a job that was
\* enqueued for that very action.
ResultBelongsToAction ==
    \A a \in Actions : actResult[a] # 0 =>
        /\ jobs[actResult[a]].action = a
        /\ briefs[actResult[a]] = "delivered"

\* Jobs are leased oldest first: no row waits behind a younger one.
NoOvertaking ==
    \A i, j \in JobId :
        (i < j /\ jobs[i].state = "queued") => jobs[j].state \in {"none", "queued"}

\* The in-loop sweep looks at the age alone and may meet a job that an
\* abandoned thread is still executing: it takes the job away only when the
\* study has had more than its wall-clock cap since the lease.
SweepOnlyOverdue ==
    [][\A t \in Threads :
          (/\ Busy(t) /\ thr'[t] = thr[t]
           /\ jobs[thr[t].job].state = "running" /\ jobs'[thr[t].job].state = "error")
             => jobs[thr[t].job].age > JobTimeout]_workerVars

\* With the budget guard on, the recorded spend passes the limit by at most
\* one study per thread that passed the gate before: check-then-lease, with
\* abandoned threads still to report.
BudgetOvershoot ==
    BudgetEnabled =>
        \A c \in CostValues : (\A d \in CostValues : d <= c) =>
            DailyCostTotal(jobs) < DailyUsd + c * Cardinality(Threads)

\* The worker implements the queue's promise: the states of the rows follow
\* JobLifecycle, and with the worker's fairness its fairness holds as well.
Life == INSTANCE JobLifecycle WITH
            Jobs <- JobId, life <- [j \in JobId |-> jobs[j].state]
ImplementsLifecycle == Life!LifeSpec
ImplementsFairLifecycle == Life!FairLife
=============================================================================
