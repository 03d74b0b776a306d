---------------------------- MODULE WorkerProofs ----------------------------
(***************************************************************************)
(* Proofs about Worker, for every number of jobs, threads, faults and      *)
(* every setting of the time limits.                                       *)
(***************************************************************************)
EXTENDS Worker, QueueProofs, FiniteSetTheorems, TLAPS

LEMMA SweepMaxAgeBound == SweepMaxAge \in Nat /\ SweepMaxAge > JobTimeout
BY WorkerAssumption DEF SweepMaxAge

LEMMA BusyHasJob ==
    ASSUME WorkerTypeOK, NEW t \in Threads, Busy(t)
    PROVE  thr[t].job \in JobId
<1>1. thr[t].job \in 0 .. MaxJobs /\ thr[t].job # 0
  BY DEF WorkerTypeOK
<1> QED BY <1>1, QueueAssumption DEF JobId
-----------------------------------------------------------------------------
(***************************************************************************)
(* Type correctness.                                                       *)
(***************************************************************************)
LEMMA Bounds ==
    /\ 0 \in 0 .. JobTimeout /\ 0 \in 0 .. MaxFaults /\ 0 \in 0 .. MaxJobs
    /\ 1 \in Threads
    /\ \A f \in 0 .. MaxFaults : f < MaxFaults => f + 1 \in 0 .. MaxFaults
    /\ \A w \in 0 .. JobTimeout : w < JobTimeout => w + 1 \in 0 .. JobTimeout
    /\ \A j \in JobId : j \in 0 .. MaxJobs /\ j # 0
BY QueueAssumption, WorkerAssumption DEF Threads, JobId

LEMMA InitType == WorkerInit => WorkerTypeOK
<1> SUFFICES ASSUME WorkerInit PROVE WorkerTypeOK
  OBVIOUS
<1>1. /\ jobs \in [JobId -> Job]
      /\ briefs \in [JobId -> BriefStage]
      /\ actResult \in [Actions -> 0 .. MaxJobs]
  BY Bounds, EmptyQueueType DEF WorkerInit, BriefStage
<1>2. /\ thr \in [Threads -> [pc : ThreadPc, job : 0 .. MaxJobs]]
      /\ \A t \in Threads : (thr[t].job # 0) <=> Busy(t)
  BY Bounds DEF WorkerInit, NoThread, ThreadPc, Busy
<1>3. /\ cur \in Threads /\ mpc \in MainPc /\ waited \in 0 .. JobTimeout
      /\ sweepDue \in BOOLEAN /\ stop \in BOOLEAN /\ faults \in 0 .. MaxFaults
  BY Bounds DEF WorkerInit, MainPc
<1> QED BY <1>1, <1>2, <1>3 DEF WorkerTypeOK

LEMMA StepType == WorkerTypeOK /\ [WorkerNext]_workerVars => WorkerTypeOK'
<1> SUFFICES ASSUME WorkerTypeOK, [WorkerNext]_workerVars
             PROVE  WorkerTypeOK'
  OBVIOUS
<1> USE Bounds DEF WorkerTypeOK, Busy, MainPc, ThreadPc, NoThread, tableVars
<1>1. CASE Boot
  BY <1>1, ClockTypes, WorkerAssumption DEF Boot
<1>2. CASE LoopTurn
  <2>1. jobs' \in [JobId -> Job]
    <3>1. SweepStaleLeases(jobs, SweepMaxAge) \in [JobId -> Job]
      BY ClockTypes, SweepMaxAgeBound
    <3>2. jobs' = SweepStaleLeases(jobs, SweepMaxAge) \/ jobs' = jobs
      BY <1>2 DEF LoopTurn
    <3> QED BY <3>1, <3>2
  <2> QED BY <1>2, <2>1 DEF LoopTurn
<1>3. CASE AwaitReturns
  BY <1>3 DEF AwaitReturns
<1>4. CASE AwaitTimesOut
  BY <1>4 DEF AwaitTimesOut
<1>5. CASE SeeStop
  BY <1>5 DEF SeeStop
<1>6. CASE Exit
  BY <1>6 DEF Exit, ProcessGone
<1>7. CASE KillAfterStop
  BY <1>7 DEF KillAfterStop, ProcessGone
<1>8. CASE StopSignal
  BY <1>8 DEF StopSignal
<1>9. CASE Crash
  BY <1>9 DEF Crash, ProcessGone
<1>10. CASE Tick
  BY <1>10, ClockTypes DEF Tick
<1>11. CASE Midnight
  BY <1>11, ClockTypes DEF Midnight, threadVars
<1>12. ASSUME NEW t \in Threads, BudgetGate(t) PROVE WorkerTypeOK'
  BY <1>12 DEF BudgetGate, Finished
<1>13. ASSUME NEW t \in Threads, Lease(t) PROVE WorkerTypeOK'
  <2>1. jobs' \in [JobId -> Job]
    BY <1>13, TableTypes DEF Lease
  <2> QED BY <1>13, <2>1 DEF Lease, Finished
<1>14. ASSUME NEW t \in Threads, DrainRaises(t) PROVE WorkerTypeOK'
  BY <1>14 DEF DrainRaises, Finished
<1>15. ASSUME NEW t \in Threads, WriteBrief(t) \/ PackBrief(t) \/ DeliverBrief(t)
       PROVE  WorkerTypeOK'
  BY <1>15 DEF WriteBrief, PackBrief, DeliverBrief, ComposeStep, BriefStage
<1>16. ASSUME NEW t \in Threads, LinkAction(t) PROVE WorkerTypeOK'
  BY <1>16 DEF LinkAction
<1>17. ASSUME NEW t \in Threads, FinishDone(t) PROVE WorkerTypeOK'
  BY <1>17, TableTypes, BusyHasJob DEF FinishDone, Finished
<1>18. ASSUME NEW t \in Threads, StudyRaises(t) PROVE WorkerTypeOK'
  BY <1>18 DEF StudyRaises
<1>19. ASSUME NEW t \in Threads, FinishError(t) PROVE WorkerTypeOK'
  BY <1>19, TableTypes, BusyHasJob DEF FinishError, Finished
<1>20. ASSUME NEW t \in Threads, MarkErrorRaises(t) PROVE WorkerTypeOK'
  BY <1>20 DEF MarkErrorRaises, Finished
<1>21. ASSUME NEW j \in JobId, NEW a \in Actions \cup {NoAction}, Enqueue(j, a)
       PROVE  WorkerTypeOK'
  BY <1>21, TableTypes DEF Enqueue, threadVars
<1>22. CASE UNCHANGED workerVars
  BY <1>22 DEF workerVars
<1> QED
  BY <1>1, <1>2, <1>3, <1>4, <1>5, <1>6, <1>7, <1>8, <1>9, <1>10, <1>11, <1>12,
     <1>13, <1>14, <1>15, <1>16, <1>17, <1>18, <1>19, <1>20, <1>21, <1>22
     DEF WorkerNext, WorkerStep, MainLoop, Drain

\* Every variable keeps its type, and a thread names a job exactly while it
\* holds the job's lease.
THEOREM WorkerTypeCorrect == WorkerSpec => []WorkerTypeOK
BY InitType, StepType, PTL DEF WorkerSpec
-----------------------------------------------------------------------------
(***************************************************************************)
(* The inductive invariant.  The safety invariants speak of the rows and   *)
(* of what was delivered; what carries them from step to step is where     *)
(* each thread stands: the stage it has reached is the stage its brief is  *)
(* in, a job that was never leased has no brief, and rows are numbered     *)
(* without gaps.                                                           *)
(***************************************************************************)

\* The brief of a job in execution is at the stage of its thread.
StageOfThread ==
    \A t \in Threads :
        /\ thr[t].pc = "study" => briefs[thr[t].job] = "none"
        /\ thr[t].pc = "written" => briefs[thr[t].job] = "written"
        /\ thr[t].pc = "packed" => briefs[thr[t].job] = "packed"
        /\ thr[t].pc \in {"delivered", "linked"} => briefs[thr[t].job] = "delivered"
        /\ thr[t].pc = "linked" =>
              LET a == jobs[thr[t].job].action IN
              a # NoAction => actResult[a] # 0

\* A job that no thread ever leased has no brief.
UnleasedHasNoBrief ==
    \A j \in JobId : jobs[j].state \in {"none", "queued"} => briefs[j] = "none"

\* Rows are inserted in the order of their numbers.
NoGaps ==
    \A i, j \in JobId : (i < j /\ jobs[i].state = "none") => jobs[j].state = "none"

\* A process that is down has no threads.
DownHasNoThread == mpc = "down" => \A t \in Threads : thr[t].pc = "none"

ExecInv == OneExecutor /\ StageOfThread /\ UnleasedHasNoBrief
ResultInv == DoneIsDelivered /\ ResultBelongsToAction
OrderInv == NoOvertaking /\ NoGaps

WorkerInv == WorkerTypeOK /\ ExecInv /\ ResultInv /\ OrderInv /\ DownHasNoThread

LEMMA InitInv == WorkerInit => WorkerInv
<1> SUFFICES ASSUME WorkerInit PROVE WorkerInv
  OBVIOUS
<1>1. /\ \A j \in JobId : jobs[j].state = "none" /\ briefs[j] = "none"
      /\ \A a \in Actions : actResult[a] = 0
      /\ \A t \in Threads : thr[t].pc = "none"
  BY DEF WorkerInit, EmptyQueue, NoJob, NoThread
<1>2. ExecInv
  BY <1>1 DEF ExecInv, OneExecutor, StageOfThread, UnleasedHasNoBrief, Busy
<1>3. ResultInv
  BY <1>1 DEF ResultInv, DoneIsDelivered, ResultBelongsToAction
<1>4. OrderInv
  BY <1>1 DEF OrderInv, NoOvertaking, NoGaps
<1>5. DownHasNoThread
  BY <1>1 DEF DownHasNoThread
<1> QED BY <1>2, <1>3, <1>4, <1>5, InitType DEF WorkerInv

(***************************************************************************)
(* Most steps are quiet: no row moves but from running to error, nothing   *)
(* is delivered or linked, and a thread goes on, ends or fails.            *)
(***************************************************************************)
RowsKept ==
    \A j \in JobId :
        /\ jobs'[j].action = jobs[j].action
        /\ \/ jobs'[j].state = jobs[j].state
           \/ jobs[j].state = "running" /\ jobs'[j].state = "error"

ThreadsKept ==
    \A t \in Threads :
        \/ thr'[t] = thr[t]
        \/ thr'[t].pc \in {"none", "start", "lease", "ran", "idle"}
        \/ Busy(t) /\ thr'[t].pc = "fail" /\ thr'[t].job = thr[t].job

Quiet == RowsKept /\ ThreadsKept /\ UNCHANGED <<briefs, actResult>>

LEMMA QuietInv ==
    ASSUME WorkerInv, WorkerTypeOK', Quiet
    PROVE  ExecInv' /\ ResultInv' /\ OrderInv'
<1>1. \A t \in Threads : Busy(t) => thr[t].job \in JobId
  BY BusyHasJob DEF WorkerInv
<1>2. \A t \in Threads : Busy(t)' => Busy(t) /\ thr'[t].job = thr[t].job
  BY DEF Quiet, ThreadsKept, Busy
<1>3. \A t \in Threads : thr'[t] = thr[t] \/ thr'[t].pc = "fail" \/ ~Busy(t)'
  BY DEF Quiet, ThreadsKept, Busy
<1>4. OneExecutor'
  BY <1>1, <1>2 DEF Quiet, RowsKept, WorkerInv, ExecInv, OneExecutor
<1>5. StageOfThread'
  BY <1>1, <1>2, <1>3 DEF Quiet, RowsKept, WorkerInv, ExecInv, StageOfThread, Busy
<1>6. UnleasedHasNoBrief'
  BY DEF Quiet, RowsKept, WorkerInv, ExecInv, UnleasedHasNoBrief
<1>7. DoneIsDelivered'
  BY DEF Quiet, RowsKept, WorkerInv, ResultInv, DoneIsDelivered
<1>8. ResultBelongsToAction'
  <2> SUFFICES ASSUME NEW a \in Actions, actResult[a] # 0
               PROVE  jobs'[actResult[a]].action = a /\ briefs[actResult[a]] = "delivered"
    BY DEF Quiet, ResultBelongsToAction
  <2>1. actResult[a] \in JobId
    BY QueueAssumption DEF WorkerInv, WorkerTypeOK, JobId
  <2> QED BY <2>1 DEF Quiet, RowsKept, WorkerInv, ResultInv, ResultBelongsToAction
<1>9. OrderInv'
  BY DEF Quiet, RowsKept, WorkerInv, OrderInv, NoOvertaking, NoGaps
<1> QED BY <1>4, <1>5, <1>6, <1>7, <1>8, <1>9 DEF ExecInv, ResultInv

LEMMA ClockKeepsRows ==
    ASSUME WorkerTypeOK, NEW m \in Nat,
           jobs' = SweepStaleLeases(jobs, m) \/ jobs' = AgeRunning(jobs)
              \/ jobs' = NewDay(jobs) \/ jobs' = jobs
    PROVE  RowsKept
<1>1. \A j \in JobId : jobs[j] \in Job
  BY DEF WorkerTypeOK
<1>2. CASE jobs' = SweepStaleLeases(jobs, m)
  BY <1>1, <1>2 DEF Job, SweepStaleLeases, Stale, RowsKept
<1>3. CASE jobs' = AgeRunning(jobs)
  BY <1>1, <1>3 DEF Job, AgeRunning, RowsKept
<1>4. CASE jobs' = NewDay(jobs)
  BY <1>1, <1>4 DEF Job, NewDay, RowsKept
<1>5. CASE jobs' = jobs
  BY <1>5 DEF RowsKept
<1> QED BY <1>2, <1>3, <1>4, <1>5

LEMMA LoopIsQuiet ==
    ASSUME WorkerInv, MainLoop \/ StopSignal \/ Crash \/ Tick \/ Midnight \/ UNCHANGED workerVars
    PROVE  Quiet
<1> USE DEF Quiet, ThreadsKept, NoThread, WorkerInv, WorkerTypeOK, tableVars
<1>0. (jobs' = jobs \/ jobs' = AgeRunning(jobs) \/ jobs' = NewDay(jobs)) => RowsKept
  BY ClockKeepsRows
<1>1. CASE Boot
  BY <1>1, ClockKeepsRows, WorkerAssumption DEF Boot
<1>2. CASE LoopTurn
  <2>1. jobs' = SweepStaleLeases(jobs, SweepMaxAge) \/ jobs' = jobs
    BY <1>2 DEF LoopTurn
  <2>2. RowsKept
    BY <2>1, ClockKeepsRows, SweepMaxAgeBound
  <2> QED BY <1>2, <2>2 DEF LoopTurn
<1>3. CASE AwaitReturns
  BY <1>0, <1>3 DEF AwaitReturns
<1>4. CASE AwaitTimesOut
  BY <1>0, <1>4 DEF AwaitTimesOut
<1>5. CASE SeeStop
  BY <1>0, <1>5 DEF SeeStop
<1>6. CASE Exit \/ KillAfterStop \/ Crash
  BY <1>0, <1>6 DEF Exit, KillAfterStop, Crash, ProcessGone
<1>7. CASE StopSignal
  BY <1>0, <1>7 DEF StopSignal
<1>8. CASE Tick
  BY <1>0, <1>8 DEF Tick
<1>9. CASE Midnight
  BY <1>0, <1>9 DEF Midnight, threadVars
<1>10. CASE UNCHANGED workerVars
  BY <1>0, <1>10 DEF workerVars
<1> QED
  BY <1>1, <1>2, <1>3, <1>4, <1>5, <1>6, <1>7, <1>8, <1>9, <1>10 DEF MainLoop

LEMMA DrainIsQuiet ==
    ASSUME WorkerInv, NEW t \in Threads,
           \/ BudgetGate(t) \/ DrainRaises(t) \/ StudyRaises(t)
           \/ FinishError(t) \/ MarkErrorRaises(t)
           \/ Lease(t) /\ UNCHANGED jobs /\ thr'[t].pc # "study"
    PROVE  Quiet
<1> USE DEF Quiet, ThreadsKept, NoThread, WorkerInv, WorkerTypeOK, tableVars, Finished
<1>0. jobs' = jobs => RowsKept
  BY ClockKeepsRows
<1>1. CASE BudgetGate(t)
  BY <1>0, <1>1 DEF BudgetGate
<1>2. CASE DrainRaises(t)
  BY <1>0, <1>2 DEF DrainRaises
<1>3. CASE StudyRaises(t)
  BY <1>0, <1>3 DEF StudyRaises
<1>4. CASE FinishError(t)
  <2>1. thr[t].job \in JobId /\ jobs[thr[t].job].state \in {"running", "error"}
    BY <1>4, BusyHasJob DEF FinishError, Busy, ExecInv, OneExecutor
  <2>2. RowsKept
    BY <1>4, <2>1 DEF FinishError, MarkError, RowsKept, Job
  <2> QED BY <1>4, <2>2 DEF FinishError
<1>5. CASE MarkErrorRaises(t)
  BY <1>0, <1>5 DEF MarkErrorRaises
<1>6. CASE Lease(t) /\ UNCHANGED jobs /\ thr'[t].pc # "study"
  BY <1>0, <1>6 DEF Lease
<1> QED BY <1>1, <1>2, <1>3, <1>4, <1>5, <1>6

(***************************************************************************)
(* The steps that are not quiet.                                           *)
(***************************************************************************)
LEMMA LeaseInv ==
    ASSUME WorkerInv, WorkerTypeOK', NEW t \in Threads, Lease(t)
    PROVE  ExecInv' /\ ResultInv' /\ OrderInv'
<1>1. CASE UNCHANGED jobs /\ thr'[t].pc # "study"
  BY <1>1, DrainIsQuiet, QuietInv
<1>2. ASSUME NEW j \in JobId, OldestQueued(jobs, j), jobs' = LeaseOne(jobs, j),
             thr' = [thr EXCEPT ![t] = [pc |-> "study", job |-> j]]
      PROVE  ExecInv' /\ ResultInv' /\ OrderInv'
  <2> USE DEF WorkerInv
  <2>1. UNCHANGED <<briefs, actResult>>
    BY DEF Lease
  <2>2. /\ jobs[j].state = "queued" /\ jobs'[j].state = "running"
        /\ \A k \in JobId : k # j => jobs'[k] = jobs[k]
        /\ \A k \in JobId : jobs'[k].action = jobs[k].action
        /\ \A k \in JobId : jobs[k].state = "queued" => j <= k
    BY <1>2 DEF OldestQueued, LeaseOne, WorkerTypeOK, Job
  <2>3. \A s \in Threads : s # t => thr'[s] = thr[s]
    BY <1>2 DEF WorkerTypeOK
  <2>4. thr'[t].pc = "study" /\ thr'[t].job = j
    BY <1>2 DEF WorkerTypeOK
  <2>5. \A s \in Threads : Busy(s) => thr[s].job \in JobId /\ thr[s].job # j
    BY <2>2, BusyHasJob DEF ExecInv, OneExecutor
  <2>6. OneExecutor'
    BY <2>2, <2>3, <2>4, <2>5 DEF ExecInv, OneExecutor, Busy
  <2>7. StageOfThread'
    BY <2>1, <2>2, <2>3, <2>4, <2>5
       DEF ExecInv, StageOfThread, UnleasedHasNoBrief, Busy
  <2>8. UnleasedHasNoBrief'
    BY <2>1, <2>2 DEF ExecInv, UnleasedHasNoBrief
  <2>9. DoneIsDelivered'
    BY <2>1, <2>2 DEF ResultInv, DoneIsDelivered
  <2>10. ResultBelongsToAction'
    <3> SUFFICES ASSUME NEW a \in Actions, actResult[a] # 0
                 PROVE  jobs'[actResult[a]].action = a /\ briefs[actResult[a]] = "delivered"
      BY <2>1 DEF ResultBelongsToAction
    <3>1. actResult[a] \in JobId
      BY QueueAssumption DEF WorkerTypeOK, JobId
    <3> QED BY <2>2, <3>1 DEF ResultInv, ResultBelongsToAction
  <2>11. OrderInv'
    BY <2>2 DEF OrderInv, NoOvertaking, NoGaps, JobId
  <2> QED BY <2>6, <2>7, <2>8, <2>9, <2>10, <2>11 DEF ExecInv, ResultInv
<1>3. \/ UNCHANGED jobs /\ thr'[t].pc # "study"
      \/ \E j \in JobId : /\ OldestQueued(jobs, j) /\ jobs' = LeaseOne(jobs, j)
                          /\ thr' = [thr EXCEPT ![t] = [pc |-> "study", job |-> j]]
  BY DEF Lease, Finished, NoThread, WorkerInv, WorkerTypeOK
<1> QED BY <1>1, <1>2, <1>3

LEMMA ComposeInv ==
    ASSUME WorkerInv, WorkerTypeOK', NEW t \in Threads,
           WriteBrief(t) \/ PackBrief(t) \/ DeliverBrief(t)
    PROVE  ExecInv' /\ ResultInv' /\ OrderInv'
<1> USE DEF WorkerInv
<1> DEFINE j == thr[t].job
<1>1. PICK to \in {"written", "packed", "delivered"} :
        /\ UNCHANGED <<jobs, actResult>>
        /\ thr' = [thr EXCEPT ![t].pc = to]
        /\ briefs' = [briefs EXCEPT ![j] = to]
  BY DEF WriteBrief, PackBrief, DeliverBrief, ComposeStep
<1>2. Busy(t) /\ thr[t].pc \in {"study", "written", "packed"}
  BY DEF WriteBrief, PackBrief, DeliverBrief, ComposeStep, Busy
<1>3. j \in JobId /\ jobs[j].state \in {"running", "error"}
  BY <1>2, BusyHasJob DEF ExecInv, OneExecutor
<1>4. briefs[j] # "delivered"
  BY <1>2 DEF ExecInv, StageOfThread
<1>5. /\ \A s \in Threads : s # t => thr'[s] = thr[s]
      /\ thr'[t].pc = to /\ thr'[t].job = j
      /\ briefs'[j] = to /\ \A k \in JobId : k # j => briefs'[k] = briefs[k]
  BY <1>1, <1>3 DEF WorkerTypeOK
<1>6. \A s \in Threads : /\ Busy(s) => thr[s].job \in JobId
                         /\ (s # t /\ Busy(s)) => thr[s].job # j
  BY <1>2, BusyHasJob DEF ExecInv, OneExecutor
<1>7. OneExecutor'
  BY <1>1, <1>2, <1>5, <1>6 DEF ExecInv, OneExecutor, Busy
<1>8. StageOfThread'
  BY <1>1, <1>2, <1>5, <1>6 DEF ExecInv, StageOfThread, Busy
<1>9. UnleasedHasNoBrief'
  BY <1>1, <1>3, <1>5 DEF ExecInv, UnleasedHasNoBrief
<1>10. DoneIsDelivered'
  BY <1>1, <1>3, <1>5 DEF ResultInv, DoneIsDelivered
<1>11. ResultBelongsToAction'
  <2> SUFFICES ASSUME NEW a \in Actions, actResult[a] # 0
               PROVE  jobs[actResult[a]].action = a /\ briefs'[actResult[a]] = "delivered"
    BY <1>1 DEF ResultBelongsToAction
  <2>1. actResult[a] \in JobId
    BY QueueAssumption DEF WorkerTypeOK, JobId
  <2> QED BY <1>4, <1>5, <2>1 DEF ResultInv, ResultBelongsToAction
<1>12. OrderInv'
  BY <1>1 DEF OrderInv, NoOvertaking, NoGaps
<1> QED BY <1>7, <1>8, <1>9, <1>10, <1>11, <1>12 DEF ExecInv, ResultInv

LEMMA LinkInv ==
    ASSUME WorkerInv, WorkerTypeOK', NEW t \in Threads, LinkAction(t)
    PROVE  ExecInv' /\ ResultInv' /\ OrderInv'
<1> USE DEF WorkerInv
<1> DEFINE j == thr[t].job
           a == jobs[j].action
<1>1. /\ UNCHANGED <<jobs, briefs>> /\ thr[t].pc = "delivered"
      /\ thr' = [thr EXCEPT ![t].pc = "linked"]
      /\ actResult' = IF a = NoAction THEN actResult ELSE [actResult EXCEPT ![a] = j]
  BY DEF LinkAction
<1>2. Busy(t) /\ j \in JobId /\ jobs[j].state \in {"running", "error"}
  BY <1>1, BusyHasJob DEF ExecInv, OneExecutor, Busy
<1>3. briefs[j] = "delivered" /\ a \in Actions \cup {NoAction}
  BY <1>1, <1>2 DEF ExecInv, StageOfThread, WorkerTypeOK, Job
<1>4. /\ \A s \in Threads : s # t => thr'[s] = thr[s]
      /\ thr'[t].pc = "linked" /\ thr'[t].job = j
  BY <1>1 DEF WorkerTypeOK
<1>5. /\ \A b \in Actions : b # a => actResult'[b] = actResult[b]
      /\ a # NoAction => actResult'[a] = j
  BY <1>1, <1>3 DEF WorkerTypeOK
<1>6. j # 0 /\ \A b \in Actions : actResult[b] # 0 => actResult'[b] # 0
  BY <1>2, <1>3, <1>5, QueueAssumption, Bounds
<1>7. OneExecutor'
  BY <1>1, <1>2, <1>4 DEF ExecInv, OneExecutor, Busy
<1>8. StageOfThread'
  <2> SUFFICES ASSUME NEW s \in Threads, s # t
               PROVE  StageOfThread!(s)'
    BY <1>1, <1>3, <1>4, <1>5, <1>6 DEF StageOfThread
  <2>1. thr[s].pc = "linked" => jobs[thr[s].job].action \in Actions \cup {NoAction}
    BY BusyHasJob DEF Busy, WorkerTypeOK, Job
  <2> QED BY <1>1, <1>4, <1>6, <2>1 DEF ExecInv, StageOfThread
<1>9. UnleasedHasNoBrief'
  BY <1>1 DEF ExecInv, UnleasedHasNoBrief
<1>10. DoneIsDelivered'
  <2>1. \A k \in JobId : jobs[k].action \in Actions \cup {NoAction}
    BY DEF WorkerTypeOK, Job
  <2> QED BY <1>1, <1>6, <2>1 DEF ResultInv, DoneIsDelivered
<1>11. ResultBelongsToAction'
  <2> SUFFICES ASSUME NEW b \in Actions, actResult'[b] # 0
               PROVE  jobs[actResult'[b]].action = b /\ briefs[actResult'[b]] = "delivered"
    BY <1>1 DEF ResultBelongsToAction
  <2>1. CASE b = a
    BY <1>3, <1>5, <2>1, QueueAssumption
  <2>2. CASE b # a
    BY <1>5, <2>2 DEF ResultInv, ResultBelongsToAction
  <2> QED BY <2>1, <2>2
<1>12. OrderInv'
  BY <1>1 DEF OrderInv, NoOvertaking, NoGaps
<1> QED BY <1>7, <1>8, <1>9, <1>10, <1>11, <1>12 DEF ExecInv, ResultInv

LEMMA DoneInv ==
    ASSUME WorkerInv, WorkerTypeOK', NEW t \in Threads, FinishDone(t)
    PROVE  ExecInv' /\ ResultInv' /\ OrderInv'
<1> USE DEF WorkerInv
<1> DEFINE j == thr[t].job
<1>1. /\ UNCHANGED <<briefs, actResult>> /\ thr[t].pc = "linked"
      /\ \E c \in CostValues : jobs' = MarkDone(jobs, j, c)
      /\ thr' = [thr EXCEPT ![t] = Finished(t, "ran")]
  BY DEF FinishDone
<1>2. Busy(t) /\ j \in JobId /\ jobs[j].state \in {"running", "error"}
  BY <1>1, BusyHasJob DEF ExecInv, OneExecutor, Busy
<1>3. /\ jobs'[j].state = "done" /\ \A k \in JobId : k # j => jobs'[k] = jobs[k]
      /\ \A k \in JobId : jobs'[k].action = jobs[k].action
  BY <1>1, <1>2 DEF MarkDone, WorkerTypeOK, Job
<1>4. /\ \A s \in Threads : s # t => thr'[s] = thr[s]
      /\ thr'[t].pc \in {"none", "ran"}
  BY <1>1 DEF WorkerTypeOK, Finished, NoThread
<1>5. \A s \in Threads : (s # t /\ Busy(s)) => thr[s].job \in JobId /\ thr[s].job # j
  BY <1>2, BusyHasJob DEF ExecInv, OneExecutor
<1>6. OneExecutor'
  BY <1>3, <1>4, <1>5 DEF ExecInv, OneExecutor, Busy
<1>7. StageOfThread'
  BY <1>1, <1>3, <1>4, <1>5 DEF ExecInv, StageOfThread, Busy
<1>8. UnleasedHasNoBrief'
  BY <1>1, <1>3 DEF ExecInv, UnleasedHasNoBrief
<1>9. DoneIsDelivered'
  <2>1. briefs[j] = "delivered" /\ (jobs[j].action # NoAction => actResult[jobs[j].action] # 0)
    BY <1>1 DEF ExecInv, StageOfThread
  <2> QED BY <1>1, <1>3, <2>1 DEF ResultInv, DoneIsDelivered
<1>10. ResultBelongsToAction'
  <2> SUFFICES ASSUME NEW a \in Actions, actResult[a] # 0
               PROVE  jobs'[actResult[a]].action = a /\ briefs[actResult[a]] = "delivered"
    BY <1>1 DEF ResultBelongsToAction
  <2>1. actResult[a] \in JobId
    BY QueueAssumption DEF WorkerTypeOK, JobId
  <2> QED BY <1>3, <2>1 DEF ResultInv, ResultBelongsToAction
<1>11. OrderInv'
  BY <1>2, <1>3 DEF OrderInv, NoOvertaking, NoGaps
<1> QED BY <1>6, <1>7, <1>8, <1>9, <1>10, <1>11 DEF ExecInv, ResultInv

LEMMA EnqueueInv ==
    ASSUME WorkerInv, WorkerTypeOK',
           NEW j \in JobId, NEW a \in Actions \cup {NoAction}, Enqueue(j, a)
    PROVE  ExecInv' /\ ResultInv' /\ OrderInv'
<1> USE DEF WorkerInv
<1>1. /\ UNCHANGED <<briefs, actResult, thr>>
      /\ jobs[j].state = "none" /\ \A k \in JobId : k < j => jobs[k].state # "none"
      /\ jobs' = InsertQueueJob(jobs, j, a)
  BY DEF Enqueue, NextJobId, threadVars
<1>2. /\ jobs'[j].state = "queued" /\ \A k \in JobId : k # j => jobs'[k] = jobs[k]
  BY <1>1 DEF InsertQueueJob, WorkerTypeOK
<1>3. briefs[j] = "none"
  BY <1>1 DEF ExecInv, UnleasedHasNoBrief
<1>4. \A s \in Threads : Busy(s) => thr[s].job \in JobId /\ thr[s].job # j
  BY <1>1, BusyHasJob DEF ExecInv, OneExecutor
<1>5. OneExecutor'
  BY <1>1, <1>2, <1>4 DEF ExecInv, OneExecutor, Busy
<1>6. StageOfThread'
  BY <1>1, <1>2, <1>4 DEF ExecInv, StageOfThread, Busy
<1>7. UnleasedHasNoBrief'
  BY <1>1, <1>2, <1>3 DEF ExecInv, UnleasedHasNoBrief
<1>8. DoneIsDelivered'
  BY <1>1, <1>2 DEF ResultInv, DoneIsDelivered
<1>9. ResultBelongsToAction'
  <2> SUFFICES ASSUME NEW b \in Actions, actResult[b] # 0
               PROVE  jobs'[actResult[b]].action = b /\ briefs[actResult[b]] = "delivered"
    BY <1>1 DEF ResultBelongsToAction
  <2>1. actResult[b] \in JobId
    BY QueueAssumption DEF WorkerTypeOK, JobId
  <2>2. briefs[actResult[b]] = "delivered" /\ jobs[actResult[b]].action = b
    BY DEF ResultInv, ResultBelongsToAction
  <2> QED BY <1>2, <1>3, <2>1, <2>2
<1>10. OrderInv'
  BY <1>1, <1>2 DEF OrderInv, NoOvertaking, NoGaps, JobId
<1> QED BY <1>5, <1>6, <1>7, <1>8, <1>9, <1>10 DEF ExecInv, ResultInv

LEMMA DownInv ==
    ASSUME WorkerInv, [WorkerNext]_workerVars
    PROVE  DownHasNoThread'
<1> USE DEF WorkerInv, DownHasNoThread, tableVars
<1>1. CASE MainLoop
  BY <1>1 DEF MainLoop, Boot, LoopTurn, AwaitReturns, AwaitTimesOut, SeeStop, Exit,
              KillAfterStop, ProcessGone, NoThread
<1>2. CASE StopSignal \/ Crash
  BY <1>2 DEF StopSignal, Crash, ProcessGone, NoThread
<1>3. CASE Tick \/ Midnight
  BY <1>3 DEF Tick, Midnight, threadVars
<1>4. ASSUME NEW t \in Threads, Drain(t) PROVE DownHasNoThread'
  <2>1. thr[t].pc # "none" /\ mpc' = mpc
    BY <1>4 DEF Drain, BudgetGate, Lease, DrainRaises, WriteBrief, PackBrief,
                DeliverBrief, ComposeStep, LinkAction, FinishDone, StudyRaises,
                FinishError, MarkErrorRaises, Busy
  <2> QED BY <2>1
<1>5. ASSUME NEW j \in JobId, NEW a \in Actions \cup {NoAction}, Enqueue(j, a)
      PROVE  DownHasNoThread'
  BY <1>5 DEF Enqueue, threadVars
<1>6. CASE UNCHANGED workerVars
  BY <1>6 DEF workerVars
<1> QED BY <1>1, <1>2, <1>3, <1>4, <1>5, <1>6 DEF WorkerNext, WorkerStep

LEMMA StepInv == WorkerInv /\ [WorkerNext]_workerVars => WorkerInv'
<1> SUFFICES ASSUME WorkerInv, [WorkerNext]_workerVars
             PROVE  WorkerInv'
  OBVIOUS
<1>1. WorkerTypeOK'
  BY StepType DEF WorkerInv
<1>2. DownHasNoThread'
  BY DownInv
<1>3. CASE MainLoop \/ StopSignal \/ Crash \/ Tick \/ Midnight \/ UNCHANGED workerVars
  BY <1>1, <1>2, <1>3, LoopIsQuiet, QuietInv DEF WorkerInv
<1>4. ASSUME NEW t \in Threads, Drain(t) PROVE WorkerInv'
  <2>1. CASE \/ BudgetGate(t) \/ DrainRaises(t) \/ StudyRaises(t)
             \/ FinishError(t) \/ MarkErrorRaises(t)
    BY <1>1, <1>2, <2>1, DrainIsQuiet, QuietInv DEF WorkerInv
  <2>2. CASE Lease(t)
    BY <1>1, <1>2, <2>2, LeaseInv DEF WorkerInv
  <2>3. CASE WriteBrief(t) \/ PackBrief(t) \/ DeliverBrief(t)
    BY <1>1, <1>2, <2>3, ComposeInv DEF WorkerInv
  <2>4. CASE LinkAction(t)
    BY <1>1, <1>2, <2>4, LinkInv DEF WorkerInv
  <2>5. CASE FinishDone(t)
    BY <1>1, <1>2, <2>5, DoneInv DEF WorkerInv
  <2> QED BY <1>4, <2>1, <2>2, <2>3, <2>4, <2>5 DEF Drain
<1>5. ASSUME NEW j \in JobId, NEW a \in Actions \cup {NoAction}, Enqueue(j, a)
      PROVE  WorkerInv'
  BY <1>1, <1>2, <1>5, EnqueueInv DEF WorkerInv
<1> QED BY <1>3, <1>4, <1>5 DEF WorkerNext, WorkerStep

LEMMA AlwaysInv == WorkerSpec => []WorkerInv
BY InitInv, StepInv, PTL DEF WorkerSpec

-----------------------------------------------------------------------------
(***************************************************************************)
(* The safety invariants.                                                  *)
(***************************************************************************)

\* No job is ever executed by two threads, and a job in execution is running
\* or given up, with any number of abandoned threads, crashes and restarts.
THEOREM JobsRunOnce == WorkerSpec => []OneExecutor
<1>1. WorkerInv => OneExecutor
  BY DEF WorkerInv, ExecInv
<1> QED BY <1>1, AlwaysInv, PTL

\* A row marked done has a delivered brief, and the action behind it shows it.
THEOREM DoneMeansDelivered == WorkerSpec => []DoneIsDelivered
<1>1. WorkerInv => DoneIsDelivered
  BY DEF WorkerInv, ResultInv
<1> QED BY <1>1, AlwaysInv, PTL

\* The result an action shows is the delivered brief of a job of its own.
THEOREM ResultsBelong == WorkerSpec => []ResultBelongsToAction
<1>1. WorkerInv => ResultBelongsToAction
  BY DEF WorkerInv, ResultInv
<1> QED BY <1>1, AlwaysInv, PTL

\* No job is leased while an older one waits.
THEOREM JobsRunInOrder == WorkerSpec => []NoOvertaking
<1>1. WorkerInv => NoOvertaking
  BY DEF WorkerInv, OrderInv
<1> QED BY <1>1, AlwaysInv, PTL

(***************************************************************************)
(* The sweep.                                                              *)
(***************************************************************************)
LEMMA SweepStep ==
    ASSUME WorkerInv, [WorkerNext]_workerVars, NEW t \in Threads, Busy(t),
           thr'[t] = thr[t], jobs[thr[t].job].state = "running",
           jobs'[thr[t].job].state = "error"
    PROVE  jobs[thr[t].job].age > JobTimeout
<1> DEFINE j == thr[t].job
<1> USE DEF WorkerInv, tableVars
<1>1. j \in JobId /\ jobs[j] \in Job /\ mpc # "down"
  BY BusyHasJob DEF WorkerTypeOK, DownHasNoThread, Busy
<1>2. CASE LoopTurn
  <2>1. jobs' = SweepStaleLeases(jobs, SweepMaxAge)
    BY <1>1, <1>2 DEF LoopTurn
  <2>2. jobs[j].age > SweepMaxAge
    BY <1>1, <2>1 DEF SweepStaleLeases, Stale
  <2>3. jobs[j].age \in Int /\ JobTimeout \in Int
    BY <1>1, WorkerAssumption DEF Job
  <2> QED BY <2>2, <2>3, SweepMaxAgeBound
<1>3. CASE Tick \/ Midnight
  BY <1>1, <1>3 DEF Tick, Midnight, AgeRunning, NewDay, Job
<1>4. ASSUME NEW s \in Threads, Drain(s) PROVE jobs[j].age > JobTimeout
  <2>1. CASE FinishError(s)
    <3>1. Busy(s) /\ s # t
      BY <2>1 DEF FinishError, Busy, Finished, NoThread, WorkerTypeOK
    <3>2. thr[s].job \in JobId /\ thr[s].job # j
      BY <3>1, BusyHasJob DEF ExecInv, OneExecutor
    <3>3. jobs'[j] = jobs[j]
      BY <1>1, <2>1, <3>2 DEF FinishError, MarkError, WorkerTypeOK
    <3> QED BY <3>3
  <2>2. CASE Lease(s)
    <3>1. jobs' = jobs \/ \E i \in JobId : i # j /\ jobs' = LeaseOne(jobs, i)
      BY <2>2 DEF Lease, OldestQueued
    <3> QED BY <1>1, <3>1 DEF LeaseOne, WorkerTypeOK
  <2>3. CASE FinishDone(s)
    <3>1. Busy(s) /\ s # t
      BY <2>3 DEF FinishDone, Busy, Finished, NoThread, WorkerTypeOK
    <3>2. thr[s].job \in JobId /\ thr[s].job # j
      BY <3>1, BusyHasJob DEF ExecInv, OneExecutor
    <3>3. jobs'[j] = jobs[j]
      BY <1>1, <2>3, <3>2 DEF FinishDone, MarkDone, WorkerTypeOK
    <3> QED BY <3>3
  <2>4. UNCHANGED jobs \/ Lease(s) \/ FinishDone(s) \/ FinishError(s)
    BY <1>4 DEF Drain, BudgetGate, DrainRaises, WriteBrief, PackBrief, DeliverBrief,
                ComposeStep, LinkAction, StudyRaises, MarkErrorRaises
  <2> QED BY <2>1, <2>2, <2>3, <2>4
<1>5. ASSUME NEW i \in JobId, NEW a \in Actions \cup {NoAction}, Enqueue(i, a)
      PROVE  jobs[j].age > JobTimeout
  BY <1>1, <1>5 DEF Enqueue, NextJobId, InsertQueueJob, WorkerTypeOK
<1>6. \/ UNCHANGED jobs \/ LoopTurn \/ Tick \/ Midnight
      \/ \E s \in Threads : Drain(s)
      \/ \E i \in JobId, a \in Actions \cup {NoAction} : Enqueue(i, a)
  BY <1>1 DEF WorkerNext, WorkerStep, MainLoop, Boot, AwaitReturns, AwaitTimesOut,
              SeeStop, Exit, KillAfterStop, StopSignal, Crash, workerVars
<1> QED BY <1>2, <1>3, <1>4, <1>5, <1>6

\* A thread that is still executing its job loses it to the sweep only when
\* the job is older than the wall-clock cap.
THEOREM SweepIsPatient == WorkerSpec => SweepOnlyOverdue
<1>1. WorkerInv /\ [WorkerNext]_workerVars =>
        [\A t \in Threads :
          (/\ Busy(t) /\ thr'[t] = thr[t]
           /\ jobs[thr[t].job].state = "running" /\ jobs'[thr[t].job].state = "error")
             => jobs[thr[t].job].age > JobTimeout]_workerVars
  BY SweepStep
<1> QED BY <1>1, AlwaysInv, PTL DEF WorkerSpec, SweepOnlyOverdue
-----------------------------------------------------------------------------
(***************************************************************************)
(* The worker implements JobLifecycle: the sweeps give up a set of jobs at *)
(* once, each other step moves one job or none.                            *)
(***************************************************************************)
Shown == [j \in JobId |-> jobs[j].state]

LEMMA QuietIsStutter ==
    ASSUME \A j \in JobId : jobs'[j].state = jobs[j].state
    PROVE  Shown' = Shown
BY DEF Shown

LEMMA MoveShown ==
    ASSUME NEW j \in JobId, NEW s, jobs'[j].state = s,
           \A k \in JobId : k # j => jobs'[k].state = jobs[k].state
    PROVE  Shown' = [Shown EXCEPT ![j] = s]
BY DEF Shown

LEMMA SweepGivesUp ==
    ASSUME WorkerTypeOK, NEW m, jobs' = SweepStaleLeases(jobs, m)
    PROVE  Life!LifeNext
<1> DEFINE S == {j \in JobId : Stale(jobs, j, m)}
<1>1. \A j \in JobId : jobs[j] \in Job
  BY DEF WorkerTypeOK
<1>2. \A j \in S : Shown[j] = "running"
  BY DEF Shown, Stale
<1>3. \A j \in JobId : jobs'[j].state = IF j \in S THEN "error" ELSE jobs[j].state
  BY <1>1 DEF SweepStaleLeases, Job
<1>4. Shown' = [j \in JobId |-> IF j \in S THEN "error" ELSE Shown[j]]
  BY <1>3 DEF Shown
<1>5. S \in SUBSET JobId
  OBVIOUS
<1> QED BY <1>2, <1>4, <1>5 DEF Life!LifeNext, Life!GiveUp, Shown

LEMMA StepImplements ==
    WorkerInv /\ [WorkerNext]_workerVars => [Life!LifeNext]_Shown
<1> SUFFICES ASSUME WorkerInv, [WorkerNext]_workerVars
             PROVE  Life!LifeNext \/ Shown' = Shown
  OBVIOUS
<1> USE DEF WorkerInv, tableVars
<1>0. UNCHANGED jobs => Shown' = Shown
  BY DEF Shown
<1>1. CASE Boot \/ LoopTurn
  <2>1. UNCHANGED jobs \/ \E m \in Nat : jobs' = SweepStaleLeases(jobs, m)
    BY <1>1, WorkerAssumption, SweepMaxAgeBound DEF Boot, LoopTurn
  <2> QED BY <1>0, <2>1, SweepGivesUp
<1>2. CASE Tick \/ Midnight
  <2>1. \A j \in JobId : jobs[j] \in Job
    BY DEF WorkerTypeOK
  <2>2. \A j \in JobId : jobs'[j].state = jobs[j].state
    BY <1>2, <2>1 DEF Tick, Midnight, AgeRunning, NewDay, Job
  <2> QED BY <2>2, QuietIsStutter
<1>3. ASSUME NEW t \in Threads, Lease(t) PROVE Life!LifeNext \/ Shown' = Shown
  <2>1. ASSUME NEW j \in JobId, OldestQueued(jobs, j), jobs' = LeaseOne(jobs, j)
        PROVE  Life!LifeNext
    <3>1. jobs'[j].state = "running" /\ \A k \in JobId : k # j => jobs'[k] = jobs[k]
      BY <2>1 DEF LeaseOne, WorkerTypeOK, Job
    <3>2. Shown' = [Shown EXCEPT ![j] = "running"]
      BY <3>1, MoveShown
    <3>3. Shown[j] = "queued" /\ \A k \in JobId : Shown[k] = "queued" => j <= k
      BY <2>1 DEF OldestQueued, Shown
    <3> QED BY <3>2, <3>3 DEF Life!LifeNext, Life!Claim, Shown
  <2> QED BY <1>0, <1>3, <2>1 DEF Lease
<1>4. ASSUME NEW t \in Threads, FinishDone(t) \/ FinishError(t) PROVE Life!LifeNext
  <2> DEFINE j == thr[t].job
  <2>1. j \in JobId /\ jobs[j].state \in {"running", "error"}
    BY <1>4, BusyHasJob DEF FinishDone, FinishError, Busy, ExecInv, OneExecutor
  <2>2. PICK o \in {"done", "error"} :
          jobs'[j].state = o /\ \A k \in JobId : k # j => jobs'[k] = jobs[k]
    BY <1>4, <2>1 DEF FinishDone, FinishError, MarkDone, MarkError, WorkerTypeOK, Job
  <2>3. Shown' = [Shown EXCEPT ![j] = o]
    BY <2>1, <2>2, MoveShown
  <2>4. Shown[j] \in {"running", "error"}
    BY <2>1 DEF Shown
  <2> QED BY <2>1, <2>2, <2>3, <2>4 DEF Life!LifeNext, Life!Report, Shown
<1>5. ASSUME NEW j \in JobId, NEW a \in Actions \cup {NoAction}, Enqueue(j, a)
      PROVE  Life!LifeNext
  <2>1. /\ jobs[j].state = "none" /\ \A k \in JobId : k < j => jobs[k].state # "none"
        /\ jobs'[j].state = "queued" /\ \A k \in JobId : k # j => jobs'[k] = jobs[k]
    BY <1>5 DEF Enqueue, NextJobId, InsertQueueJob, WorkerTypeOK
  <2>2. Shown' = [Shown EXCEPT ![j] = "queued"]
    BY <2>1, MoveShown
  <2>3. Shown[j] = "none" /\ \A k \in JobId : k < j => Shown[k] # "none"
    BY <2>1 DEF Shown
  <2> QED BY <2>2, <2>3 DEF Life!LifeNext, Life!Submit, Shown
<1>6. \/ UNCHANGED jobs \/ Boot \/ LoopTurn \/ Tick \/ Midnight
      \/ \E t \in Threads : Lease(t) \/ FinishDone(t) \/ FinishError(t)
      \/ \E j \in JobId, a \in Actions \cup {NoAction} : Enqueue(j, a)
  BY DEF WorkerNext, WorkerStep, MainLoop, AwaitReturns, AwaitTimesOut,
         SeeStop, Exit, KillAfterStop, StopSignal, Crash, workerVars,
         Drain, BudgetGate, DrainRaises, WriteBrief, PackBrief, DeliverBrief,
         ComposeStep, LinkAction, StudyRaises, MarkErrorRaises
<1> QED BY <1>0, <1>1, <1>2, <1>3, <1>4, <1>5, <1>6

\* Whatever the threads, time-outs, sweeps and restarts do, the states of the
\* rows follow the lifecycle the queue promises.
THEOREM WorkerImplements == WorkerSpec => ImplementsLifecycle
<1>1. WorkerInit => Life!LifeInit
  BY DEF WorkerInit, Life!LifeInit, EmptyQueue, NoJob
<1>2. WorkerInv /\ [WorkerNext]_workerVars => [Life!LifeNext]_Shown
  BY StepImplements
<1>3. Shown = [j \in JobId |-> jobs[j].state]
  BY DEF Shown
<1> QED BY <1>1, <1>2, <1>3, AlwaysInv, PTL DEF WorkerSpec, ImplementsLifecycle, Life!LifeSpec, Shown
-----------------------------------------------------------------------------
(***************************************************************************)
(* The budget.  A thread that passed the gate may still add one study to   *)
(* the spend of the day, so what is conserved is the spend together with   *)
(* what those threads may add.                                             *)
(***************************************************************************)
CostUnits(q) == UNION {{j} \X (1 .. q[j].cost) : j \in DoneToday(q)}
PastGate == {t \in Threads : thr[t].pc = "lease" \/ Busy(t)}
Worth(c, n) == c * n

BudgetInv ==
    BudgetEnabled =>
        \A c \in CostValues : (\A d \in CostValues : d <= c) =>
            DailyCostTotal(jobs) + Worth(c, Cardinality(PastGate))
                < DailyUsd + Worth(c, Cardinality(Threads))

LEMMA WorthGrows ==
    ASSUME NEW c \in Nat, NEW m \in Nat, NEW n \in Nat, m <= n
    PROVE  /\ Worth(c, m) \in Nat /\ Worth(c, n) \in Nat
           /\ Worth(c, m) <= Worth(c, n) /\ Worth(c, m + 1) = Worth(c, m) + c
<1>1. PICK k \in Nat : n = m + k
  <2>1. n - m \in Nat /\ n = m + (n - m)
    OBVIOUS
  <2> QED BY <2>1
<1>2. c * m \in Nat /\ c * n \in Nat /\ c * k \in Nat
  OBVIOUS
<1>3. c * n = c * m + c * k
  BY <1>1
<1>4. c * (m + 1) = c * m + c
  OBVIOUS
<1> QED BY <1>2, <1>3, <1>4 DEF Worth

LEMMA UnitsAreFinite ==
    ASSUME NEW q \in [JobId -> Job]
    PROVE  /\ IsFiniteSet(CostUnits(q)) /\ Cardinality(CostUnits(q)) \in Nat
           /\ DailyCostTotal(q) = Cardinality(CostUnits(q))
<1>1. IsFiniteSet(JobId)
  BY FS_Interval, QueueAssumption DEF JobId
<1>2. DoneToday(q) \in SUBSET JobId
  BY DEF DoneToday
<1>3. IsFiniteSet(DoneToday(q))
  BY <1>1, <1>2, FS_Subset
<1> DEFINE rows == {{j} \X (1 .. q[j].cost) : j \in DoneToday(q)}
<1>4. \A j \in DoneToday(q) : IsFiniteSet({j} \X (1 .. q[j].cost))
  <2> SUFFICES ASSUME NEW j \in DoneToday(q) PROVE IsFiniteSet({j} \X (1 .. q[j].cost))
    OBVIOUS
  <2>1. q[j].cost \in Nat
    BY QueueAssumption DEF DoneToday, Job
  <2>2. IsFiniteSet({j})
    BY FS_Singleton
  <2>3. IsFiniteSet(1 .. q[j].cost)
    BY <2>1, FS_Interval
  <2> QED BY <2>2, <2>3, FS_Product
<1>5. [j \in DoneToday(q) |-> {j} \X (1 .. q[j].cost)] \in Surjection(DoneToday(q), rows)
  BY DEF Surjection
<1>6. IsFiniteSet(rows)
  BY <1>3, <1>5, FS_Surjection
<1>7. \A r \in rows : IsFiniteSet(r)
  BY <1>4
<1>8. IsFiniteSet(UNION rows)
  BY <1>6, <1>7, FS_UNION
<1>9. CostUnits(q) = UNION rows
  BY DEF CostUnits
<1>10. IsFiniteSet(CostUnits(q))
  BY <1>8, <1>9
<1> QED BY <1>10, FS_CardinalityType DEF DailyCostTotal, CostUnits

\* A table with no more done today, or with one row more at a cost of c.
LEMMA SpendStays ==
    ASSUME NEW q \in [JobId -> Job], NEW r \in [JobId -> Job],
           \A j \in DoneToday(r) : j \in DoneToday(q) /\ r[j].cost = q[j].cost
    PROVE  /\ DailyCostTotal(r) \in Nat /\ DailyCostTotal(q) \in Nat
           /\ DailyCostTotal(r) <= DailyCostTotal(q)
<1>1. CostUnits(r) \in SUBSET CostUnits(q)
  BY DEF CostUnits
<1>2. Cardinality(CostUnits(r)) <= Cardinality(CostUnits(q))
  BY <1>1, UnitsAreFinite, FS_Subset
<1> QED BY <1>2, UnitsAreFinite

LEMMA SpendGrows ==
    ASSUME NEW q \in [JobId -> Job], NEW r \in [JobId -> Job], NEW k \in JobId, NEW c \in Nat,
           r[k].cost = c, \A j \in JobId \ {k} : r[j] = q[j]
    PROVE  /\ DailyCostTotal(r) \in Nat /\ DailyCostTotal(q) \in Nat
           /\ DailyCostTotal(r) <= DailyCostTotal(q) + c
<1> DEFINE new == {k} \X (1 .. c)
<1>1. IsFiniteSet({k}) /\ Cardinality({k}) = 1 /\ IsFiniteSet(1 .. c) /\ Cardinality(1 .. c) = c
  <2>1. IsFiniteSet({k}) /\ Cardinality({k}) = 1
    BY FS_Singleton
  <2>2. IsFiniteSet(1 .. c) /\ Cardinality(1 .. c) = c
    BY FS_Interval
  <2> QED BY <2>1, <2>2
<1>2. IsFiniteSet(new) /\ Cardinality(new) = 1 * c
  BY <1>1, FS_Product
<1>3. IsFiniteSet(CostUnits(q)) /\ Cardinality(CostUnits(q)) \in Nat
  BY UnitsAreFinite
<1>4. CostUnits(r) \in SUBSET (CostUnits(q) \cup new)
  <2> SUFFICES ASSUME NEW x \in CostUnits(r) PROVE x \in CostUnits(q) \cup new
    OBVIOUS
  <2>1. PICK j \in DoneToday(r) : x \in {j} \X (1 .. r[j].cost)
    BY DEF CostUnits
  <2>2. CASE j = k
    BY <2>1, <2>2
  <2>3. CASE j # k
    <3>1. j \in DoneToday(q) /\ r[j] = q[j]
      BY <2>3 DEF DoneToday
    <3> QED BY <2>1, <3>1 DEF CostUnits
  <2> QED BY <2>2, <2>3
<1>5. IsFiniteSet(CostUnits(q) \cap new)
  <2>1. CostUnits(q) \cap new \in SUBSET new
    OBVIOUS
  <2> QED BY <1>2, <2>1, FS_Subset
<1>6. Cardinality(CostUnits(q) \cap new) \in Nat
  BY <1>5, FS_CardinalityType
<1>7. /\ IsFiniteSet(CostUnits(q) \cup new)
      /\ Cardinality(CostUnits(q) \cup new)
            = Cardinality(CostUnits(q)) + Cardinality(new) - Cardinality(CostUnits(q) \cap new)
  BY <1>2, <1>3, FS_Union
<1>8. Cardinality(CostUnits(r)) <= Cardinality(CostUnits(q) \cup new)
  BY <1>4, <1>7, FS_Subset
<1>9. Cardinality(CostUnits(r)) \in Nat
  BY UnitsAreFinite
<1>10. Cardinality(new) = c
  BY <1>2
<1> HIDE DEF new
<1>11. Cardinality(CostUnits(r)) <= Cardinality(CostUnits(q)) + c
  BY <1>3, <1>6, <1>7, <1>8, <1>9, <1>10
<1> QED BY <1>11, UnitsAreFinite

LEMMA GateIsFinite ==
    /\ IsFiniteSet(Threads) /\ Cardinality(Threads) \in Nat
    /\ \A S \in SUBSET Threads : /\ IsFiniteSet(S) /\ Cardinality(S) \in Nat
                                 /\ Cardinality(S) <= Cardinality(Threads)
    /\ \A S \in SUBSET Threads : \A T \in SUBSET S : Cardinality(T) <= Cardinality(S)
    /\ \A S \in SUBSET Threads : \A t \in S : Cardinality(S) = Cardinality(S \ {t}) + 1
<1>1. IsFiniteSet(Threads)
  BY FS_Interval, WorkerAssumption DEF Threads
<1>2. \A S \in SUBSET Threads : IsFiniteSet(S) /\ Cardinality(S) <= Cardinality(Threads)
  BY <1>1, FS_Subset
<1>3. \A S \in SUBSET Threads : Cardinality(S) \in Nat
  BY <1>2, FS_CardinalityType
<1>4. \A S \in SUBSET Threads : \A T \in SUBSET S : Cardinality(T) <= Cardinality(S)
  BY <1>2, FS_Subset
<1>5. \A S \in SUBSET Threads : \A t \in S : Cardinality(S) = Cardinality(S \ {t}) + 1
  <2> SUFFICES ASSUME NEW S \in SUBSET Threads, NEW t \in S
               PROVE  Cardinality(S) = Cardinality(S \ {t}) + 1
    OBVIOUS
  <2>1. IsFiniteSet(S)
    BY <1>2
  <2>2. Cardinality(S \ {t}) = Cardinality(S) - 1
    BY <2>1, FS_RemoveElement
  <2>3. Cardinality(S) \in Nat
    BY <1>3
  <2> QED BY <2>2, <2>3
<1> QED BY <1>1, <1>2, <1>3, <1>4, <1>5, FS_CardinalityType

\* Three ways to keep the balance: nothing is added, a thread passes the gate
\* under the limit, a thread that had passed it reports its study.
LEMMA BalanceKept ==
    ASSUME WorkerTypeOK, WorkerTypeOK', BudgetInv, PastGate' \subseteq PastGate,
           \A j \in DoneToday(jobs') : j \in DoneToday(jobs) /\ jobs'[j].cost = jobs[j].cost
    PROVE  BudgetInv'
<1> SUFFICES ASSUME BudgetEnabled, NEW c \in CostValues, \A d \in CostValues : d <= c
             PROVE  DailyCostTotal(jobs') + Worth(c, Cardinality(PastGate'))
                        < DailyUsd + Worth(c, Cardinality(Threads))
  BY DEF BudgetInv, DailyCostTotal
<1>1. DailyCostTotal(jobs') \in Nat /\ DailyCostTotal(jobs) \in Nat
      /\ DailyCostTotal(jobs') <= DailyCostTotal(jobs)
  BY SpendStays DEF WorkerTypeOK
<1>2. c \in Nat /\ DailyUsd \in Nat
  BY QueueAssumption, WorkerAssumption
<1>3. PICK m \in Nat, n \in Nat, k \in Nat :
         /\ m = Cardinality(PastGate') /\ n = Cardinality(PastGate) /\ m <= n
         /\ k = Cardinality(Threads)
  <2>1. PastGate \in SUBSET Threads /\ PastGate' \in SUBSET PastGate
    BY DEF PastGate
  <2>2. PastGate' \in SUBSET Threads
    BY <2>1
  <2> QED BY <2>1, <2>2, GateIsFinite
<1>4. Worth(c, m) <= Worth(c, n) /\ Worth(c, m) \in Nat /\ Worth(c, n) \in Nat /\ Worth(c, k) \in Nat
  BY <1>2, <1>3, WorthGrows
<1>5. DailyCostTotal(jobs) + Worth(c, n) < DailyUsd + Worth(c, k)
  BY <1>3 DEF BudgetInv
<1> QED BY <1>1, <1>2, <1>3, <1>4, <1>5

LEMMA GatePassed ==
    ASSUME WorkerTypeOK, BudgetInv, jobs' = jobs, PastGate' \subseteq Threads,
           BudgetEnabled => DailyCostTotal(jobs) < DailyUsd
    PROVE  BudgetInv'
<1> SUFFICES ASSUME BudgetEnabled, NEW c \in CostValues
             PROVE  DailyCostTotal(jobs) + Worth(c, Cardinality(PastGate'))
                        < DailyUsd + Worth(c, Cardinality(Threads))
  BY DEF BudgetInv, DailyCostTotal
<1>1. DailyCostTotal(jobs) \in Nat
  BY UnitsAreFinite DEF WorkerTypeOK
<1>2. c \in Nat /\ DailyUsd \in Nat
  BY QueueAssumption, WorkerAssumption
<1>3. PICK m \in Nat, k \in Nat :
         m = Cardinality(PastGate') /\ k = Cardinality(Threads) /\ m <= k
  <2>1. PastGate' \in SUBSET Threads
    OBVIOUS
  <2> QED BY <2>1, GateIsFinite
<1>4. Worth(c, m) <= Worth(c, k) /\ Worth(c, m) \in Nat /\ Worth(c, k) \in Nat
  BY <1>2, <1>3, WorthGrows
<1> QED BY <1>1, <1>2, <1>3, <1>4

LEMMA StudyReported ==
    ASSUME WorkerTypeOK, WorkerTypeOK', BudgetInv, NEW t \in PastGate, NEW k \in JobId,
           NEW d \in CostValues, PastGate' \subseteq PastGate \ {t},
           jobs'[k].cost = d, \A j \in JobId \ {k} : jobs'[j] = jobs[j]
    PROVE  BudgetInv'
<1> SUFFICES ASSUME BudgetEnabled, NEW c \in CostValues, \A e \in CostValues : e <= c
             PROVE  DailyCostTotal(jobs') + Worth(c, Cardinality(PastGate'))
                        < DailyUsd + Worth(c, Cardinality(Threads))
  BY DEF BudgetInv, DailyCostTotal
<1>1. c \in Nat /\ d \in Nat /\ d <= c /\ DailyUsd \in Nat
  BY QueueAssumption, WorkerAssumption
<1>2. DailyCostTotal(jobs') \in Nat /\ DailyCostTotal(jobs) \in Nat
      /\ DailyCostTotal(jobs') <= DailyCostTotal(jobs) + d
  BY <1>1, SpendGrows DEF WorkerTypeOK
<1>3. PICK m \in Nat, n \in Nat, l \in Nat :
         /\ m = Cardinality(PastGate') /\ n + 1 = Cardinality(PastGate) /\ m <= n
         /\ l = Cardinality(Threads)
  <2>1. PastGate \in SUBSET Threads /\ PastGate' \in SUBSET (PastGate \ {t})
        /\ PastGate \ {t} \in SUBSET Threads
    BY DEF PastGate
  <2>2. PastGate' \in SUBSET Threads
    BY <2>1
  <2>3. Cardinality(PastGate) = Cardinality(PastGate \ {t}) + 1
    BY <2>1, GateIsFinite
  <2> QED BY <2>1, <2>2, <2>3, GateIsFinite
<1>4. /\ Worth(c, m) <= Worth(c, n) /\ Worth(c, n + 1) = Worth(c, n) + c
      /\ Worth(c, m) \in Nat /\ Worth(c, n) \in Nat
  BY <1>1, <1>3, WorthGrows
<1>5. Worth(c, l) \in Nat
  BY <1>1, <1>3, WorthGrows
<1>6. DailyCostTotal(jobs) + Worth(c, n + 1) < DailyUsd + Worth(c, l)
  BY <1>3 DEF BudgetInv
<1> QED BY <1>1, <1>2, <1>3, <1>4, <1>5, <1>6

LEMMA TableKeepsSpend ==
    ASSUME WorkerTypeOK, WorkerTypeOK', NEW m \in Nat,
           \/ jobs' = SweepStaleLeases(jobs, m) \/ jobs' = AgeRunning(jobs)
           \/ jobs' = NewDay(jobs) \/ jobs' = jobs
           \/ \E j \in JobId : \/ jobs' = LeaseOne(jobs, j) \/ jobs' = MarkError(jobs, j)
                               \/ \E a \in Actions \cup {NoAction} :
                                     jobs' = InsertQueueJob(jobs, j, a)
    PROVE  \A j \in DoneToday(jobs') : j \in DoneToday(jobs) /\ jobs'[j].cost = jobs[j].cost
<1>1. \A j \in JobId : jobs[j] \in Job
  BY DEF WorkerTypeOK
<1>2. CASE jobs' = SweepStaleLeases(jobs, m)
  BY <1>1, <1>2 DEF DoneToday, SweepStaleLeases, Stale, Job
<1>3. CASE jobs' = AgeRunning(jobs)
  BY <1>1, <1>3 DEF DoneToday, AgeRunning, Job
<1>4. CASE jobs' = NewDay(jobs)
  BY <1>1, <1>4 DEF DoneToday, NewDay, Job
<1>5. ASSUME NEW k \in JobId,
             \/ jobs' = LeaseOne(jobs, k) \/ jobs' = MarkError(jobs, k)
             \/ \E a \in Actions \cup {NoAction} : jobs' = InsertQueueJob(jobs, k, a)
      PROVE  \A j \in DoneToday(jobs') : j \in DoneToday(jobs) /\ jobs'[j].cost = jobs[j].cost
  <2>0. jobs \in [JobId -> Job] /\ jobs[k] \in Job
    BY DEF WorkerTypeOK
  <2>1. (\A j \in JobId \ {k} : jobs'[j] = jobs[j]) /\ jobs'[k].state # "done"
    <3>1. CASE jobs' = LeaseOne(jobs, k)
      BY <2>0, <3>1 DEF LeaseOne, Job
    <3>2. CASE jobs' = MarkError(jobs, k)
      BY <2>0, <3>2 DEF MarkError, Job
    <3>3. ASSUME NEW a \in Actions \cup {NoAction}, jobs' = InsertQueueJob(jobs, k, a)
          PROVE  (\A j \in JobId \ {k} : jobs'[j] = jobs[j]) /\ jobs'[k].state # "done"
      BY <2>0, <3>3 DEF InsertQueueJob
    <3> QED BY <1>5, <3>1, <3>2, <3>3
  <2> QED BY <2>1 DEF DoneToday
<1>6. CASE jobs' = jobs
  BY <1>6 DEF DoneToday
<1> QED BY <1>2, <1>3, <1>4, <1>5, <1>6

LEMMA LoopKeepsBudget ==
    ASSUME WorkerTypeOK, WorkerTypeOK', BudgetInv,
           MainLoop \/ StopSignal \/ Crash \/ Tick \/ Midnight \/ UNCHANGED workerVars
    PROVE  BudgetInv'
<1>1. \E m \in Nat : \/ jobs' = SweepStaleLeases(jobs, m) \/ jobs' = AgeRunning(jobs)
                     \/ jobs' = NewDay(jobs) \/ jobs' = jobs
  <2>1. BootMaxAge \in Nat /\ SweepMaxAge \in Nat
    BY WorkerAssumption, SweepMaxAgeBound
  <2> QED BY <2>1 DEF MainLoop, Boot, LoopTurn, AwaitReturns, AwaitTimesOut, SeeStop, Exit,
                    KillAfterStop, StopSignal, Crash, Tick, Midnight, workerVars, tableVars
<1>2. \A j \in DoneToday(jobs') : j \in DoneToday(jobs) /\ jobs'[j].cost = jobs[j].cost
  BY <1>1, TableKeepsSpend
<1>3. PastGate' \subseteq PastGate
  <2>1. \A t \in Threads : thr'[t] = thr[t] \/ thr'[t].pc \in {"none", "start"}
    BY DEF MainLoop, Boot, LoopTurn, AwaitReturns, AwaitTimesOut, SeeStop, Exit, KillAfterStop,
           StopSignal, Crash, Tick, Midnight, workerVars, tableVars, threadVars, ProcessGone,
           NoThread, WorkerTypeOK
  <2> QED BY <2>1 DEF PastGate, Busy
<1> QED BY <1>2, <1>3, BalanceKept

LEMMA DrainKeepsBudget ==
    ASSUME WorkerTypeOK, WorkerTypeOK', BudgetInv, NEW t \in Threads, Drain(t)
    PROVE  BudgetInv'
<1>0. \A s \in Threads \ {t} : thr'[s] = thr[s]
  BY DEF Drain, BudgetGate, Lease, DrainRaises, WriteBrief, PackBrief, DeliverBrief, ComposeStep,
         LinkAction, FinishDone, StudyRaises, FinishError, MarkErrorRaises, WorkerTypeOK
<1>1. CASE BudgetGate(t)
  <2>1. CASE thr'[t].pc = "lease"
    <3>1. BudgetEnabled => ~(DailyCostTotal(jobs) >= DailyUsd)
      BY <1>1, <2>1 DEF BudgetGate, Finished, NoThread, WorkerTypeOK
    <3>2. DailyCostTotal(jobs) \in Nat /\ DailyUsd \in Nat
      BY UnitsAreFinite, WorkerAssumption DEF WorkerTypeOK
    <3>3. BudgetEnabled => DailyCostTotal(jobs) < DailyUsd
      BY <3>1, <3>2
    <3>4. PastGate' \subseteq Threads /\ jobs' = jobs
      BY <1>1 DEF PastGate, BudgetGate, tableVars
    <3> QED BY <3>3, <3>4, GatePassed
  <2>2. CASE thr'[t].pc # "lease"
    <3>1. thr'[t].pc \in {"none", "idle"} /\ jobs' = jobs
      BY <1>1, <2>2 DEF BudgetGate, Finished, NoThread, WorkerTypeOK, tableVars
    <3>2. PastGate' \subseteq PastGate
      BY <1>0, <3>1 DEF PastGate, Busy
    <3> QED BY <3>1, <3>2, TableKeepsSpend, BalanceKept
  <2> QED BY <2>1, <2>2
<1>2. CASE FinishDone(t)
  <2>1. PICK d \in CostValues : jobs' = MarkDone(jobs, thr[t].job, d)
    BY <1>2 DEF FinishDone
  <2>2. t \in PastGate /\ thr[t].job \in JobId
    BY <1>2, BusyHasJob DEF FinishDone, PastGate, Busy
  <2>3. PICK k \in JobId : k = thr[t].job
    BY <2>2
  <2>4. jobs[k] \in Job
    BY DEF WorkerTypeOK
  <2>5. jobs'[k].cost = d /\ \A j \in JobId \ {k} : jobs'[j] = jobs[j]
    BY <2>1, <2>3, <2>4 DEF MarkDone, WorkerTypeOK, Job
  <2>6. PastGate' \subseteq PastGate \ {t}
    <3>1. thr'[t].pc \in {"ran", "none"}
      BY <1>2 DEF FinishDone, Finished, NoThread, WorkerTypeOK
    <3> QED BY <1>0, <3>1 DEF PastGate, Busy
  <2> QED BY <2>2, <2>5, <2>6, StudyReported
<1>3. CASE ~BudgetGate(t) /\ ~FinishDone(t)
  <2>1. PastGate' \subseteq PastGate
    <3>1. t \in PastGate' => t \in PastGate
      BY <1>3 DEF Drain, Lease, DrainRaises, WriteBrief, PackBrief, DeliverBrief, ComposeStep,
                  LinkAction, StudyRaises, FinishError, MarkErrorRaises, Finished, NoThread,
                  WorkerTypeOK, PastGate, Busy
    <3> QED BY <1>0, <3>1 DEF PastGate, Busy
  <2>2. \/ jobs' = jobs
        \/ \E j \in JobId : jobs' = LeaseOne(jobs, j) \/ jobs' = MarkError(jobs, j)
    <3>1. CASE FinishError(t)
      BY <3>1, BusyHasJob DEF FinishError, Busy
    <3>2. CASE Lease(t)
      BY <3>2 DEF Lease
    <3> QED BY <1>3, <3>1, <3>2 DEF Drain, DrainRaises, WriteBrief, PackBrief, DeliverBrief,
                  ComposeStep, LinkAction, StudyRaises, MarkErrorRaises, tableVars
  <2> QED BY <2>1, <2>2, TableKeepsSpend, BalanceKept
<1> QED BY <1>1, <1>2, <1>3

LEMMA EnqueueKeepsBudget ==
    ASSUME WorkerTypeOK, WorkerTypeOK', BudgetInv, NEW j \in JobId, NEW a \in Actions \cup {NoAction},
           Enqueue(j, a)
    PROVE  BudgetInv'
<1>1. jobs' = InsertQueueJob(jobs, j, a) /\ thr' = thr
  BY DEF Enqueue, threadVars
<1>2. PastGate' \subseteq PastGate
  BY <1>1 DEF PastGate, Busy
<1> QED BY <1>1, <1>2, TableKeepsSpend, BalanceKept

LEMMA StepBudget ==
    WorkerTypeOK /\ WorkerTypeOK' /\ BudgetInv /\ [WorkerNext]_workerVars => BudgetInv'
BY LoopKeepsBudget, DrainKeepsBudget, EnqueueKeepsBudget DEF WorkerNext, WorkerStep

LEMMA InitBudget == ASSUME DailyUsd > 0 PROVE WorkerInit => BudgetInv
<1> SUFFICES ASSUME WorkerInit, NEW c \in CostValues
             PROVE  DailyCostTotal(jobs) + Worth(c, Cardinality(PastGate))
                        < DailyUsd + Worth(c, Cardinality(Threads))
  BY DEF BudgetInv
<1>1. PastGate = {} /\ CostUnits(jobs) = {}
  BY DEF WorkerInit, PastGate, Busy, NoThread, CostUnits, DoneToday, EmptyQueue, NoJob
<1>2. DailyCostTotal(jobs) = 0 /\ Cardinality(PastGate) = 0
  BY <1>1, FS_EmptySet DEF DailyCostTotal, CostUnits
<1>3. c \in Nat /\ DailyUsd \in Nat
  BY QueueAssumption, WorkerAssumption
<1>4. PICK k \in Nat : k = Cardinality(Threads)
  BY GateIsFinite
<1>5. Worth(c, 0) = 0 /\ Worth(c, k) \in Nat
  BY <1>3, <1>4, WorthGrows DEF Worth
<1> QED BY <1>2, <1>3, <1>4, <1>5

\* Under the guard the recorded spend of a day stays below the limit and one
\* study of the highest cost per drain thread, abandoned ones included.
THEOREM SpendIsBounded == ASSUME DailyUsd > 0 PROVE WorkerSpec => []BudgetOvershoot
<1>1. WorkerTypeOK /\ BudgetInv => BudgetOvershoot
  <2> SUFFICES ASSUME WorkerTypeOK, BudgetInv, BudgetEnabled,
                      NEW c \in CostValues, \A d \in CostValues : d <= c
               PROVE  DailyCostTotal(jobs) < DailyUsd + c * Cardinality(Threads)
    BY DEF BudgetOvershoot
  <2>1. c \in Nat /\ DailyUsd \in Nat
    BY QueueAssumption, WorkerAssumption
  <2>2. DailyCostTotal(jobs) \in Nat
    BY UnitsAreFinite DEF WorkerTypeOK
  <2>3. PICK n \in Nat, k \in Nat : n = Cardinality(PastGate) /\ k = Cardinality(Threads)
    <3>1. PastGate \in SUBSET Threads
      BY DEF PastGate
    <3> QED BY <3>1, GateIsFinite
  <2>4. Worth(c, n) \in Nat /\ Worth(c, k) \in Nat
    BY <2>1, <2>3, WorthGrows
  <2>5. DailyCostTotal(jobs) + Worth(c, n) < DailyUsd + Worth(c, k)
    BY <2>3 DEF BudgetInv
  <2>6. DailyCostTotal(jobs) < DailyUsd + Worth(c, k)
    BY <2>1, <2>2, <2>4, <2>5
  <2> QED BY <2>3, <2>6 DEF Worth
<1>2. WorkerInit => WorkerTypeOK /\ BudgetInv
  BY InitType, InitBudget
<1>3. WorkerTypeOK /\ BudgetInv /\ [WorkerNext]_workerVars => (WorkerTypeOK /\ BudgetInv)'
  BY StepType, StepBudget
<1> QED BY <1>1, <1>2, <1>3, PTL DEF WorkerSpec
=============================================================================
