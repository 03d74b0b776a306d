--------------------------- MODULE PipelineProofs ---------------------------
(***************************************************************************)
(* Proofs about StudyPipeline, for every number of jobs, threads, rows,    *)
(* responders and faults.  To the worker, the gate is one of the producers *)
(* it allows for, so the pipeline is a worker.  To the gate, the worker    *)
(* moves rows of the queue between states and writes results, which leaves *)
(* what the gate has dispatched alone.                                     *)
(***************************************************************************)
EXTENDS StudyPipeline, WorkerProofs, ActionHandlerProofs

-----------------------------------------------------------------------------
(***************************************************************************)
(* The worker's side.                                                      *)
(***************************************************************************)

\* Short of inserting a job, the gate leaves the worker's state as it is.
LEMMA GateLeaves ==
    ASSUME GateNext, \A a \in Actions : ~EnqueueStudy(a)
    PROVE  UNCHANGED <<jobs, actResult>>
<1>1. ASSUME NEW a \in Actions, HandleRow(a) \/ Request(a) PROVE UNCHANGED <<jobs, actResult>>
  BY <1>1 DEF HandleRow, RejectRow, RecordDispatch, RecordDone, CommitRaises, Request,
              BeginRequest, LeaveArtifact, RequestReturns, RequestRaises
<1>2. HandlerStart \/ ExpireLapsed \/ FetchAccepted \/ HandlerCrash
        => UNCHANGED <<jobs, actResult>>
  BY DEF HandlerStart, ExpireLapsed, FetchAccepted, HandlerCrash
<1>3. ASSUME Answering PROVE UNCHANGED <<jobs, actResult>>
  <2>1. ASSUME NEW r \in Responders, UpdateActionState(r) \/ ResponderGone(r)
        PROVE  UNCHANGED <<jobs, actResult>>
    BY <2>1 DEF UpdateActionState, ResponderGone
  <2>2. ASSUME NEW r \in Responders, NEW a \in Actions, Submit(r, a)
        PROVE  UNCHANGED <<jobs, actResult>>
    BY <2>2 DEF Submit
  <2>3. ASSUME NEW r \in Responders, NEW a \in Actions, NEW v \in Verdict,
               SelectStudies(r, BriefOf[a], v) \/ ClickBacktest(r, BriefOf[a], v)
        PROVE  UNCHANGED <<jobs, actResult>>
    BY <2>3 DEF SelectStudies, ClickBacktest
  <2> QED BY <1>3, <2>1, <2>2, <2>3 DEF Answering
<1>4. ASSUME NEW a \in Actions, Propose(a) \/ Lapse(a) PROVE UNCHANGED <<jobs, actResult>>
  BY <1>4 DEF Propose, Lapse
<1> QED BY <1>1, <1>2, <1>3, <1>4 DEF GateNext, HandlerTick

\* The gate is a producer.
LEMMA GateProduces ==
    ASSUME GateNext, UNCHANGED workerOnly
    PROVE  [WorkerNext]_workerVars
<1> USE DEF workerVars, workerOnly, threadVars
<1>1. ASSUME NEW a \in Actions, EnqueueStudy(a) PROVE WorkerNext
  <2>1. PICK j \in JobId : NextJobId(jobs, j) /\ jobs' = InsertQueueJob(jobs, j, a)
    BY <1>1 DEF EnqueueStudy
  <2>2. Enqueue(j, a)
    BY <1>1, <2>1 DEF EnqueueStudy, Enqueue
  <2> QED BY <2>2 DEF WorkerNext
<1> QED BY <1>1, GateLeaves

LEMMA PipelineStepIsWorkers == [PipelineNext]_pipelineVars => [WorkerNext]_workerVars
<1>1. WorkerStep => WorkerNext
  BY DEF WorkerNext
<1>2. UNCHANGED pipelineVars => UNCHANGED workerVars
  BY DEF pipelineVars, workerVars, workerOnly, threadVars
<1> QED BY <1>1, <1>2, GateProduces DEF PipelineNext

\* The worker keeps all its promises behind the gate: the pipeline implements
\* the worker, with the gate as a producer of its queue.
THEOREM PipelineIsWorker == PipelineSpec => WorkerSpec
<1>1. PipelineInit => WorkerInit
  BY DEF PipelineInit
<1> QED BY <1>1, PipelineStepIsWorkers, PTL DEF PipelineSpec, WorkerSpec
-----------------------------------------------------------------------------
(***************************************************************************)
(* The gate's side.                                                        *)
(***************************************************************************)

\* No step of the worker inserts a row or gives it to another action.
DispatchKept ==
    \A j \in JobId : /\ jobs'[j].action = jobs[j].action
                     /\ jobs'[j].state = "none" <=> jobs[j].state = "none"

LEMMA QuietKeepsDispatch == ASSUME RowsKept PROVE DispatchKept
BY DEF RowsKept, DispatchKept

LEMMA WorkerKeepsDispatch == ASSUME WorkerInv, WorkerStep PROVE DispatchKept
<1> USE DEF WorkerInv
<1>1. CASE MainLoop \/ StopSignal \/ Crash \/ Tick \/ Midnight
  BY <1>1, LoopIsQuiet, QuietKeepsDispatch DEF Quiet
<1>2. ASSUME NEW t \in Threads, Drain(t) PROVE DispatchKept
  <2>1. CASE \/ BudgetGate(t) \/ DrainRaises(t) \/ StudyRaises(t)
             \/ FinishError(t) \/ MarkErrorRaises(t)
    BY <2>1, DrainIsQuiet, QuietKeepsDispatch DEF Quiet
  <2>2. CASE Lease(t)
    <3>1. jobs' = jobs \/ \E j \in JobId : OldestQueued(jobs, j) /\ jobs' = LeaseOne(jobs, j)
      BY <2>2 DEF Lease
    <3>2. ASSUME NEW j \in JobId, OldestQueued(jobs, j), jobs' = LeaseOne(jobs, j)
          PROVE  DispatchKept
      <4>1. jobs[j] \in Job /\ jobs[j].state = "queued"
        BY <3>2 DEF OldestQueued, WorkerTypeOK
      <4>2. jobs'[j].state = "running" /\ jobs'[j].action = jobs[j].action
        BY <3>2, <4>1 DEF LeaseOne, WorkerTypeOK, Job
      <4>3. \A k \in JobId : k # j => jobs'[k] = jobs[k]
        BY <3>2 DEF LeaseOne, WorkerTypeOK
      <4> QED BY <4>1, <4>2, <4>3 DEF DispatchKept
    <3> QED BY <3>1, <3>2 DEF DispatchKept
  <2>3. CASE WriteBrief(t) \/ PackBrief(t) \/ DeliverBrief(t) \/ LinkAction(t)
    <3>1. jobs' = jobs
      BY <2>3 DEF WriteBrief, PackBrief, DeliverBrief, ComposeStep, LinkAction
    <3> QED BY <3>1 DEF DispatchKept
  <2>4. CASE FinishDone(t)
    <3>1. thr[t].job \in JobId /\ jobs[thr[t].job].state \in {"running", "error"}
      BY <2>4, BusyHasJob DEF FinishDone, Busy, ExecInv, OneExecutor
    <3> QED BY <2>4, <3>1 DEF FinishDone, MarkDone, WorkerTypeOK, Job, DispatchKept
  <2> QED BY <1>2, <2>1, <2>2, <2>3, <2>4 DEF Drain
<1> QED BY <1>1, <1>2 DEF WorkerStep

LEMMA WorkerKeepsGate ==
    ASSUME GateInv, WorkerInv, WorkerInv', WorkerStep, UNCHANGED gateOnly
    PROVE  GateInv'
<1> USE DEF GateInv, gateOnly, rowVars, answerVars, handlerVars
<1>1. \A a \in Actions : JobsOf(a)' = JobsOf(a)
  BY WorkerKeepsDispatch DEF DispatchKept, JobsOf
<1>2. \A a \in Actions : (InHand(a)' <=> InHand(a)) /\ (Settled(a)' <=> Settled(a))
  BY DEF InHand, Settled, Lowest
<1>3. GateTypeOK'
  BY DEF GateTypeOK, WorkerInv, WorkerTypeOK
<1>4. WorkIsApproved' /\ WorkIsUsable' /\ RequestIsUsable'
  BY <1>1 DEF WorkIsApproved, WorkIsUsable, RequestIsUsable, InRequest, Lowest
<1>5. JobInHand' /\ RecordedIsJob' /\ FetchedIsOpen'
  BY <1>1, <1>2 DEF JobInHand, RecordedIsJob, FetchedIsOpen
<1>6. WorkIsPaid'
  BY <1>1, <1>2 DEF WorkIsPaid
<1> QED BY <1>3, <1>4, <1>5, <1>6

\* In the pipeline every job is a row's: nothing else feeds the queue.
JobsHaveRows == \A j \in JobId : jobs[j].state # "none" => jobs[j].action \in Actions

PipelineInv == WorkerInv /\ GateInv /\ JobsHaveRows

LEMMA JobsHaveRowsKept ==
    ASSUME PipelineInv, [PipelineNext]_pipelineVars
    PROVE  JobsHaveRows'
<1>1. CASE DispatchKept
  BY <1>1 DEF PipelineInv, JobsHaveRows, DispatchKept
<1>2. CASE WorkerStep
  BY <1>1, <1>2, WorkerKeepsDispatch DEF PipelineInv
<1>3. CASE jobs' = jobs
  BY <1>1, <1>3 DEF DispatchKept
<1>4. ASSUME NEW a \in Actions, EnqueueStudy(a) PROVE JobsHaveRows'
  <2>1. PICK j \in JobId : jobs' = InsertQueueJob(jobs, j, a)
    BY <1>4 DEF EnqueueStudy
  <2>2. /\ jobs'[j].action = a
        /\ \A k \in JobId : k # j => jobs'[k] = jobs[k]
    BY <2>1 DEF InsertQueueJob, PipelineInv, WorkerInv, WorkerTypeOK
  <2> QED BY <2>2 DEF PipelineInv, JobsHaveRows
<1> QED BY <1>2, <1>3, <1>4, GateLeaves DEF PipelineNext, pipelineVars

LEMMA PipelineStepInv == PipelineInv /\ [PipelineNext]_pipelineVars => PipelineInv'
<1> SUFFICES ASSUME PipelineInv, [PipelineNext]_pipelineVars PROVE PipelineInv'
  OBVIOUS
<1>1. WorkerInv'
  BY PipelineStepIsWorkers, StepInv DEF PipelineInv
<1>2. JobsHaveRows'
  BY JobsHaveRowsKept
<1>3. CASE WorkerStep /\ UNCHANGED gateOnly
  BY <1>1, <1>2, <1>3, WorkerKeepsGate DEF PipelineInv
<1>4. CASE GateNext \/ UNCHANGED pipelineVars
  <2>1. [GateNext]_gateVars
    BY <1>4 DEF pipelineVars, gateVars, gateOnly, rowVars, answerVars, handlerVars
  <2> QED BY <1>1, <1>2, <2>1, GateStepInv DEF PipelineInv
<1> QED BY <1>3, <1>4 DEF PipelineNext

LEMMA PipelineAlwaysInv == PipelineSpec => []PipelineInv
<1>1. ASSUME PipelineInit PROVE JobsHaveRows
  BY <1>1 DEF PipelineInit, WorkerInit, EmptyQueue, NoJob, JobsHaveRows
<1>2. PipelineInit => PipelineInv
  BY <1>1, InitInv, GateInitInv DEF PipelineInit, PipelineInv
<1> QED BY <1>2, PipelineStepInv, PTL DEF PipelineSpec
-----------------------------------------------------------------------------
(***************************************************************************)
(* Both sides together.                                                    *)
(***************************************************************************)

\* The gate holds across both daemons: no brief of a study is written for a
\* row nobody accepted.
THEOREM BriefsAreApproved == PipelineSpec => []NoBriefWithoutApproval
<1>1. ASSUME PipelineInv PROVE NoBriefWithoutApproval
  <2> SUFFICES ASSUME NEW j \in JobId, briefs[j] # "none"
               PROVE  jobs[j].action \in approved
    BY DEF NoBriefWithoutApproval
  <2>1. jobs[j].state # "none" /\ jobs[j].action \in Actions
    BY <1>1 DEF PipelineInv, WorkerInv, ExecInv, UnleasedHasNoBrief, JobsHaveRows
  <2>2. j \in JobsOf(jobs[j].action)
    BY <2>1 DEF JobsOf
  <2> QED BY <1>1, <2>1, <2>2 DEF PipelineInv, GateInv, WorkIsApproved
<1> QED BY <1>1, PipelineAlwaysInv, PTL

\* A result is a job of its row.
LEMMA ResultIsJob ==
    ASSUME PipelineInv, NEW a \in Actions, actResult[a] # 0
    PROVE  actResult[a] \in JobsOf(a)
<1>1. actResult[a] \in JobId
  BY QueueAssumption DEF PipelineInv, WorkerInv, WorkerTypeOK, JobId
<1>2. jobs[actResult[a]].action = a /\ briefs[actResult[a]] = "delivered"
  BY DEF PipelineInv, WorkerInv, ResultInv, ResultBelongsToAction
<1>3. jobs[actResult[a]].state # "none"
  BY <1>1, <1>2 DEF PipelineInv, WorkerInv, ExecInv, UnleasedHasNoBrief
<1> QED BY <1>1, <1>2, <1>3 DEF JobsOf

\* A handler that never fails between its two commits inserts one job a row.
LEMMA OneJobPerRow ==
    ASSUME MaxHandlerFaults = 0, PipelineInv, NEW a \in Actions,
           NEW i \in JobsOf(a), NEW j \in JobsOf(a)
    PROVE  i = j
<1>1. IsFiniteSet(JobsOf(a)) /\ Cardinality(JobsOf(a)) \in Nat
  BY JobsCounted DEF PipelineInv, GateInv
<1>2. Cardinality(JobsOf(a)) <= 1
  <2>1. hfaults = 0 /\ spoilt[a] = 0 /\ artifacts[a] \in Nat
    BY ActionAssumption DEF PipelineInv, GateInv, GateTypeOK, WorkIsUsable
  <2> QED BY <1>1, <2>1 DEF PipelineInv, GateInv, WorkIsPaid
<1>3. SUFFICES ASSUME i # j PROVE FALSE
  OBVIOUS
<1>4. /\ IsFiniteSet({i}) /\ Cardinality({i}) = 1
      /\ IsFiniteSet({i, j}) /\ Cardinality({i, j}) = 2
  <2>1. IsFiniteSet({i}) /\ Cardinality({i}) = 1
    BY FS_Singleton
  <2>2. {i, j} = {i} \cup {j} /\ j \notin {i}
    BY <1>3
  <2> QED BY <2>1, <2>2, FS_AddElement
<1>5. {i, j} \subseteq JobsOf(a)
  OBVIOUS
<1>6. Cardinality({i, j}) <= Cardinality(JobsOf(a))
  BY <1>1, <1>5, FS_Subset
<1> QED BY <1>1, <1>2, <1>4, <1>6

\* While the handler does not fail, the brief shown on a row comes from the
\* job recorded on it, whichever of the two is written first.
THEOREM ResultsAreOfRecordedJobs ==
    ASSUME MaxHandlerFaults = 0
    PROVE  PipelineSpec => []ResultFromRecordedJob
<1>1. ASSUME PipelineInv PROVE ResultFromRecordedJob
  <2> SUFFICES ASSUME NEW a \in Actions, actResult[a] # 0, actJob[a] # 0
               PROVE  actResult[a] = actJob[a]
    BY DEF ResultFromRecordedJob
  <2>1. actResult[a] \in JobsOf(a)
    BY <1>1, ResultIsJob
  <2>2. actJob[a] \in JobsOf(a)
    BY <1>1 DEF PipelineInv, GateInv, RecordedIsJob
  <2> QED BY <1>1, <2>1, <2>2, OneJobPerRow
<1> QED BY <1>1, PipelineAlwaysInv, PTL

LEMMA ResultKept ==
    ASSUME MaxHandlerFaults = 0, PipelineInv, PipelineInv', [PipelineNext]_pipelineVars,
           NEW a \in Actions, actResult[a] # 0
    PROVE  actResult'[a] = actResult[a]
<1>1. CASE actResult' = actResult
  BY <1>1
<1>2. CASE WorkerStep
  <2>1. JobsOf(a)' = JobsOf(a)
    BY <1>2, WorkerKeepsDispatch DEF PipelineInv, DispatchKept, JobsOf
  <2>2. actResult[a] \in JobsOf(a)
    BY ResultIsJob
  <2>3. CASE actResult'[a] # 0
    <3>1. actResult'[a] \in JobsOf(a)'
      <4>1. actResult'[a] \in JobId
        BY <2>3, QueueAssumption DEF PipelineInv, WorkerInv, WorkerTypeOK, JobId
      <4>2. jobs'[actResult'[a]].action = a /\ briefs'[actResult'[a]] = "delivered"
        BY <2>3 DEF PipelineInv, WorkerInv, ResultInv, ResultBelongsToAction
      <4>3. jobs'[actResult'[a]].state # "none"
        BY <4>1, <4>2 DEF PipelineInv, WorkerInv, ExecInv, UnleasedHasNoBrief
      <4> QED BY <4>1, <4>2, <4>3 DEF JobsOf
    <3> QED BY <2>1, <2>2, <3>1, OneJobPerRow
  <2>4. \/ actResult' = actResult
        \/ \E t \in Threads : LinkAction(t)
    <3>1. CASE MainLoop \/ StopSignal \/ Crash \/ Tick \/ Midnight
      BY <3>1, LoopIsQuiet DEF Quiet, PipelineInv
    <3>2. ASSUME NEW t \in Threads, Drain(t), ~LinkAction(t) PROVE actResult' = actResult
      <4>1. CASE BudgetGate(t) \/ DrainRaises(t) \/ StudyRaises(t) \/ FinishError(t)
                 \/ MarkErrorRaises(t) \/ Lease(t)
        BY <4>1 DEF BudgetGate, DrainRaises, StudyRaises, FinishError, MarkErrorRaises,
                    Lease, tableVars
      <4>2. CASE WriteBrief(t) \/ PackBrief(t) \/ DeliverBrief(t) \/ FinishDone(t)
        BY <4>2 DEF WriteBrief, PackBrief, DeliverBrief, ComposeStep, FinishDone
      <4> QED BY <3>2, <4>1, <4>2 DEF Drain
    <3> QED BY <1>2, <3>1, <3>2 DEF WorkerStep
  <2>5. ASSUME NEW t \in Threads, LinkAction(t), actResult'[a] # actResult[a]
        PROVE  actResult'[a] # 0
    <3>1. thr[t].job # 0
      BY <2>5, BusyHasJob DEF LinkAction, PipelineInv, WorkerInv, WorkerTypeOK, Busy
    <3> QED BY <2>5, <3>1 DEF LinkAction, PipelineInv, WorkerInv, WorkerTypeOK
  <2> QED BY <2>3, <2>4, <2>5
<1>3. CASE \E b \in Actions : EnqueueStudy(b)
  BY <1>1, <1>3 DEF EnqueueStudy
<1> QED BY <1>1, <1>2, <1>3, GateLeaves DEF PipelineNext, pipelineVars

\* While the handler does not fail, a row once answered keeps its brief.
THEOREM ResultsAreFinal ==
    ASSUME MaxHandlerFaults = 0
    PROVE  PipelineSpec => ResultIsFinal
<1>1. ASSUME PipelineInv, PipelineInv', [PipelineNext]_pipelineVars
      PROVE  \A a \in Actions : actResult[a] # 0 => actResult'[a] = actResult[a]
  BY <1>1, ResultKept
<1> QED BY <1>1, PipelineAlwaysInv, PTL DEF PipelineSpec, ResultIsFinal

\* With one responder at work, what was declined is never studied, whatever
\* the handler fetched before and however its dispatches fail.
THEOREM DeclinedIsFinal ==
    ASSUME \A q, r \in Responders : q = r
    PROVE  PipelineSpec => []DeclinedNeverStudied
<1>1. PipelineInit => ApprovedIsFinal
  BY DEF PipelineInit, GateInit, ApprovedIsFinal
<1>2. ASSUME PipelineInv, ApprovedIsFinal, [PipelineNext]_pipelineVars
      PROVE  ApprovedIsFinal'
  <2>1. CASE UNCHANGED gateOnly
    BY <1>2, <2>1 DEF gateOnly, rowVars, answerVars, ApprovedIsFinal
  <2>2. CASE GateNext
    BY <1>2, <2>2, ApprovedStaysFinal DEF PipelineInv, GateInv
  <2> QED BY <1>2, <2>1, <2>2 DEF PipelineNext, pipelineVars
<1>3. PipelineInv /\ ApprovedIsFinal => DeclinedNeverStudied
  BY DEF PipelineInv, GateInv, WorkIsApproved, ApprovedIsFinal, DeclinedNeverStudied
<1> QED BY <1>1, <1>2, <1>3, PipelineAlwaysInv, PTL DEF PipelineSpec
=============================================================================
