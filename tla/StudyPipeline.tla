---------------------------- MODULE StudyPipeline ---------------------------
(***************************************************************************)
(* The approval gate and the worker on one database: rows of brief_actions *)
(* become rows of queue_jobs, and studies write their results back, each   *)
(* side committing on its own.                                             *)
(***************************************************************************)
EXTENDS Worker, ActionHandler

workerOnly == <<briefs, threadVars, faults>>
gateOnly == <<rowVars, answerVars, handlerVars>>
pipelineVars == <<jobs, actResult, workerOnly, gateOnly>>

PipelineInit == WorkerInit /\ GateInit

PipelineNext == \/ WorkerStep /\ UNCHANGED gateOnly
                \/ GateNext /\ UNCHANGED workerOnly

PipelineSpec == PipelineInit /\ [][PipelineNext]_pipelineVars

\* The fairness of both sides, on the joint state.  None on what a request
\* waits for: a refinement runs a whole study inside the handler's tick.
PipelineFairness ==
    /\ WF_pipelineVars(MainLoop /\ UNCHANGED gateOnly)
    /\ WF_pipelineVars(Tick /\ UNCHANGED gateOnly)
    /\ \A t \in Threads :
          WF_pipelineVars((BudgetGate(t) \/ Lease(t) \/ FinishError(t)) /\ UNCHANGED gateOnly)
    /\ WF_pipelineVars(HandlerTick /\ UNCHANGED workerOnly)

FairPipeline == PipelineSpec /\ PipelineFairness
-----------------------------------------------------------------------------
\* Recorded dispatches and results agree: the brief shown on a row comes from
\* the very job recorded on it, although the study may be over before the
\* handler's second commit.
ResultFromRecordedJob ==
    \A a \in Actions : (actResult[a] # 0 /\ actJob[a] # 0) => actResult[a] = actJob[a]

\* No full study is written for a row nobody accepted: the gate holds across
\* both daemons.
NoBriefWithoutApproval ==
    \A j \in JobId : briefs[j] # "none" => jobs[j].action \in approved

\* Without a fault of the handler, a row once answered stays answered by the
\* same brief, runaway threads and repeated answers included.
ResultIsFinal ==
    [][\A a \in Actions : actResult[a] # 0 => actResult'[a] = actResult[a]]_pipelineVars

\* An accepted study comes to an end the operator can see: a result on the
\* row, a job in error, or an acceptance withdrawn, unless a request in front
\* of it hangs.
AcceptedIsAnswered ==
    \A a \in Actions : (Kind[a] = "run_full_study" /\ a \notin Malformed) =>
        (actState[a] = "accepted" ~>
            \/ actResult[a] # 0
            \/ \E j \in JobsOf(a) : jobs[j].state \in {"done", "error"}
            \/ actState[a] # "accepted"
            \/ []InRequest)
=============================================================================
