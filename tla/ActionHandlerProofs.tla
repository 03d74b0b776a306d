------------------------- MODULE ActionHandlerProofs ------------------------
(***************************************************************************)
(* Proofs about ActionHandler, for every number of rows, responders, jobs  *)
(* and faults.                                                             *)
(***************************************************************************)
EXTENDS ActionHandler, QueueProofs, FiniteSetTheorems, TLAPS

-----------------------------------------------------------------------------
(***************************************************************************)
(* Type correctness.                                                       *)
(***************************************************************************)
LEMMA GateBounds ==
    /\ 0 \in 0 .. MaxJobs /\ 0 \in 0 .. MaxArtifacts /\ 0 \in 0 .. MaxHandlerFaults
    /\ \A j \in JobId : j \in 0 .. MaxJobs /\ j # 0
    /\ \A f \in 0 .. MaxHandlerFaults : f < MaxHandlerFaults => f + 1 \in 0 .. MaxHandlerFaults
    /\ \A n \in 0 .. MaxArtifacts : n < MaxArtifacts => n + 1 \in 0 .. MaxArtifacts
    /\ 0 \in Nat /\ \A n \in Nat : n + 1 \in Nat
BY QueueAssumption, ActionAssumption DEF JobId

LEMMA GateInitType == GateInit => GateTypeOK
<1> SUFFICES ASSUME GateInit PROVE GateTypeOK
  OBVIOUS
<1>1. NoAnswer \in [verdict : Verdict, rows : SUBSET Actions]
  BY DEF NoAnswer, Verdict
<1>2. answer \in [Responders -> [verdict : Verdict, rows : SUBSET Actions]]
  BY <1>1 DEF GateInit
<1>3. /\ jobs \in [JobId -> Job]
      /\ actResult \in [Actions -> 0 .. MaxJobs]
      /\ actState \in [Actions -> ActionState]
      /\ actJob \in [Actions -> 0 .. MaxJobs]
      /\ artifacts \in [Actions -> 0 .. MaxArtifacts]
      /\ spoilt \in [Actions -> Nat]
  BY GateBounds, EmptyQueueType DEF GateInit, ActionState
<1>4. /\ actDone \in [Actions -> BOOLEAN]
      /\ actError \in [Actions -> BOOLEAN]
      /\ lapsed \subseteq Actions /\ approved \subseteq Actions /\ hrows \subseteq Actions
      /\ hpc \in {"down", "idle", "fetch", "dispatch", "request", "left", "record"}
      /\ hjob \in 0 .. MaxJobs /\ hfaults \in 0 .. MaxHandlerFaults
  BY GateBounds DEF GateInit
<1> QED BY <1>2, <1>3, <1>4 DEF GateTypeOK

LEMMA AnswerType ==
    ASSUME GateTypeOK, Answering
    PROVE  GateTypeOK'
<1> DEFINE AnswerRecord == [verdict : Verdict, rows : SUBSET Actions]
<1> USE DEF rowVars, handlerVars, GateTypeOK
<1>1. ASSUME NEW r \in Responders, NEW v \in Verdict, NEW S \in SUBSET Actions, Hold(r, v, S)
      PROVE  answer' \in [Responders -> AnswerRecord]
  BY <1>1 DEF Hold
<1>2. ASSUME NEW a \in Actions, InsertBriefAction(a)
      PROVE  actState' \in [Actions -> ActionState]
  BY <1>2 DEF InsertBriefAction, ActionState
<1>3. ASSUME NEW r \in Responders, UpdateActionState(r) PROVE GateTypeOK'
  <2>1. PICK a \in Actions :
          /\ actState' = [actState EXCEPT ![a] = answer[r].verdict]
          /\ approved' = IF answer[r].verdict = "accepted" THEN approved \cup {a} ELSE approved
          /\ LET rest == answer[r].rows \ {a} IN
             answer' = [answer EXCEPT ![r] =
                           IF rest = {} THEN NoAnswer ELSE [@ EXCEPT !.rows = rest]]
          /\ UNCHANGED <<jobs, actResult, actJob, actDone, actError, artifacts, spoilt, lapsed,
                         handlerVars>>
    BY <1>3, Zenon DEF UpdateActionState
  <2>2. answer[r].verdict \in Verdict /\ answer[r].rows \in SUBSET Actions
    OBVIOUS
  <2>3. actState' \in [Actions -> ActionState]
    BY <2>1, <2>2 DEF Verdict, ActionState
  <2>4. [answer[r] EXCEPT !.rows = answer[r].rows \ {a}] \in AnswerRecord
        /\ NoAnswer \in AnswerRecord
    BY <2>2 DEF NoAnswer, Verdict
  <2>5. answer' \in [Responders -> AnswerRecord]
    BY <2>1, <2>4
  <2>6. approved' \subseteq Actions
    BY <2>1
  <2> QED BY <2>1, <2>3, <2>5, <2>6
<1>4. ASSUME NEW r \in Responders, ResponderGone(r) PROVE GateTypeOK'
  <2>1. NoAnswer \in AnswerRecord
    BY DEF NoAnswer, Verdict
  <2>2. answer' \in [Responders -> AnswerRecord]
    BY <1>4, <2>1 DEF ResponderGone
  <2> QED BY <1>4, <2>2 DEF ResponderGone
<1>5. ASSUME NEW r \in Responders, NEW a \in Actions, Submit(r, a) PROVE GateTypeOK'
  <2>1. {a} \in SUBSET Actions /\ "accepted" \in Verdict
    BY DEF Verdict
  <2> QED BY <1>1, <1>2, <1>5, <2>1 DEF Submit
<1>6. ASSUME NEW r \in Responders, NEW b \in Actions, NEW v \in Verdict,
             SelectStudies(r, BriefOf[b], v)
      PROVE  GateTypeOK'
  <2>1. PICK S \in SUBSET Actions : Hold(r, v, S)
    BY <1>6, Zenon DEF SelectStudies, PendingOf
  <2> QED BY <1>1, <1>6, <2>1 DEF SelectStudies
<1>7. ASSUME NEW r \in Responders, NEW b \in Actions, NEW v \in Verdict,
             ClickBacktest(r, BriefOf[b], v)
      PROVE  GateTypeOK'
  <2>1. PICK a \in Actions : Hold(r, v, {a}) /\ (UNCHANGED actState \/ InsertBriefAction(a))
    BY <1>7, Zenon DEF ClickBacktest, PendingOf
  <2> QED BY <1>1, <1>2, <1>7, <2>1 DEF ClickBacktest
<1> QED BY <1>3, <1>4, <1>5, <1>6, <1>7 DEF Answering

LEMMA RowStepType ==
    ASSUME GateTypeOK, NEW a \in Actions, HandleRow(a)
    PROVE  GateTypeOK'
<1> USE GateBounds DEF rowVars, answerVars, GateTypeOK, NextRow
<1>1. CASE RejectRow(a)
  BY <1>1 DEF RejectRow
<1>2. CASE EnqueueStudy(a)
  <2>1. jobs' \in [JobId -> Job] /\ hjob' \in 0 .. MaxJobs
    BY <1>2, TableTypes DEF EnqueueStudy
  <2> QED BY <1>2, <2>1 DEF EnqueueStudy
<1>3. CASE RecordDispatch(a)
  BY <1>3 DEF RecordDispatch
<1>4. CASE BeginRequest(a)
  BY <1>4 DEF BeginRequest
<1>5. CASE RecordDone(a)
  BY <1>5 DEF RecordDone
<1>6. CASE CommitRaises(a)
  BY <1>6 DEF CommitRaises
<1> QED BY <1>1, <1>2, <1>3, <1>4, <1>5, <1>6 DEF HandleRow

LEMMA RequestStepType ==
    ASSUME GateTypeOK, NEW a \in Actions, Request(a)
    PROVE  GateTypeOK'
<1> USE GateBounds DEF rowVars, answerVars, GateTypeOK, NextRow
<1>1. CASE LeaveArtifact(a)
  BY <1>1 DEF LeaveArtifact
<1>2. CASE RequestReturns(a)
  BY <1>2 DEF RequestReturns
<1>3. CASE RequestRaises(a)
  <2>1. spoilt' \in [Actions -> Nat]
    BY <1>3 DEF RequestRaises
  <2> QED BY <1>3, <2>1 DEF RequestRaises
<1> QED BY <1>1, <1>2, <1>3 DEF Request

LEMMA GateStepType == GateTypeOK /\ [GateNext]_gateVars => GateTypeOK'
<1> SUFFICES ASSUME GateTypeOK, [GateNext]_gateVars PROVE GateTypeOK'
  OBVIOUS
<1>1. ASSUME NEW a \in Actions, Propose(a) \/ Lapse(a) PROVE GateTypeOK'
  BY <1>1 DEF Propose, Lapse, InsertBriefAction, ActionState, answerVars, handlerVars, GateTypeOK
<1>2. CASE HandlerStart \/ ExpireLapsed \/ FetchAccepted \/ HandlerCrash
  BY <1>2, GateBounds
     DEF HandlerStart, ExpireLapsed, FetchAccepted, HandlerCrash, AcceptedUndispatched,
         ActionState, rowVars, answerVars, GateTypeOK
<1>3. CASE UNCHANGED gateVars
  BY <1>3 DEF gateVars, GateTypeOK
<1> QED BY <1>1, <1>2, <1>3, AnswerType, RowStepType, RequestStepType DEF GateNext, HandlerTick

\* Every variable of the gate and of its handler keeps its type.
THEOREM GateTypeCorrect == GateSpec => []GateTypeOK
BY GateInitType, GateStepType, PTL DEF GateSpec
-----------------------------------------------------------------------------
(***************************************************************************)
(* The inductive invariant.  The handler works on rows it fetched earlier, *)
(* so what held of them when they were fetched must go on holding whatever *)
(* is answered meanwhile: they were accepted once, and nothing is recorded *)
(* on them.  A job is in the table before it is recorded on its row.       *)
(***************************************************************************)

\* Accepted rows, fetched rows and studied rows were approved.
WorkIsApproved ==
    \A a \in Actions :
        (actState[a] = "accepted" \/ a \in hrows \/ JobsOf(a) # {}) => a \in approved

\* Only usable rows get a job or an artifact, only unusable ones an error.
WorkIsUsable ==
    \A a \in Actions :
        /\ JobsOf(a) # {} => Kind[a] = "run_full_study" /\ a \notin Malformed
        /\ artifacts[a] # 0 => /\ Kind[a] # "run_full_study"
                               /\ Kind[a] = "run_backtest" => a \notin Malformed
        /\ spoilt[a] # 0 => Kind[a] # "run_full_study"
        /\ actError[a] => a \in Malformed /\ Kind[a] # "refine_brief"

\* Only usable rows that are no study are requested.
RequestIsUsable ==
    \A a \in Actions : (InRequest /\ Lowest(hrows, a)) =>
        Kind[a] # "run_full_study" /\ (Kind[a] = "run_backtest" => a \notin Malformed)

\* What was made for the row in hand is in the table and not yet recorded; a
\* job in hand is a job of that row.
InHand(a) == hpc \in {"left", "record"} /\ Lowest(hrows, a)

JobInHand ==
    \A a \in Actions : (InHand(a) /\ Kind[a] = "run_full_study") => hjob \in JobsOf(a)

RecordedIsJob == \A a \in Actions : actJob[a] # 0 => actJob[a] \in JobsOf(a)

\* Nothing is recorded on a fetched row.
FetchedIsOpen == \A a \in hrows : actJob[a] = 0 /\ ~actDone[a]

\* Each fault and each request that raised after it left something pays for
\* one repetition; the rest is recorded or in hand.
Settled(a) == actJob[a] # 0 \/ actDone[a] \/ InHand(a)
WorkIsPaid ==
    \A a \in Actions :
        /\ Cardinality(JobsOf(a)) + artifacts[a] <= 1 + hfaults + spoilt[a]
        /\ ~Settled(a) => Cardinality(JobsOf(a)) + artifacts[a] <= hfaults + spoilt[a]

GateInv == GateTypeOK /\ WorkIsApproved /\ WorkIsUsable /\ RequestIsUsable /\ JobInHand
           /\ RecordedIsJob /\ FetchedIsOpen /\ WorkIsPaid

LEMMA GateInitInv == GateInit => GateInv
<1> SUFFICES ASSUME GateInit PROVE GateInv
  OBVIOUS
<1>1. \A a \in Actions : JobsOf(a) = {}
  BY DEF GateInit, EmptyQueue, NoJob, JobsOf
<1>2. Cardinality({}) = 0
  BY FS_EmptySet
<1>3. \A a \in Actions : ~InHand(a)
  BY DEF GateInit, InHand
<1>4. WorkIsPaid
  BY <1>1, <1>2 DEF GateInit, WorkIsPaid
<1>5. /\ WorkIsApproved /\ WorkIsUsable /\ RequestIsUsable
      /\ JobInHand /\ RecordedIsJob /\ FetchedIsOpen
  BY <1>1, <1>3 DEF GateInit, WorkIsApproved, WorkIsUsable, RequestIsUsable, InRequest,
                    JobInHand, RecordedIsJob, FetchedIsOpen
<1> QED BY <1>4, <1>5, GateInitType DEF GateInv

LEMMA JobsCounted ==
    ASSUME GateTypeOK, NEW a \in Actions
    PROVE  IsFiniteSet(JobsOf(a)) /\ Cardinality(JobsOf(a)) \in Nat
<1>1. IsFiniteSet(JobId)
  BY FS_Interval, QueueAssumption DEF JobId
<1>2. JobsOf(a) \subseteq JobId
  BY DEF JobsOf
<1> QED BY <1>1, <1>2, FS_Subset, FS_CardinalityType

(***************************************************************************)
(* A step that leaves the table alone is judged by what it does to the     *)
(* rows: who is accepted or fetched, and what is counted, in hand or       *)
(* recorded.                                                               *)
(***************************************************************************)
LEMMA TableKept ==
    ASSUME jobs' = jobs
    PROVE  \A a \in Actions : JobsOf(a)' = JobsOf(a)
BY DEF JobsOf

\* What the responders do touches no work.
Outside ==
    /\ UNCHANGED <<jobs, artifacts, spoilt, actJob, actDone, actError, handlerVars>>
    /\ approved \subseteq approved'
    /\ \A a \in Actions : actState'[a] = "accepted" => actState[a] = "accepted" \/ a \in approved'

LEMMA OutsideKeeps ==
    ASSUME GateInv, GateTypeOK', Outside
    PROVE  GateInv'
<1> USE DEF GateInv, Outside, handlerVars
<1>1. \A a \in Actions : JobsOf(a)' = JobsOf(a)
  BY TableKept
<1>2. \A a \in Actions : (InHand(a)' <=> InHand(a)) /\ (Settled(a)' <=> Settled(a))
  BY DEF InHand, Settled, Lowest
<1>3. WorkIsApproved'
  BY <1>1 DEF WorkIsApproved
<1>4. WorkIsUsable' /\ RequestIsUsable'
  BY <1>1 DEF WorkIsUsable, RequestIsUsable, InRequest, Lowest
<1>5. JobInHand' /\ RecordedIsJob' /\ FetchedIsOpen'
  BY <1>1, <1>2 DEF JobInHand, RecordedIsJob, FetchedIsOpen
<1>6. WorkIsPaid'
  BY <1>1, <1>2 DEF WorkIsPaid
<1> QED BY <1>3, <1>4, <1>5, <1>6

LEMMA AnswersAreOutside ==
    ASSUME GateTypeOK,
           \/ Answering \/ UNCHANGED gateVars
           \/ \E a \in Actions : Propose(a) \/ Lapse(a)
    PROVE  Outside
<1> USE DEF Outside, rowVars, handlerVars, GateTypeOK
<1>1. ASSUME NEW a \in Actions, InsertBriefAction(a)
      PROVE  \A b \in Actions : actState'[b] = "accepted" => actState[b] = "accepted"
  BY <1>1 DEF InsertBriefAction
<1>2. ASSUME NEW a \in Actions, Propose(a) \/ Lapse(a) PROVE Outside
  BY <1>1, <1>2 DEF Propose, Lapse
<1>3. ASSUME NEW r \in Responders, UpdateActionState(r) PROVE Outside
  <2>1. PICK a \in Actions :
          /\ actState' = [actState EXCEPT ![a] = answer[r].verdict]
          /\ approved' = IF answer[r].verdict = "accepted" THEN approved \cup {a} ELSE approved
          /\ UNCHANGED <<jobs, actResult, actJob, actDone, actError, artifacts, spoilt, lapsed,
                         handlerVars>>
    BY <1>3, Zenon DEF UpdateActionState
  <2> QED BY <2>1
<1>4. ASSUME NEW r \in Responders, ResponderGone(r) PROVE Outside
  BY <1>4 DEF ResponderGone
<1>5. ASSUME NEW r \in Responders, NEW a \in Actions, Submit(r, a) PROVE Outside
  BY <1>1, <1>5 DEF Submit
<1>6. ASSUME NEW r \in Responders, NEW b \in Actions, NEW v \in Verdict,
             SelectStudies(r, BriefOf[b], v)
      PROVE  Outside
  BY <1>6 DEF SelectStudies
<1>7. ASSUME NEW r \in Responders, NEW b \in Actions, NEW v \in Verdict,
             ClickBacktest(r, BriefOf[b], v)
      PROVE  Outside
  <2>1. UNCHANGED actState \/ \E a \in Actions : InsertBriefAction(a)
    BY <1>7, Zenon DEF ClickBacktest
  <2> QED BY <1>1, <1>7, <2>1 DEF ClickBacktest
<1>8. CASE UNCHANGED gateVars
  BY <1>8 DEF gateVars
<1> QED BY <1>2, <1>3, <1>4, <1>5, <1>6, <1>7, <1>8 DEF Answering

(***************************************************************************)
(* The handler's own steps.                                                *)
(***************************************************************************)

\* Between rows nothing is in hand; what is fetched was accepted and is open.
LEMMA TickKeeps ==
    ASSUME GateInv, GateTypeOK',
           HandlerStart \/ ExpireLapsed \/ FetchAccepted \/ HandlerCrash
    PROVE  GateInv'
<1> USE DEF GateInv, rowVars, answerVars
<1>1. /\ jobs' = jobs /\ UNCHANGED <<artifacts, spoilt, actJob, actDone, actError, approved>>
      /\ hpc' \notin {"request", "left", "record"}
      /\ (hpc \notin {"left", "record"} /\ hfaults' = hfaults) \/ hfaults' = hfaults + 1
  BY DEF HandlerStart, ExpireLapsed, FetchAccepted, HandlerCrash, GateTypeOK
<1>2. \A a \in Actions : JobsOf(a)' = JobsOf(a)
  BY <1>1, TableKept
<1>3. \A a \in Actions : actState'[a] = "accepted" => actState[a] = "accepted"
  BY DEF HandlerStart, ExpireLapsed, FetchAccepted, HandlerCrash
<1>4. hrows' \subseteq hrows \/ hrows' = AcceptedUndispatched
  BY DEF HandlerStart, ExpireLapsed, FetchAccepted, HandlerCrash
<1>5. WorkIsApproved'
  BY <1>1, <1>2, <1>3, <1>4 DEF WorkIsApproved, AcceptedUndispatched
<1>6. WorkIsUsable' /\ RequestIsUsable' /\ RecordedIsJob'
  BY <1>1, <1>2 DEF WorkIsUsable, RequestIsUsable, InRequest, RecordedIsJob
<1>7. JobInHand'
  BY <1>1 DEF JobInHand, InHand
<1>8. FetchedIsOpen'
  BY <1>1, <1>4 DEF FetchedIsOpen, AcceptedUndispatched
<1>9. WorkIsPaid'
  <2>1. hfaults \in Nat /\ \A a \in Actions : artifacts[a] \in Nat /\ spoilt[a] \in Nat
    BY ActionAssumption DEF GateTypeOK
  <2>2. \A a \in Actions : Cardinality(JobsOf(a)) \in Nat
    BY JobsCounted
  <2>3. \A a \in Actions : hpc \notin {"left", "record"} => (Settled(a)' <=> Settled(a))
    BY <1>1 DEF Settled, InHand
  <2> QED BY <1>1, <1>2, <2>1, <2>2, <2>3 DEF WorkIsPaid
<1> QED BY <1>5, <1>6, <1>7, <1>8, <1>9

\* A row is left by a record, an error or a failure.
Leaves(a) == RejectRow(a) \/ RecordDispatch(a) \/ RecordDone(a)
             \/ RequestRaises(a) \/ CommitRaises(a)

LEMMA LeavingKeeps ==
    ASSUME GateInv, GateTypeOK', NEW a \in Actions, Leaves(a)
    PROVE  GateInv'
<1> USE DEF GateInv, rowVars, answerVars, NextRow
<1>1. /\ jobs' = jobs /\ UNCHANGED <<artifacts, actState, approved>>
      /\ Lowest(hrows, a) /\ hrows' = hrows \ {a} /\ hpc' \in {"idle", "dispatch"}
  BY DEF Leaves, RejectRow, RecordDispatch, RecordDone, RequestRaises, CommitRaises
<1>2. /\ actError' = actError
         \/ (actError' = [actError EXCEPT ![a] = TRUE] /\ a \in Malformed /\ Kind[a] # "refine_brief")
      /\ actJob' = actJob
         \/ (actJob' = [actJob EXCEPT ![a] = hjob] /\ InHand(a) /\ Kind[a] = "run_full_study")
      /\ actDone' = actDone
         \/ (actDone' = [actDone EXCEPT ![a] = TRUE] /\ InHand(a))
      /\ spoilt' = spoilt
         \/ (spoilt' = [spoilt EXCEPT ![a] = @ + 1] /\ InRequest)
  BY DEF Leaves, InRequest, GateTypeOK, RejectRow, RecordDispatch, RecordDone, RequestRaises, CommitRaises, InHand
<1>3. \A b \in Actions : JobsOf(b)' = JobsOf(b)
  BY <1>1, TableKept
<1>4. \A b \in Actions : ~InHand(b)' /\ (InHand(b) => b = a)
  BY <1>1, ActionAssumption DEF InHand, Lowest
<1>5. WorkIsApproved'
  BY <1>1, <1>3 DEF WorkIsApproved
<1>6. WorkIsUsable' /\ RequestIsUsable'
  BY <1>1, <1>2, <1>3 DEF WorkIsUsable, RequestIsUsable, InRequest, GateTypeOK
<1>7. JobInHand'
  BY <1>4 DEF JobInHand
<1>8. RecordedIsJob'
  BY <1>2, <1>3 DEF RecordedIsJob, JobInHand, GateTypeOK
<1>9. FetchedIsOpen'
  BY <1>1, <1>2 DEF FetchedIsOpen, GateTypeOK
<1>10. WorkIsPaid'
  <2>1. /\ hfaults \in Nat /\ \A b \in Actions : artifacts[b] \in Nat /\ spoilt[b] \in Nat
        /\ \A b \in Actions : Cardinality(JobsOf(b)) \in Nat
    BY ActionAssumption, JobsCounted DEF GateTypeOK
  <2>2. \A b \in Actions : b # a => (Settled(b)' <=> Settled(b))
    BY <1>2, <1>4 DEF Settled, GateTypeOK
  <2>3. CASE CommitRaises(a)
    <3>1. hfaults' = hfaults + 1 /\ spoilt' = spoilt
      BY <2>3 DEF CommitRaises
    <3> QED BY <1>1, <1>3, <2>1, <2>2, <3>1 DEF WorkIsPaid
  <2>4. CASE RejectRow(a) \/ (RequestRaises(a) /\ hpc = "request")
    <3>1. hfaults' = hfaults /\ ~InHand(a) /\ UNCHANGED <<actJob, actDone, spoilt>>
      BY <2>4 DEF RejectRow, RequestRaises, InHand, GateTypeOK
    <3>2. Settled(a)' <=> Settled(a)
      BY <1>4, <3>1 DEF Settled
    <3> QED BY <1>1, <1>3, <2>1, <2>2, <3>1, <3>2 DEF WorkIsPaid
  <2>5. CASE RecordDispatch(a) \/ RecordDone(a)
    <3>1. hfaults' = hfaults /\ spoilt' = spoilt
      BY <2>5 DEF RecordDispatch, RecordDone
    <3>2. Settled(a)'
      <4>1. CASE RecordDone(a)
        BY <4>1 DEF RecordDone, Settled, GateTypeOK
      <4>2. CASE RecordDispatch(a)
        <5>1. hjob \in JobsOf(a)
          BY <4>2 DEF RecordDispatch, JobInHand, InHand
        <5>2. hjob # 0
          BY <5>1, GateBounds DEF JobsOf
        <5> QED BY <4>2, <5>2 DEF RecordDispatch, Settled, GateTypeOK
      <4> QED BY <2>5, <4>1, <4>2
    <3> QED BY <1>1, <1>3, <2>1, <2>2, <3>1, <3>2 DEF WorkIsPaid
  <2>6. CASE RequestRaises(a) /\ hpc = "left"
    <3>1. /\ hfaults' = hfaults
          /\ spoilt'[a] = spoilt[a] + 1
          /\ \A b \in Actions : b # a => spoilt'[b] = spoilt[b]
      BY <2>6 DEF RequestRaises, GateTypeOK
    <3> QED BY <1>1, <1>3, <2>1, <2>2, <3>1 DEF WorkIsPaid
  <2> QED BY <2>3, <2>4, <2>5, <2>6 DEF Leaves, RequestRaises
<1> QED BY <1>5, <1>6, <1>7, <1>8, <1>9, <1>10

LEMMA EnqueueKeeps ==
    ASSUME GateInv, GateTypeOK', NEW a \in Actions, EnqueueStudy(a)
    PROVE  GateInv'
<1> USE DEF GateInv, rowVars, answerVars
<1>1. /\ hpc = "dispatch" /\ hpc' = "record" /\ Lowest(hrows, a)
      /\ Kind[a] = "run_full_study" /\ a \notin Malformed
      /\ UNCHANGED <<actState, actJob, actDone, actError, artifacts, spoilt, approved, hrows,
                     hfaults>>
  BY DEF EnqueueStudy
<1>2. PICK j \in JobId : NextJobId(jobs, j) /\ jobs' = InsertQueueJob(jobs, j, a) /\ hjob' = j
  BY DEF EnqueueStudy
<1>3. /\ jobs[j].state = "none" /\ jobs'[j].state = "queued" /\ jobs'[j].action = a
      /\ \A k \in JobId : k # j => jobs'[k] = jobs[k]
  BY <1>2 DEF NextJobId, InsertQueueJob, GateTypeOK
<1>4. j \notin JobsOf(a) /\ JobsOf(a)' = JobsOf(a) \cup {j}
  BY <1>3 DEF JobsOf
<1>5. \A b \in Actions : b # a => JobsOf(b)' = JobsOf(b)
  BY <1>3 DEF JobsOf
<1>6. \A b \in Actions : ~InHand(b) /\ (InHand(b)' <=> b = a)
  BY <1>1, ActionAssumption DEF InHand, Lowest
<1>7. WorkIsApproved'
  BY <1>1, <1>4, <1>5 DEF WorkIsApproved, Lowest
<1>8. WorkIsUsable' /\ RequestIsUsable'
  BY <1>1, <1>4, <1>5 DEF WorkIsUsable, RequestIsUsable, InRequest
<1>9. JobInHand'
  BY <1>2, <1>4, <1>6 DEF JobInHand
<1>10. RecordedIsJob'
  BY <1>1, <1>4, <1>5 DEF RecordedIsJob
<1>11. FetchedIsOpen'
  BY <1>1 DEF FetchedIsOpen
<1>12. WorkIsPaid'
  <2>1. /\ hfaults \in Nat /\ \A b \in Actions : artifacts[b] \in Nat /\ spoilt[b] \in Nat
        /\ \A b \in Actions : Cardinality(JobsOf(b)) \in Nat
    BY ActionAssumption, JobsCounted DEF GateTypeOK
  <2>2. Cardinality(JobsOf(a)') = Cardinality(JobsOf(a)) + 1
    BY <1>4, JobsCounted, FS_AddElement
  <2>3. \A b \in Actions : b # a => (Settled(b)' <=> Settled(b))
    BY <1>1, <1>6 DEF Settled
  <2>4. ~Settled(a) /\ Settled(a)'
    BY <1>1, <1>6 DEF Settled, FetchedIsOpen, Lowest
  <2> QED BY <1>1, <1>5, <2>1, <2>2, <2>3, <2>4 DEF WorkIsPaid
<1> QED BY <1>7, <1>8, <1>9, <1>10, <1>11, <1>12

\* A request begins with nothing in hand, leaves its artefact and returns.
LEMMA BeginKeeps ==
    ASSUME GateInv, GateTypeOK', NEW a \in Actions, BeginRequest(a)
    PROVE  GateInv'
<1> USE DEF GateInv, rowVars, answerVars
<1>1. /\ hpc = "dispatch" /\ hpc' = "request" /\ Lowest(hrows, a)
      /\ Kind[a] # "run_full_study" /\ (Kind[a] = "run_backtest" => a \notin Malformed)
      /\ UNCHANGED <<jobs, actState, actJob, actDone, actError, artifacts, spoilt, approved,
                     hrows, hjob, hfaults>>
  BY DEF BeginRequest
<1>2. \A b \in Actions : JobsOf(b)' = JobsOf(b)
  BY <1>1, TableKept
<1>3. \A b \in Actions : ~InHand(b)' /\ (Settled(b)' <=> Settled(b))
  BY <1>1 DEF InHand, Settled
<1>4. WorkIsApproved' /\ WorkIsUsable'
  BY <1>1, <1>2 DEF WorkIsApproved, WorkIsUsable
<1>5. RequestIsUsable'
  BY <1>1, ActionAssumption DEF RequestIsUsable, Lowest
<1>6. JobInHand' /\ RecordedIsJob' /\ FetchedIsOpen'
  BY <1>1, <1>2, <1>3 DEF JobInHand, RecordedIsJob, FetchedIsOpen
<1>7. WorkIsPaid'
  BY <1>1, <1>2, <1>3 DEF WorkIsPaid
<1> QED BY <1>4, <1>5, <1>6, <1>7

LEMMA ArtifactKeeps ==
    ASSUME GateInv, GateTypeOK', NEW a \in Actions, LeaveArtifact(a)
    PROVE  GateInv'
<1> USE DEF GateInv, rowVars, answerVars
<1>1. /\ hpc = "request" /\ hpc' = "left" /\ Lowest(hrows, a)
      /\ artifacts' = [artifacts EXCEPT ![a] = @ + 1]
      /\ UNCHANGED <<actState, actJob, actDone, actError, spoilt, approved, hrows, hjob,
                     hfaults>>
      /\ jobs' = jobs
  BY DEF LeaveArtifact
<1>2. \A b \in Actions : JobsOf(b)' = JobsOf(b)
  BY <1>1, TableKept
<1>3. \A b \in Actions : ~InHand(b) /\ (InHand(b)' <=> b = a)
  BY <1>1, ActionAssumption DEF InHand, Lowest
<1>4. Kind[a] # "run_full_study" /\ (Kind[a] = "run_backtest" => a \notin Malformed)
  BY <1>1 DEF RequestIsUsable, InRequest
<1>5. WorkIsApproved'
  BY <1>1, <1>2 DEF WorkIsApproved
<1>6. WorkIsUsable' /\ RequestIsUsable'
  BY <1>1, <1>2, <1>4 DEF WorkIsUsable, RequestIsUsable, InRequest, GateTypeOK
<1>7. JobInHand'
  BY <1>3, <1>4 DEF JobInHand
<1>8. RecordedIsJob' /\ FetchedIsOpen'
  BY <1>1, <1>2 DEF RecordedIsJob, FetchedIsOpen
<1>9. WorkIsPaid'
  <2>1. /\ hfaults \in Nat /\ \A b \in Actions : artifacts[b] \in Nat /\ spoilt[b] \in Nat
        /\ \A b \in Actions : Cardinality(JobsOf(b)) \in Nat
    BY ActionAssumption, JobsCounted DEF GateTypeOK
  <2>2. artifacts'[a] = artifacts[a] + 1 /\ \A b \in Actions : b # a => artifacts'[b] = artifacts[b]
    BY <1>1 DEF GateTypeOK
  <2>3. \A b \in Actions : b # a => (Settled(b)' <=> Settled(b))
    BY <1>1, <1>3 DEF Settled
  <2>4. ~Settled(a) /\ Settled(a)'
    BY <1>1, <1>3 DEF Settled, FetchedIsOpen, Lowest
  <2> QED BY <1>1, <1>2, <2>1, <2>2, <2>3, <2>4 DEF WorkIsPaid
<1> QED BY <1>5, <1>6, <1>7, <1>8, <1>9

LEMMA ReturnKeeps ==
    ASSUME GateInv, GateTypeOK', NEW a \in Actions, RequestReturns(a)
    PROVE  GateInv'
<1> USE DEF GateInv, rowVars, answerVars
<1>1. /\ hpc = "left" /\ hpc' = "record" /\ Lowest(hrows, a)
      /\ UNCHANGED <<jobs, actState, actJob, actDone, actError, artifacts, spoilt, approved,
                     hrows, hjob, hfaults>>
  BY DEF RequestReturns
<1>2. \A b \in Actions : JobsOf(b)' = JobsOf(b)
  BY <1>1, TableKept
<1>3. \A b \in Actions : (InHand(b)' <=> InHand(b)) /\ (Settled(b)' <=> Settled(b))
  BY <1>1 DEF InHand, Settled, Lowest
<1>4. WorkIsApproved' /\ WorkIsUsable' /\ RequestIsUsable'
  BY <1>1, <1>2 DEF WorkIsApproved, WorkIsUsable, RequestIsUsable, InRequest
<1>5. JobInHand' /\ RecordedIsJob' /\ FetchedIsOpen'
  BY <1>1, <1>2, <1>3 DEF JobInHand, RecordedIsJob, FetchedIsOpen
<1>6. WorkIsPaid'
  BY <1>1, <1>2, <1>3 DEF WorkIsPaid
<1> QED BY <1>4, <1>5, <1>6

LEMMA GateStepInv == GateInv /\ [GateNext]_gateVars => GateInv'
<1> SUFFICES ASSUME GateInv, [GateNext]_gateVars PROVE GateInv'
  OBVIOUS
<1>1. GateTypeOK /\ GateTypeOK'
  BY GateStepType DEF GateInv
<1>2. CASE \/ Answering \/ UNCHANGED gateVars
           \/ \E a \in Actions : Propose(a) \/ Lapse(a)
  BY <1>1, <1>2, AnswersAreOutside, OutsideKeeps
<1>3. CASE HandlerStart \/ ExpireLapsed \/ FetchAccepted \/ HandlerCrash
  BY <1>1, <1>3, TickKeeps
<1>4. ASSUME NEW a \in Actions, HandleRow(a) PROVE GateInv'
  BY <1>1, <1>4, LeavingKeeps, EnqueueKeeps, BeginKeeps DEF HandleRow, Leaves
<1>5. ASSUME NEW a \in Actions, Request(a) PROVE GateInv'
  BY <1>1, <1>5, LeavingKeeps, ArtifactKeeps, ReturnKeeps DEF Request, Leaves
<1> QED BY <1>2, <1>3, <1>4, <1>5 DEF GateNext, HandlerTick

LEMMA GateAlwaysInv == GateSpec => []GateInv
BY GateInitInv, GateStepInv, PTL DEF GateSpec
-----------------------------------------------------------------------------
(***************************************************************************)
(* The theorems.                                                           *)
(***************************************************************************)

\* No study is queued for a row that nobody accepted, whatever is answered,
\* lapses or crashes between the fetch of the row and its dispatch.
THEOREM StudiesAreApproved == GateSpec => []NoStudyWithoutApproval
<1>1. GateInv => NoStudyWithoutApproval
  BY DEF GateInv, WorkIsApproved, NoStudyWithoutApproval
<1> QED BY <1>1, GateAlwaysInv, PTL

\* A row yields one study, backtest or refinement, one more per fault and, but
\* for studies, one more per request that raised after it left something: the
\* fetched rows are open, and what a dispatch made is recorded or in hand.
THEOREM RepetitionsAreFaults == GateSpec => []DuplicatesNeedFaults
<1>1. GateInv => DuplicatesNeedFaults
  <2> SUFFICES ASSUME GateInv, NEW a \in Actions
               PROVE  /\ Cardinality(JobsOf(a)) <= 1 + hfaults
                      /\ artifacts[a] <= 1 + hfaults + spoilt[a]
    BY DEF DuplicatesNeedFaults
  <2>1. /\ hfaults \in Nat /\ artifacts[a] \in Nat /\ spoilt[a] \in Nat
        /\ Cardinality(JobsOf(a)) \in Nat
    BY ActionAssumption, JobsCounted DEF GateInv, GateTypeOK
  <2>2. Cardinality(JobsOf(a)) + artifacts[a] <= 1 + hfaults + spoilt[a]
    BY DEF GateInv, WorkIsPaid
  <2>3. JobsOf(a) # {} => spoilt[a] = 0
    BY DEF GateInv, WorkIsUsable
  <2>4. JobsOf(a) = {} => Cardinality(JobsOf(a)) = 0
    BY FS_EmptySet
  <2> QED BY <2>1, <2>2, <2>3, <2>4
<1> QED BY <1>1, GateAlwaysInv, PTL

\* The job recorded on a row is a job of that row, and a row set to error got
\* none.
THEOREM DispatchesAreConsistent == GateSpec => []DispatchIsConsistent
<1>1. GateInv => DispatchIsConsistent
  <2> SUFFICES ASSUME GateInv PROVE DispatchIsConsistent
    OBVIOUS
  <2>1. \A a \in Actions : Kind[a] \in Kinds
    BY ActionAssumption
  <2> QED BY <2>1 DEF GateInv, RecordedIsJob, WorkIsUsable, DispatchIsConsistent, Kinds
<1> QED BY <1>1, GateAlwaysInv, PTL
-----------------------------------------------------------------------------
(***************************************************************************)
(* One responder.  The SELECT finds pending rows only and nobody else      *)
(* answers before the UPDATE, so an approved row is out of reach.          *)
(***************************************************************************)
ApprovedIsFinal ==
    \A a \in approved :
        actState[a] = "accepted" /\ \A r \in Responders : a \notin answer[r].rows

\* Selecting rows holds none that is approved.
LEMMA HoldKeeps ==
    ASSUME GateTypeOK, ApprovedIsFinal, UNCHANGED approved,
           NEW r \in Responders, NEW v \in Verdict, NEW rows \in SUBSET Actions,
           rows \cap approved = {}, Hold(r, v, rows),
           \A a \in approved : actState'[a] = actState[a]
    PROVE  ApprovedIsFinal'
BY DEF GateTypeOK, ApprovedIsFinal, Hold

LEMMA AnsweringKeepsFinal ==
    ASSUME GateTypeOK, ApprovedIsFinal, Answering, \A q, r \in Responders : q = r
    PROVE  ApprovedIsFinal'
<1>1. ASSUME NEW r \in Responders, UpdateActionState(r) PROVE ApprovedIsFinal'
  <2>1. PICK a \in Actions :
          /\ a \in answer[r].rows
          /\ actState' = [actState EXCEPT ![a] = answer[r].verdict]
          /\ approved' = IF answer[r].verdict = "accepted" THEN approved \cup {a} ELSE approved
          /\ answer' = [answer EXCEPT ![r] =
                IF answer[r].rows \ {a} = {} THEN NoAnswer
                ELSE [@ EXCEPT !.rows = answer[r].rows \ {a}]]
    BY <1>1 DEF UpdateActionState, Lowest
  <2>2. answer'[r].rows = answer[r].rows \ {a}
    BY <2>1 DEF GateTypeOK, NoAnswer
  <2>3. a \notin approved
    BY <2>1 DEF ApprovedIsFinal
  <2>4. \A q \in Responders : q = r
    OBVIOUS
  <2>5. \A b \in approved' : actState'[b] = "accepted" /\ b \notin answer'[r].rows
    BY <2>1, <2>2, <2>3 DEF ApprovedIsFinal, GateTypeOK
  <2> QED BY <2>4, <2>5 DEF ApprovedIsFinal
<1>2. ASSUME NEW r \in Responders, ResponderGone(r) PROVE ApprovedIsFinal'
  BY <1>2 DEF ResponderGone, rowVars, ApprovedIsFinal, GateTypeOK, NoAnswer
<1>3. ASSUME NEW r \in Responders, NEW a \in Actions, Submit(r, a) PROVE ApprovedIsFinal'
  <2>1. a \notin approved /\ UNCHANGED approved /\ Hold(r, "accepted", {a})
        /\ actState' = [actState EXCEPT ![a] = "pending"]
    BY <1>3 DEF Submit, InsertBriefAction, ApprovedIsFinal
  <2>2. \A b \in approved : actState'[b] = actState[b]
    BY <2>1 DEF GateTypeOK
  <2> QED BY <2>1, <2>2, HoldKeeps DEF Verdict
<1>4. ASSUME NEW r \in Responders, NEW a \in Actions, NEW v \in Verdict,
             SelectStudies(r, BriefOf[a], v)
      PROVE  ApprovedIsFinal'
  <2>1. PICK rows \in SUBSET PendingOf(BriefOf[a], "run_full_study") : Hold(r, v, rows)
    <3> DEFINE pending == PendingOf(BriefOf[a], "run_full_study")
    <3>1. Hold(r, v, pending) \/ \E c \in pending : Hold(r, v, {c})
      BY <1>4 DEF SelectStudies
    <3>2. pending \in SUBSET pending /\ \A c \in pending : {c} \in SUBSET pending
      OBVIOUS
    <3> QED BY <3>1, <3>2, Zenon
  <2>2. UNCHANGED <<approved, actState>>
    BY <1>4 DEF SelectStudies, rowVars
  <2>3. rows \in SUBSET Actions /\ rows \cap approved = {}
    BY <2>1 DEF PendingOf, ApprovedIsFinal
  <2>4. \A c \in approved : actState'[c] = actState[c]
    BY <2>2
  <2> QED BY <2>1, <2>2, <2>3, <2>4, HoldKeeps
<1>5. ASSUME NEW r \in Responders, NEW b \in Actions, NEW v \in Verdict,
             ClickBacktest(r, BriefOf[b], v)
      PROVE  ApprovedIsFinal'
  <2>1. PICK a \in Actions :
          /\ Hold(r, v, {a})
          /\ \/ a \in PendingOf(BriefOf[b], "run_backtest") /\ UNCHANGED actState
             \/ InsertBriefAction(a)
    <3> DEFINE pending == PendingOf(BriefOf[b], "run_backtest")
    <3>1. \/ \E a \in pending : Hold(r, v, {a}) /\ UNCHANGED actState
          \/ \E a \in Actions : InsertBriefAction(a) /\ Hold(r, v, {a})
      BY <1>5 DEF ClickBacktest
    <3>2. pending \subseteq Actions
      BY DEF PendingOf
    <3> QED BY <3>1, <3>2, Zenon
  <2>2. UNCHANGED approved
    BY <1>5 DEF ClickBacktest
  <2>3. actState[a] \in {"none", "pending"}
        /\ \A c \in Actions \ {a} : actState'[c] = actState[c]
    BY <2>1 DEF PendingOf, InsertBriefAction, GateTypeOK
  <2>4. a \notin approved
    BY <2>3 DEF ApprovedIsFinal
  <2>5. \A c \in approved : actState'[c] = actState[c]
    BY <2>3, <2>4 DEF GateTypeOK
  <2> QED BY <2>1, <2>2, <2>4, <2>5, HoldKeeps
<1> QED BY <1>1, <1>2, <1>3, <1>4, <1>5 DEF Answering

LEMMA ApprovedStaysFinal ==
    ASSUME GateTypeOK, ApprovedIsFinal, [GateNext]_gateVars, \A q, r \in Responders : q = r
    PROVE  ApprovedIsFinal'
<1> USE DEF GateTypeOK, ApprovedIsFinal
<1>1. ASSUME NEW a \in Actions, Propose(a) \/ Lapse(a) PROVE ApprovedIsFinal'
  BY <1>1 DEF Propose, Lapse, InsertBriefAction, answerVars
<1>2. CASE Answering
  BY <1>2, AnsweringKeepsFinal
<1>3. CASE ExpireLapsed
  BY <1>3 DEF ExpireLapsed, answerVars
<1>4. CASE HandlerStart \/ FetchAccepted \/ HandlerCrash
  BY <1>4 DEF HandlerStart, FetchAccepted, HandlerCrash, rowVars, answerVars
<1>5. ASSUME NEW a \in Actions, HandleRow(a) \/ Request(a)
      PROVE  UNCHANGED <<actState, approved, answer>>
  BY <1>5 DEF HandleRow, RejectRow, EnqueueStudy, RecordDispatch, RecordDone, CommitRaises,
              Request, BeginRequest, LeaveArtifact, RequestReturns, RequestRaises, rowVars,
              answerVars
<1>6. CASE UNCHANGED gateVars
  BY <1>6 DEF gateVars
<1> QED BY <1>1, <1>2, <1>3, <1>4, <1>5, <1>6 DEF GateNext, HandlerTick
=============================================================================
