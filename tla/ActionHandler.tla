---------------------------- MODULE ActionHandler ---------------------------
(***************************************************************************)
(* The approval gate: the brief_actions table, those who answer it (the    *)
(* Telegram bot, `forge alert`, the dashboard and `forge deepdive`) and    *)
(* the action handler that consumes it.                                    *)
(*                                                                         *)
(* An answer is a SELECT of the pending rows followed by one UPDATE per    *)
(* row, each committed, none of them looking at the state it overwrites;   *)
(* the handler works on the rows it fetched at the start of its tick.      *)
(***************************************************************************)
EXTENDS QueueStore

CONSTANTS Kind,        \* action_type of each row
          BriefOf,     \* brief_id of each row
          Malformed,   \* rows that cannot be served: brief without event or runs, no ticker
          Bots,        \* responders that are the Telegram bot
          Consoles,    \* responders that are `forge alert`
          MaxArtifacts, \* bound: briefs or backtests made for one row
          MaxHandlerFaults \* bound: handler crashes and failing commits

Kinds == {"run_full_study", "run_backtest", "refine_brief"}
Responders == Bots \cup Consoles

ASSUME ActionAssumption ==
    /\ Actions \subseteq Nat \ {0}
    /\ Kind \in [Actions -> Kinds]
    /\ Malformed \subseteq Actions
    /\ DOMAIN BriefOf = Actions
    /\ Bots \cap Consoles = {}
    /\ MaxArtifacts \in Nat
    /\ MaxHandlerFaults \in Nat

VARIABLES actState,   \* state
          actJob,     \* result_job_id (0 is NULL)
          actDone,    \* result_backtest_id, or result_brief_id of a refinement, set
          actError,   \* error is set
          artifacts,  \* requests that left rows or a study for the row
          spoilt,     \* history: those of them that raised all the same
          lapsed,     \* rows whose expires_at has passed
          approved,   \* history: rows that were ever accepted
          answer,     \* per responder: the rows selected and not yet updated
          hpc,        \* where the handler's tick is
          hrows,      \* rows fetched by the tick and not yet handled
          hjob,       \* job inserted for the row in hand (0 if none)
          hfaults

answerVars == <<answer>>
handlerVars == <<hpc, hrows, hjob, hfaults>>
rowVars == <<actState, actJob, actDone, actError, artifacts, spoilt, lapsed, approved>>
gateVars == <<jobs, actResult, actState, actJob, actDone, actError, artifacts, spoilt,
              lapsed, approved, answer, hpc, hrows, hjob, hfaults>>

ActionState == {"none", "pending", "accepted", "declined", "expired"}
Verdict == {"accepted", "declined"}
NoAnswer == [verdict |-> "accepted", rows |-> {}]

GateInit ==
    /\ jobs = EmptyQueue
    /\ actResult = [a \in Actions |-> 0]
    /\ actState = [a \in Actions |-> "none"]
    /\ actJob = [a \in Actions |-> 0]
    /\ actDone = [a \in Actions |-> FALSE]
    /\ actError = [a \in Actions |-> FALSE]
    /\ artifacts = [a \in Actions |-> 0]
    /\ spoilt = [a \in Actions |-> 0]
    /\ lapsed = {}
    /\ approved = {}
    /\ answer = [r \in Responders |-> NoAnswer]
    /\ hpc = "down"
    /\ hrows = {}
    /\ hjob = 0
    /\ hfaults = 0

Lowest(S, a) == a \in S /\ \A b \in S : a <= b
-----------------------------------------------------------------------------
(***************************************************************************)
(* Rows appear and are answered.                                           *)
(***************************************************************************)

\* store.insert_brief_action
InsertBriefAction(a) ==
    /\ actState[a] = "none"
    /\ actState' = [actState EXCEPT ![a] = "pending"]

\* A light alert asks for a study, a delivered brief offers a backtest.
Propose(a) ==
    /\ Kind[a] # "refine_brief"
    /\ InsertBriefAction(a)
    /\ UNCHANGED <<jobs, actResult, actJob, actDone, actError, artifacts, spoilt, lapsed,
                   approved, answerVars, handlerVars>>

\* expires_at passes; only a pending row is ever compared with it.
Lapse(a) ==
    /\ actState[a] = "pending"
    /\ a \notin lapsed
    /\ lapsed' = lapsed \cup {a}
    /\ UNCHANGED <<jobs, actResult, actState, actJob, actDone, actError, artifacts, spoilt,
                   approved, answerVars, handlerVars>>

\* Wrong: every row of the brief, answered or not.
RowsOf(b, kind) ==
    {a \in Actions : BriefOf[a] = b /\ Kind[a] = kind /\ actState[a] # "none"}

PendingOf(b, kind) ==
    {a \in Actions : BriefOf[a] = b /\ Kind[a] = kind /\ actState[a] = "pending"}

Hold(r, verdict, rows) ==
    /\ answer[r].rows = {}
    /\ answer' = [answer EXCEPT ![r] = [verdict |-> verdict, rows |-> rows]]

\* _apply_run_full_study and `forge alert` _transition, the SELECT: one
\* ticker of a light brief or all of them.  The bot dismisses only all.
SelectStudies(r, b, verdict) ==
    LET pending == PendingOf(b, "run_full_study") IN
    /\ pending # {}
    /\ \/ Hold(r, verdict, pending)
       \/ \E a \in pending :
             (r \in Bots => verdict = "accepted") /\ Hold(r, verdict, {a})
    /\ UNCHANGED <<jobs, actResult, rowVars, handlerVars>>

\* handle_callback of another action type: the newest pending row of the
\* brief, or a new one.
ClickBacktest(r, b, verdict) ==
    LET pending == PendingOf(b, "run_backtest") IN
    /\ r \in Bots
    /\ \/ \E a \in pending : /\ \A c \in pending : c <= a
                             /\ Hold(r, verdict, {a})
                             /\ UNCHANGED actState
       \/ \E a \in Actions : /\ pending = {}
                             /\ Kind[a] = "run_backtest" /\ BriefOf[a] = b
                             /\ InsertBriefAction(a)
                             /\ Hold(r, verdict, {a})
    /\ UNCHANGED <<jobs, actResult, actJob, actDone, actError, artifacts, spoilt, lapsed,
                   approved, handlerVars>>

\* submit_backtest, submit_refinement, handle_message, `forge deepdive`:
\* insert a row, then accept it.
Submit(r, a) ==
    /\ Kind[a] # "run_full_study"
    /\ InsertBriefAction(a)
    /\ Hold(r, "accepted", {a})
    /\ UNCHANGED <<jobs, actResult, actJob, actDone, actError, artifacts, spoilt, lapsed,
                   approved, handlerVars>>

\* store.update_action_state: by action_id alone.
UpdateActionState(r) ==
    \E a \in Actions :
        /\ Lowest(answer[r].rows, a)
        /\ actState' = [actState EXCEPT ![a] = answer[r].verdict]
        /\ approved' = IF answer[r].verdict = "accepted"
                       THEN approved \cup {a} ELSE approved
        /\ LET rest == answer[r].rows \ {a} IN
           answer' = [answer EXCEPT ![r] =
                         IF rest = {} THEN NoAnswer ELSE [@ EXCEPT !.rows = rest]]
        /\ UNCHANGED <<jobs, actResult, actJob, actDone, actError, artifacts, spoilt, lapsed,
                       handlerVars>>

\* The responder dies between two of its commits.
ResponderGone(r) ==
    /\ answer[r].rows # {}
    /\ answer' = [answer EXCEPT ![r] = NoAnswer]
    /\ UNCHANGED <<jobs, actResult, rowVars, handlerVars>>
-----------------------------------------------------------------------------
(***************************************************************************)
(* The handler: one tick every few seconds.                                *)
(***************************************************************************)
HandlerStart ==
    /\ hpc = "down"
    /\ hpc' = "idle"
    /\ UNCHANGED <<jobs, actResult, rowVars, answerVars, hrows, hjob, hfaults>>

\* Wrong: a state the schema does not list.
ExpireAsLapsed ==
    /\ hpc = "idle"
    /\ actState' = [a \in Actions |->
                      IF actState[a] = "pending" /\ a \in lapsed
                      THEN "lapsed" ELSE actState[a]]
    /\ hpc' = "fetch"
    /\ UNCHANGED <<jobs, actResult, actJob, actDone, actError, artifacts, spoilt, lapsed,
                   approved, answerVars, hrows, hjob, hfaults>>

\* Wrong: the UPDATE is not committed.
ExpireNothing ==
    /\ hpc = "idle"
    /\ hpc' = "fetch"
    /\ UNCHANGED <<jobs, actResult, rowVars, answerVars, hrows, hjob, hfaults>>

\* store.expire_lapsed_actions
ExpireLapsed ==
    /\ hpc = "idle"
    /\ actState' = [a \in Actions |->
                      IF actState[a] = "pending" /\ a \in lapsed
                      THEN "expired" ELSE actState[a]]
    /\ hpc' = "fetch"
    /\ UNCHANGED <<jobs, actResult, actJob, actDone, actError, artifacts, spoilt, lapsed,
                   approved, answerVars, hrows, hjob, hfaults>>

\* Wrong: state = 'accepted' is missing.
UndispatchedOfAnyState ==
    {a \in Actions : /\ actState[a] # "none"
                     /\ ~actDone[a] /\ actResult[a] = 0 /\ actJob[a] = 0
                     /\ ~actError[a]}

\* Wrong: result_job_id IS NULL is missing.
AcceptedWithoutResult ==
    {a \in Actions : /\ actState[a] = "accepted"
                     /\ ~actDone[a] /\ actResult[a] = 0 /\ ~actError[a]}

AcceptedUndispatched ==
    {a \in Actions : /\ actState[a] = "accepted"
                     /\ ~actDone[a] /\ actResult[a] = 0 /\ actJob[a] = 0
                     /\ ~actError[a]}

FetchAccepted ==
    /\ hpc = "fetch"
    /\ hrows' = AcceptedUndispatched
    /\ hpc' = IF AcceptedUndispatched = {} THEN "idle" ELSE "dispatch"
    /\ UNCHANGED <<jobs, actResult, rowVars, answerVars, hjob, hfaults>>

\* The row in hand is finished with: the next one, or the end of the tick.
NextRow(a) ==
    /\ hrows' = hrows \ {a}
    /\ hpc' = IF hrows = {a} THEN "idle" ELSE "dispatch"

\* The brief cannot serve the request: mark_action_error.
RejectRow(a) ==
    /\ hpc = "dispatch"
    /\ Lowest(hrows, a)
    /\ a \in Malformed /\ Kind[a] # "refine_brief"
    /\ actError' = [actError EXCEPT ![a] = TRUE]
    /\ NextRow(a)
    /\ UNCHANGED <<jobs, actResult, actState, actJob, actDone, artifacts, spoilt, lapsed,
                   approved, answerVars, hjob, hfaults>>

\* run_full_study: INSERT INTO queue_jobs, committed ...
EnqueueStudy(a) ==
    /\ hpc = "dispatch"
    /\ Lowest(hrows, a)
    /\ Kind[a] = "run_full_study" /\ a \notin Malformed
    /\ \E j \in JobId : /\ NextJobId(jobs, j)
                        /\ jobs' = InsertQueueJob(jobs, j, a)
                        /\ hjob' = j
    /\ hpc' = "record"
    /\ UNCHANGED <<actResult, rowVars, answerVars, hrows, hfaults>>

\* ... then mark_action_dispatched in a commit of its own.
RecordDispatch(a) ==
    /\ hpc = "record"
    /\ Lowest(hrows, a)
    /\ Kind[a] = "run_full_study"
    /\ actJob' = [actJob EXCEPT ![a] = hjob]
    /\ hjob' = 0
    /\ NextRow(a)
    /\ UNCHANGED <<jobs, actResult, actState, actDone, actError, artifacts, spoilt, lapsed,
                   approved, answerVars, hfaults>>

\* A backtest of a usable brief or a refinement: tick() itself makes the
\* prices', the classifier's and the graph's calls, without a time-out.
BeginRequest(a) ==
    /\ hpc = "dispatch"
    /\ Lowest(hrows, a)
    /\ Kind[a] = "run_backtest" => a \notin Malformed
    /\ Kind[a] # "run_full_study"
    /\ hpc' = "request"
    /\ UNCHANGED <<jobs, actResult, rowVars, answerVars, hrows, hjob, hfaults>>

\* The first of its commits that stays: the backtests row, or the first run of
\* the refinement's study.
LeaveArtifact(a) ==
    /\ hpc = "request"
    /\ Lowest(hrows, a)
    /\ artifacts[a] < MaxArtifacts
    /\ artifacts' = [artifacts EXCEPT ![a] = @ + 1]
    /\ hpc' = "left"
    /\ UNCHANGED <<jobs, actResult, actState, actJob, actDone, actError, spoilt, lapsed,
                   approved, answerVars, hrows, hjob, hfaults>>

\* The entries are written and matured, or the refined brief is inserted.
RequestReturns(a) ==
    /\ hpc = "left"
    /\ Lowest(hrows, a)
    /\ hpc' = "record"
    /\ UNCHANGED <<jobs, actResult, rowVars, answerVars, hrows, hjob, hfaults>>

\* ... then mark_action_done.
RecordDone(a) ==
    /\ hpc = "record"
    /\ Lowest(hrows, a)
    /\ Kind[a] # "run_full_study"
    /\ actDone' = [actDone EXCEPT ![a] = TRUE]
    /\ NextRow(a)
    /\ UNCHANGED <<jobs, actResult, actState, actJob, actError, artifacts, spoilt, lapsed,
                   approved, answerVars, hjob, hfaults>>

\* Wrong: the exception ends the tick.
RequestAborts(a) ==
    /\ hpc \in {"request", "left"}
    /\ Lowest(hrows, a)
    /\ hrows' = {}
    /\ hpc' = "idle"
    /\ UNCHANGED <<jobs, actResult, rowVars, answerVars, hjob, hfaults>>

\* The LLM, the prices, the maturation or the refinement depth make a request
\* raise, before or after it left something; tick() logs it, the row stays
\* accepted and the next tick begins it again.
RequestRaises(a) ==
    /\ hpc \in {"request", "left"}
    /\ Lowest(hrows, a)
    /\ spoilt' = [spoilt EXCEPT ![a] = IF hpc = "left" THEN @ + 1 ELSE @]
    /\ NextRow(a)
    /\ UNCHANGED <<jobs, actResult, actState, actJob, actDone, actError, artifacts, lapsed,
                   approved, answerVars, hjob, hfaults>>

\* Wrong: tick() turns every exception into mark_action_error.
CommitMarksError(a) ==
    /\ hpc \in {"dispatch", "record"}
    /\ Lowest(hrows, a)
    /\ hfaults < MaxHandlerFaults
    /\ hfaults' = hfaults + 1
    /\ actError' = [actError EXCEPT ![a] = TRUE]
    /\ hjob' = 0
    /\ NextRow(a)
    /\ UNCHANGED <<jobs, actResult, actState, actJob, actDone, artifacts, spoilt, lapsed,
                   approved, answerVars>>

\* A commit fails, before the insert or between the two.
CommitRaises(a) ==
    /\ hpc \in {"dispatch", "record"}
    /\ Lowest(hrows, a)
    /\ hfaults < MaxHandlerFaults
    /\ hfaults' = hfaults + 1
    /\ hjob' = 0
    /\ NextRow(a)
    /\ UNCHANGED <<jobs, actResult, rowVars, answerVars>>

HandlerCrash ==
    /\ hpc # "down"
    /\ hfaults < MaxHandlerFaults
    /\ hfaults' = hfaults + 1
    /\ hpc' = "down"
    /\ hrows' = {}
    /\ hjob' = 0
    /\ UNCHANGED <<jobs, actResult, rowVars, answerVars>>

\* The steps the handler takes by itself ...
HandleRow(a) == \/ RejectRow(a) \/ EnqueueStudy(a) \/ RecordDispatch(a)
                \/ BeginRequest(a) \/ RecordDone(a) \/ CommitRaises(a)

HandlerTick == \/ HandlerStart \/ ExpireLapsed \/ FetchAccepted
               \/ \E a \in Actions : HandleRow(a)

\* ... and those that wait for an answer from outside, which may never come.
Request(a) == LeaveArtifact(a) \/ RequestReturns(a) \/ RequestRaises(a)

InRequest == hpc \in {"request", "left"}

Answering ==
    \/ \E r \in Responders : UpdateActionState(r) \/ ResponderGone(r)
    \/ \E r \in Responders, a \in Actions : Submit(r, a)
    \/ \E r \in Responders, a \in Actions, v \in Verdict :
          SelectStudies(r, BriefOf[a], v) \/ ClickBacktest(r, BriefOf[a], v)

GateNext ==
    \/ \E a \in Actions : Propose(a) \/ Lapse(a)
    \/ Answering
    \/ HandlerTick
    \/ \E a \in Actions : Request(a)
    \/ HandlerCrash

GateSpec == GateInit /\ [][GateNext]_gateVars

-----------------------------------------------------------------------------
(***************************************************************************)
(* Properties.                                                             *)
(***************************************************************************)
GateTypeOK ==
    /\ jobs \in [JobId -> Job]
    /\ actResult \in [Actions -> 0 .. MaxJobs]
    /\ actState \in [Actions -> ActionState]
    /\ actJob \in [Actions -> 0 .. MaxJobs]
    /\ actDone \in [Actions -> BOOLEAN]
    /\ actError \in [Actions -> BOOLEAN]
    /\ artifacts \in [Actions -> 0 .. MaxArtifacts]
    /\ spoilt \in [Actions -> Nat]
    /\ lapsed \subseteq Actions
    /\ approved \subseteq Actions
    /\ answer \in [Responders -> [verdict : Verdict, rows : SUBSET Actions]]
    /\ hpc \in {"down", "idle", "fetch", "dispatch", "request", "left", "record"}
    /\ hrows \subseteq Actions
    /\ hjob \in 0 .. MaxJobs
    /\ hfaults \in 0 .. MaxHandlerFaults

JobsOf(a) == {j \in JobId : jobs[j].state # "none" /\ jobs[j].action = a}

\* The gate: no study is queued for a row that nobody ever accepted, whatever
\* is answered, expired or crashed meanwhile.
NoStudyWithoutApproval ==
    \A a \in Actions : JobsOf(a) # {} => a \in approved

\* A row yields one study, backtest or refinement: ticks, repeated answers
\* and failing neighbours make no second one.  A study is repeated only by a
\* fault between the two commits of its dispatch; a backtest or refinement
\* also by each of its own requests that raised after it left something.
DuplicatesNeedFaults ==
    \A a \in Actions : /\ Cardinality(JobsOf(a)) <= 1 + hfaults
                       /\ artifacts[a] <= 1 + hfaults + spoilt[a]

\* The job recorded on a row is a job of that row, and a row set to error
\* never got one.
DispatchIsConsistent ==
    \A a \in Actions :
        /\ actJob[a] # 0 => actJob[a] \in JobsOf(a)
        /\ actError[a] => (JobsOf(a) = {} /\ artifacts[a] = 0)

\* With one responder at work, what was declined is never studied.
DeclinedNeverStudied ==
    \A a \in Actions : actState[a] = "declined" => JobsOf(a) = {}

\* What the action handler says of itself: idempotent by construction, so a
\* row is dispatched once.
AtMostOneStudy == \A a \in Actions : Cardinality(JobsOf(a)) <= 1

\* A study that was accepted for a usable brief is eventually queued, or its
\* acceptance withdrawn: rows that fail for ever do not hold up the others.
\* Only a request that never returns does, and with it all rows behind it.
AcceptedIsEnqueued ==
    \A a \in Actions : (Kind[a] = "run_full_study" /\ a \notin Malformed) =>
        (actState[a] = "accepted" ~>
            (JobsOf(a) # {} \/ actState[a] # "accepted" \/ []InRequest))

\* A row nobody answers does not stay open for ever, unless a request hangs.
LapsedIsClosed ==
    \A a \in Actions :
        (actState[a] = "pending" /\ a \in lapsed) ~> (actState[a] # "pending" \/ []InRequest)
=============================================================================
