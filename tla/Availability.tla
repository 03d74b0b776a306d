---------------------------- MODULE Availability ----------------------------
(***************************************************************************)
(* The availability policy of a daemon's LLM role (llm_clients/            *)
(* availability.py and call_llm of sensing/triage.py): the startup probe,  *)
(* the failure counter with its self-alert, the sticky fallback to the API *)
(* and its daily budget.  Calls run in worker threads, which share         *)
(* _llm_state without a lock; their outcomes are recorded on the event loop.*)
(***************************************************************************)
EXTENDS Naturals, FiniteSets

CONSTANTS
    Calls,          \* threads a scoring call can run in
    Threshold,      \* fallback_threshold
    PerDay,         \* fallback_daily_budget
    Days,           \* bound: days
    CountCap,       \* bound: consecutive failures told apart
    FallbackModes,  \* fallback of the role: "none", "api"
    MaxStops,       \* bound: restarts
    MaxStoreFaults, \* bound: failing reads and writes of ops_counters
    MaxUnresolved,  \* bound: resolutions of the global provider that raise
    MaxOvertaken    \* bound: calls between the two assignments of a fallback

ASSUME AvailabilityAssumption ==
    /\ Threshold \in Nat \ {0} /\ PerDay \in Nat /\ Days \in Nat \ {0}
    /\ CountCap \in Nat /\ CountCap >= Threshold
    /\ FallbackModes \subseteq {"none", "api"}
    /\ MaxStops \in Nat /\ MaxStoreFaults \in Nat
    /\ MaxUnresolved \in Nat /\ MaxOvertaken \in Nat
    /\ IsFiniteSet(Calls) /\ Calls # {}

VARIABLES
    fallback,       \* the role's mode, fixed
    up,             \* the local endpoint answers
    today,          \* UTC day
    table,          \* day -> persisted spend of the fallback budget
    running,        \* the daemon runs; it refuses to start on a dead endpoint
    engaged,        \* _llm_state["used_fallback"]
    llm,            \* _llm_state["llm"]: "local" or "api"
    consecutive, alerted,       \* AvailabilityCounter
    spent, spentDay,            \* DailyFallbackBudget, day 0 before the first use
    call,           \* thread -> what its call is doing
    billed,         \* history: day -> fallback calls that burnt the budget
    unmetered,      \* history: calls of the API that did not
    overtaken,      \* history: calls that passed between the two assignments
    stops, storeFaults, unresolved  \* history

countVars == <<consecutive, alerted>>
budgetVars == <<table, spent, spentDay, billed, storeFaults>>
stateVars == <<engaged, llm, unresolved>>      \* what engages the fallback
passVars == <<unmetered, overtaken>>
worldVars == <<fallback, up, today, running, stops>>
availVars == <<worldVars, stateVars, passVars, countVars, budgetVars, call>>

Day == 1..Days

\* resolve_role_llm_with_fallback: the probe of a starting daemon.
Started == /\ running' = (up \/ fallback = "api")
           /\ engaged' = (~up /\ fallback = "api")
           /\ llm' = IF ~up /\ fallback = "api" THEN "api" ELSE "local"

\* The memory of a new process.
Fresh == /\ consecutive' = 0 /\ alerted' = FALSE
         /\ spent' = 0 /\ spentDay' = 0
         /\ call' = [c \in Calls |-> "free"]

AvailInit ==
    /\ fallback \in FallbackModes /\ up \in BOOLEAN /\ today = 1
    /\ table = [d \in Day |-> 0] /\ billed = [d \in Day |-> 0]
    /\ running = (up \/ fallback = "api") /\ engaged = (~up /\ fallback = "api")
    /\ llm = (IF ~up /\ fallback = "api" THEN "api" ELSE "local")
    /\ consecutive = 0 /\ alerted = FALSE
    /\ spent = 0 /\ spentDay = 0
    /\ call = [c \in Calls |-> "free"]
    /\ unmetered = 0 /\ overtaken = 0
    /\ stops = 0 /\ storeFaults = 0 /\ unresolved = 0
-----------------------------------------------------------------------------
\* Wrong: the counter may have gone past the threshold when it is looked at.
AtThreshold == consecutive = Threshold

ThresholdReached == consecutive >= Threshold

\* call_llm: after enough consecutive failures ...
CheckThreshold(c) ==
    /\ running /\ call[c] = "free"
    /\ call' = [call EXCEPT ![c] = IF ~engaged /\ fallback = "api" /\ ThresholdReached
                                   THEN "resolve" ELSE "check"]
    /\ UNCHANGED <<worldVars, stateVars, passVars, countVars, budgetVars>>

\* ... the role is resolved to the API, which may raise into the scorer, ...
ResolveGlobal(c) ==
    /\ call[c] = "resolve"
    /\ \/ /\ llm' = "api" /\ call' = [call EXCEPT ![c] = "stick"]
          /\ UNCHANGED unresolved
       \/ /\ unresolved < MaxUnresolved /\ unresolved' = unresolved + 1
          /\ call' = [call EXCEPT ![c] = "failed"]
          /\ UNCHANGED llm
    /\ UNCHANGED <<worldVars, engaged, passVars, countVars, budgetVars>>

\* ... for the rest of the process's life.
Stick(c) ==
    /\ call[c] = "stick" /\ engaged' = TRUE
    /\ call' = [call EXCEPT ![c] = "check"]
    /\ UNCHANGED <<worldVars, llm, unresolved, passVars, countVars, budgetVars>>

\* A call of the fallback burns the budget first, unless another thread is
\* between its two assignments: then this one does not see used_fallback.
CheckSticky(c) ==
    /\ call[c] = "check"
    /\ call' = [call EXCEPT ![c] = IF engaged THEN "budget" ELSE "invoke"]
    /\ overtaken' = IF ~engaged /\ llm = "api" THEN overtaken + 1 ELSE overtaken
    /\ overtaken' <= MaxOvertaken
    /\ UNCHANGED <<worldVars, stateVars, unmetered, countVars, budgetVars>>

\* The endpoint is looked up again when it is called.
Invoke(c) ==
    /\ call[c] \in {"invoke", "paid"}
    /\ unmetered' = IF call[c] = "invoke" /\ llm = "api" THEN unmetered + 1 ELSE unmetered
    /\ call' = [call EXCEPT ![c] = llm]
    /\ UNCHANGED <<worldVars, stateVars, overtaken, countVars, budgetVars>>

\* Wrong: a new process or a new day starts from nothing.
SpentInMemory(readOk) == IF spentDay = today THEN spent ELSE 0

\* What the budget believes was spent today.
SpentToday(readOk) ==
    IF spentDay = today THEN spent ELSE IF readOk THEN table[today] ELSE 0

\* try_consume, under its lock: the first use of a day reads the table; a
\* failing read counts as nothing spent, a failing write is swallowed.
TryConsume(c) ==
    /\ call[c] = "budget"
    /\ \E readOk, writeOk \in BOOLEAN :
         LET faulty == (IF readOk THEN 0 ELSE 1) + (IF writeOk THEN 0 ELSE 1)
             before == SpentToday(readOk)
         IN  /\ readOk \/ spentDay # today
             /\ writeOk \/ before < PerDay
             /\ storeFaults + faulty <= MaxStoreFaults
             /\ storeFaults' = storeFaults + faulty
             /\ spentDay' = today
             /\ \/ /\ before >= PerDay /\ spent' = before
                   /\ call' = [call EXCEPT ![c] = "failed"]
                   /\ UNCHANGED <<table, billed>>
                \/ /\ before < PerDay /\ spent' = before + 1
                   /\ table' = IF writeOk THEN [table EXCEPT ![today] = @ + 1] ELSE table
                   /\ billed' = [billed EXCEPT ![today] = @ + 1]
                   /\ call' = [call EXCEPT ![c] = "paid"]
    /\ UNCHANGED <<worldVars, stateVars, passVars, countVars>>

\* The endpoint, or the API, answers or not.
Answered(c) ==
    /\ \/ call[c] = "local" /\ call' = [call EXCEPT ![c] = IF up THEN "ok" ELSE "failed"]
       \/ call[c] = "api" /\ \E r \in {"ok", "failed"} : call' = [call EXCEPT ![c] = r]
    /\ UNCHANGED <<worldVars, stateVars, passVars, countVars, budgetVars>>

\* record_failure: the latch is set under the lock, the alert goes out after it.
RecordFailure(c) ==
    /\ call[c] = "failed"
    /\ consecutive' = IF consecutive < CountCap THEN consecutive + 1 ELSE consecutive
    /\ alerted' = (alerted \/ consecutive' >= Threshold)
    /\ call' = [call EXCEPT ![c] = "free"]
    /\ UNCHANGED <<worldVars, stateVars, passVars, budgetVars>>

\* record_success: the run ends and the alert is armed again.
RecordSuccess(c) ==
    /\ call[c] = "ok"
    /\ consecutive' = 0 /\ alerted' = FALSE
    /\ call' = [call EXCEPT ![c] = "free"]
    /\ UNCHANGED <<worldVars, stateVars, passVars, budgetVars>>

\* The process ends; systemd starts it again, as often as the probe fails.
StopDaemon ==
    /\ running /\ stops < MaxStops /\ stops' = stops + 1
    /\ Fresh /\ Started
    /\ UNCHANGED <<fallback, up, today, table, billed, storeFaults, passVars, unresolved>>

Retry ==
    /\ ~running /\ up /\ Started /\ Fresh
    /\ UNCHANGED <<fallback, up, today, table, billed, storeFaults, passVars, unresolved, stops>>

EndpointFlips ==
    /\ up' = ~up
    /\ UNCHANGED <<fallback, today, running, stops, stateVars, passVars, countVars, budgetVars, call>>

NewUtcDay ==
    /\ today < Days /\ today' = today + 1
    /\ UNCHANGED <<fallback, up, running, stops, stateVars, passVars, countVars, budgetVars, call>>

ScoringCall(c) ==
    \/ CheckThreshold(c) \/ ResolveGlobal(c) \/ Stick(c) \/ CheckSticky(c)
    \/ TryConsume(c) \/ Invoke(c) \/ Answered(c)
    \/ RecordFailure(c) \/ RecordSuccess(c)

AvailNext ==
    \/ \E c \in Calls : ScoringCall(c)
    \/ StopDaemon \/ Retry \/ EndpointFlips \/ NewUtcDay

\* Entries keep coming, every call returns, systemd keeps restarting.
AvailSpec == /\ AvailInit /\ [][AvailNext]_availVars
             /\ \A c \in Calls : WF_availVars(ScoringCall(c))
             /\ WF_availVars(Retry)
-----------------------------------------------------------------------------
\* The budget of a day is hard: threads, midnights and restarts do not stretch
\* it, only a counter that could not be read or written does, by one budget for
\* each fault.  What reaches the API without burning it are the calls that a
\* process may have under way, or lets pass between its two assignments, when
\* the role moves to the API.
FallbackWithinBudget ==
    /\ \A d \in Day : billed[d] <= PerDay * (1 + storeFaults)
    /\ unmetered <= (Cardinality(Calls) - 1) * (1 + stops) + overtaken

\* With fallback=api an endpoint that stays dead does not keep the events
\* unscored: the role moves to the API.
OutageEngages ==
    (fallback = "api" /\ []~up /\ running) ~> (engaged \/ stops = MaxStops)
=============================================================================
