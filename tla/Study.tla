------------------------------- MODULE Study --------------------------------
(***************************************************************************)
(* One study: TradingAgentsGraph.propagate walks the agent graph, the Run  *)
(* Recorder writes its row, and, when checkpoints are on, every node leaves*)
(* a checkpoint under the thread of the ticker and the date, which the     *)
(* runs of a committee share.  A walk is what a checkpoint holds of it:    *)
(* the node to execute next, the state the conditional edges look at, and  *)
(* the plans.  invoke is always given an initial state, so every walk      *)
(* begins at START; of a checkpoint it keeps what that state leaves out.   *)
(***************************************************************************)
EXTENDS Naturals, Sequences

CONSTANTS
    Runs,           \* runs of the same ticker and date: the committee's personas
    Plans,          \* selected_analysts to try
    Rounds,         \* max_debate_rounds
    RiskRounds,     \* max_risk_discuss_rounds
    RecurLimit,     \* max_recur_limit
    Checkpointing,  \* values of checkpoint_enabled to try
    MaxAttempts     \* bound: calls of propagate per run

AnalystKeys == {"market", "social", "news", "fundamentals", "derivatives"}

ASSUME StudyAssumption ==
    /\ Rounds \in Nat \ {0} /\ RiskRounds \in Nat \ {0}
    /\ RecurLimit \in Nat \ {0} /\ MaxAttempts \in Nat
    /\ Plans \subseteq Seq(AnalystKeys) \ {<<>>}
    /\ Checkpointing \subseteq BOOLEAN

VARIABLES
    plan,           \* the selected analysts, fixed
    checkpoints,    \* checkpoint_enabled, fixed
    walk,           \* run -> its walk, or NoWalk
    steps,          \* run -> nodes executed by the current attempt
    attempts,       \* run -> calls of propagate
    status,         \* run -> runs.status of the current attempt's row
    recorded,       \* run -> the walk its complete row was written from
    saved           \* the latest checkpoint of the thread, or NoWalk

studyVars == <<plan, checkpoints, walk, steps, attempts, status, recorded, saved>>

NoWalk == [node |-> "none"]

\* create_initial_state, at START.  The plans are not part of it: stale holds
\* those that an earlier walk left in the thread and this one has not rewritten.
InitialWalk ==
    [node |-> "analyst", k |-> 1, calls |-> FALSE, reports |-> {},
     bull |-> 0, bear |-> 0, debate |-> 0, current |-> "",
     aggressive |-> 0, conservative |-> 0, neutral |-> 0, risk |-> 0, latest |-> "",
     plans |-> {}, stale |-> {}]

StudyInit ==
    /\ plan \in Plans /\ checkpoints \in Checkpointing
    /\ walk = [r \in Runs |-> NoWalk] /\ recorded = [r \in Runs |-> NoWalk]
    /\ steps = [r \in Runs |-> 0] /\ attempts = [r \in Runs |-> 0]
    /\ status = [r \in Runs |-> "none"]
    /\ saved = NoWalk

At(r, node) == walk[r].node = node
AtAnalyst(r, key) == At(r, "analyst") /\ plan[walk[r].k] = key
-----------------------------------------------------------------------------
\* The plans a checkpoint of the thread holds, whosever they are.
PlansLeft == IF saved = NoWalk THEN {} ELSE saved.plans \cup saved.stale

\* propagate and _run_graph up to the graph: a new row; invoke writes the
\* initial state over the thread's checkpoint, when there is one.
StartRun(r) ==
    /\ At(r, "none") /\ attempts[r] < MaxAttempts
    /\ attempts' = [attempts EXCEPT ![r] = @ + 1]
    /\ status' = [status EXCEPT ![r] = "running"]
    /\ steps' = [steps EXCEPT ![r] = 0]
    /\ LET w == [InitialWalk EXCEPT !.stale = PlansLeft]
       IN  /\ walk' = [walk EXCEPT ![r] = w]
           /\ saved' = IF checkpoints THEN w ELSE saved
    /\ UNCHANGED <<plan, checkpoints, recorded>>

\* The limit of the Pregel loop: nodes are left and no step is.
OutOfSteps(r) == steps[r] = RecurLimit

\* One node returns; the saver writes what the next one starts from.
Goes(r, w) ==
    /\ ~OutOfSteps(r)
    /\ walk' = [walk EXCEPT ![r] = w]
    /\ steps' = [steps EXCEPT ![r] = @ + 1]
    /\ saved' = IF checkpoints THEN w ELSE saved
    /\ UNCHANGED <<plan, checkpoints, attempts>>

NodeReturns(r, w) == Goes(r, w) /\ UNCHANGED <<status, recorded>>
-----------------------------------------------------------------------------
(* The analysts, one after the other. *)

\* should_continue_<key>: the last message decides.
AfterAnalyst(calls) == IF calls THEN "tools" ELSE "clear"

\* An analyst with tools: an empty report as long as it asks for tools.
ToolTurn(r) ==
    \E calls \in BOOLEAN :
        LET w == walk[r]
        IN  NodeReturns(r, [w EXCEPT !.node = AfterAnalyst(calls), !.calls = calls,
                                     !.reports = IF calls THEN @ \ {w.k} ELSE @ \cup {w.k}])

MarketAnalyst(r) == AtAnalyst(r, "market") /\ ToolTurn(r)
NewsAnalyst(r) == AtAnalyst(r, "news") /\ ToolTurn(r)
FundamentalsAnalyst(r) == AtAnalyst(r, "fundamentals") /\ ToolTurn(r)
DerivativeAnalyst(r) == AtAnalyst(r, "derivatives") /\ ToolTurn(r)

\* The sentiment analyst has its data in the prompt and no tools.
SentimentAnalyst(r) ==
    /\ AtAnalyst(r, "social")
    /\ LET w == walk[r]
       IN  NodeReturns(r, [w EXCEPT !.node = AfterAnalyst(FALSE), !.calls = FALSE,
                                    !.reports = @ \cup {w.k}])

\* The tool node answers the calls; the analyst has the turn again.
ToolNode(r) ==
    /\ At(r, "tools")
    /\ NodeReturns(r, [walk[r] EXCEPT !.node = "analyst", !.calls = FALSE])

\* create_msg_delete; then the next analyst, or the first researcher.
MsgClear(r) ==
    /\ At(r, "clear")
    /\ LET w == walk[r]
       IN  NodeReturns(r, IF w.k < Len(plan)
                          THEN [w EXCEPT !.node = "analyst", !.k = @ + 1]
                          ELSE [w EXCEPT !.node = "bull"])
-----------------------------------------------------------------------------
(* The two debates. *)

\* Wrong: turns are counted as rounds.
DebateByTurns(count, current) ==
    IF count >= Rounds THEN "manager"
    ELSE IF current = "Bull" THEN "bear" ELSE "bull"

\* should_continue_debate
ContinueDebate(count, current) ==
    IF count >= 2 * Rounds THEN "manager"
    ELSE IF current = "Bull" THEN "bear" ELSE "bull"

\* should_continue_risk_analysis
ContinueRisk(count, latest) ==
    IF count >= 3 * RiskRounds THEN "pm"
    ELSE IF latest = "Aggressive" THEN "conservative"
    ELSE IF latest = "Conservative" THEN "neutral" ELSE "aggressive"

BullResearcher(r) ==
    /\ At(r, "bull")
    /\ LET w == walk[r]
       IN  NodeReturns(r, [w EXCEPT !.bull = @ + 1, !.debate = @ + 1, !.current = "Bull",
                                    !.node = ContinueDebate(w.debate + 1, "Bull")])

BearResearcher(r) ==
    /\ At(r, "bear")
    /\ LET w == walk[r]
       IN  NodeReturns(r, [w EXCEPT !.bear = @ + 1, !.debate = @ + 1, !.current = "Bear",
                                    !.node = ContinueDebate(w.debate + 1, "Bear")])

ResearchManager(r) ==
    /\ At(r, "manager")
    /\ NodeReturns(r, [walk[r] EXCEPT !.current = "Manager", !.plans = @ \cup {"investment"},
                                      !.stale = @ \ {"investment"}, !.node = "trader"])

Trader(r) ==
    /\ At(r, "trader")
    /\ NodeReturns(r, [walk[r] EXCEPT !.plans = @ \cup {"trade"}, !.stale = @ \ {"trade"},
                                      !.node = "aggressive"])

AggressiveDebator(r) ==
    /\ At(r, "aggressive")
    /\ LET w == walk[r]
       IN  NodeReturns(r, [w EXCEPT !.aggressive = @ + 1, !.risk = @ + 1,
                                    !.latest = "Aggressive",
                                    !.node = ContinueRisk(w.risk + 1, "Aggressive")])

ConservativeDebator(r) ==
    /\ At(r, "conservative")
    /\ LET w == walk[r]
       IN  NodeReturns(r, [w EXCEPT !.conservative = @ + 1, !.risk = @ + 1,
                                    !.latest = "Conservative",
                                    !.node = ContinueRisk(w.risk + 1, "Conservative")])

NeutralDebator(r) ==
    /\ At(r, "neutral")
    /\ LET w == walk[r]
       IN  NodeReturns(r, [w EXCEPT !.neutral = @ + 1, !.risk = @ + 1,
                                    !.latest = "Neutral",
                                    !.node = ContinueRisk(w.risk + 1, "Neutral")])

PortfolioManager(r) ==
    /\ At(r, "pm")
    /\ NodeReturns(r, [walk[r] EXCEPT !.latest = "Judge", !.plans = @ \cup {"decision"},
                                      !.stale = @ \ {"decision"}, !.node = "recorder"])

\* RunRecorder.record: artifacts, costs, then the row is complete.
RunRecorder(r) ==
    /\ At(r, "recorder")
    /\ Goes(r, [walk[r] EXCEPT !.node = "end"])
    /\ status' = [status EXCEPT ![r] = "complete"]
    /\ recorded' = [recorded EXCEPT ![r] = walk[r]]
-----------------------------------------------------------------------------
\* The end of _run_graph: clear_checkpoint deletes the thread's rows, unless
\* the database is locked.
Finish(r) ==
    /\ At(r, "end")
    /\ walk' = [walk EXCEPT ![r] = NoWalk]
    /\ saved' \in {NoWalk, saved}
    /\ UNCHANGED <<plan, checkpoints, steps, attempts, status, recorded>>

\* A node raises, or the process dies: the row stays as it is, the checkpoint too.
Breaks(r) ==
    /\ walk[r] # NoWalk
    /\ walk' = [walk EXCEPT ![r] = NoWalk]
    /\ UNCHANGED <<plan, checkpoints, steps, attempts, status, recorded, saved>>

RecursionError(r) == OutOfSteps(r) /\ ~At(r, "end") /\ Breaks(r)

Walk(r) ==
    \/ MarketAnalyst(r) \/ SentimentAnalyst(r) \/ NewsAnalyst(r)
    \/ FundamentalsAnalyst(r) \/ DerivativeAnalyst(r) \/ ToolNode(r) \/ MsgClear(r)
    \/ BullResearcher(r) \/ BearResearcher(r) \/ ResearchManager(r) \/ Trader(r)
    \/ AggressiveDebator(r) \/ ConservativeDebator(r) \/ NeutralDebator(r)
    \/ PortfolioManager(r) \/ RunRecorder(r) \/ Finish(r) \/ RecursionError(r)

\* No attempt is left.
StudyOver ==
    /\ \A r \in Runs : At(r, "none") /\ attempts[r] = MaxAttempts
    /\ UNCHANGED studyVars

StudyNext == (\E r \in Runs : StartRun(r) \/ Walk(r) \/ Breaks(r)) \/ StudyOver

StudySpec == StudyInit /\ [][StudyNext]_studyVars
-----------------------------------------------------------------------------
\* A complete row tells of a whole study, whatever crashed before it and
\* whosever checkpoint its thread held: every selected analyst reported, both
\* debates gave every side its rounds, and the three plans were written by
\* this walk, none left over from another.
RecordIsWhole ==
    \A r \in Runs : status[r] = "complete" =>
        LET w == recorded[r]
        IN  /\ w.reports = DOMAIN plan
            /\ w.bull = Rounds /\ w.bear = Rounds
            /\ w.aggressive = RiskRounds /\ w.conservative = RiskRounds
            /\ w.neutral = RiskRounds
            /\ w.plans = {"investment", "trade", "decision"} /\ w.stale = {}
=============================================================================
