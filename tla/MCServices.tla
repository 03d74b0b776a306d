---------------------------- MODULE MCServices -----------------------------
(***************************************************************************)
(* Small instances of the components that share no state with each other,  *)
(* each explored by itself: part, fixed from the start, names the one that *)
(* moves, the others stay in one of their initial states.                  *)
(***************************************************************************)
EXTENDS Sensing, Watchlist, Availability, Study, Delivery, DecisionLog, Backtest, TLC

CONSTANTS
    Parts,          \* the components to explore
    Streams         \* the streams that triage is explored on

VARIABLE part       \* the component that moves, fixed

servicesVars == <<part, sensingVars, listVars, availVars, studyVars, deliveryVars,
                  logVars, backtestVars>>

Still(p, vars) == IF part = p THEN TRUE ELSE UNCHANGED vars
Alone(p) ==
    /\ part = p /\ UNCHANGED part
    /\ IF part \in {"triage", "adapters", "sensing"} THEN TRUE ELSE UNCHANGED sensingVars
    /\ Still("watchlist", listVars) /\ Still("availability", availVars)
    /\ Still("study", studyVars) /\ Still("delivery", deliveryVars)
    /\ Still("log", logVars) /\ Still("backtest", backtestVars)

ServicesInit ==
    /\ part \in Parts
    /\ SensingInit /\ WatchlistInit /\ AvailInit /\ StudyInit /\ DeliveryInit
    /\ DecisionLogInit /\ BacktestInit
    /\ part \in {"adapters", "sensing"} \/ \A s \in Sources : shape[s] = CHOOSE k \in Kinds[s] : TRUE
    /\ part = "availability" \/ (fallback = "none" /\ up)
    /\ part = "study" \/ (checkpoints /\ plan = CHOOSE p \in Plans : TRUE)
    /\ part = "delivery" \/ ~quietNow

ServicesNext ==
    \/ Alone("triage") /\ TriageNext /\ UNCHANGED adapterVars /\ stream' \in Streams
    \/ Alone("adapters") /\ AdaptersNext /\ UNCHANGED triageOnly
    \/ Alone("sensing") /\ SensingNext
    \/ Alone("watchlist") /\ WatchlistNext
    \/ Alone("availability") /\ AvailNext
    \/ Alone("study") /\ StudyNext
    \/ Alone("delivery") /\ DeliveryNext
    \/ Alone("log") /\ DecisionLogNext
    \/ Alone("backtest") /\ BacktestNext

ServicesSpec == ServicesInit /\ [][ServicesNext]_servicesVars

\* The fairness of SensingSpec, AvailSpec and BacktestSpec.
ServicesFairness ==
    /\ \A s \in Sources : WF_sensingVars(part = "sensing" /\ Poll(s) /\ UNCHANGED triageOnly)
    /\ \A c \in Consumers :
          WF_sensingVars(part = "sensing" /\ Consume(c) /\ UNCHANGED adapterVars)
    /\ \A e \in Entries :
          WF_sensingVars(/\ part = "sensing" /\ UNCHANGED adapterVars
                         /\ GoesIdle(e) \/ ReapAck(e))
    /\ \A c \in Calls : WF_availVars(part = "availability" /\ ScoringCall(c))
    /\ WF_availVars(part = "availability" /\ Retry)
    /\ \A o \in Openers :
          WF_backtestVars(part = "backtest" /\ hand[o] # Free /\ (Opening(o) \/ Mature(o)))
    /\ \A s \in Sweepers : WF_backtestVars(part = "backtest" /\ (Sweep1(s) \/ Mature(s)))
    /\ \A t \in 1..MaxBacktests : WF_backtestVars(part = "backtest" /\ WindowEnds(t))

FairServices == ServicesSpec /\ ServicesFairness
-----------------------------------------------------------------------------
\* One source, an adapter of any shape or of any that polls; the second and the
\* third item have one stamp. A cursor is its source's own.
OneFeed == [i \in Items |-> "feed"]
AnyKind == [s \in Sources |-> Shapes]
Pollers == [s \in Sources |-> Shapes \ {"push"}]
ItemStamp == [i \in Items |-> IF i = 3 THEN 2 ELSE i]
WidePage == [s \in Sources |-> 2]

\* The same text from two sources, the second time without an id; the
\* consumers take the two entries in any order.
TwinText == [i \in Items |-> "a"]
TwinExtId == [i \in Items |-> IF i = 1 THEN "x" ELSE NoId]
SameText == {<<Text[i], Text[i]>> : i \in Items}
OneThenTwo == {<<>>, <<1>>, <<1, 2>>}
ServicesSymmetry == Permutations(Consumers)

\* Distinct texts, every item with an id of its own.
OwnText == [i \in Items |-> i]
OwnId == [i \in Items |-> i]

\* Every kind of analyst in a plan, one and two in a row.
AnalystPlans == {<<"market">>, <<"social", "news">>, <<"fundamentals">>, <<"derivatives">>}
\* A backtest of two runs and one of a single run; or one run each.
TwoAndOne == <<2, 1>>
OneEach == <<1, 1>>

\* The defaults: an alert goes to telegram though only email and cli are enabled.
EmailCliTelegram == <<"email", "cli", "telegram">>
CliThenEmail == <<"cli", "email">>
OneTicker == [s \in Subjects |-> "t"]
=============================================================================
