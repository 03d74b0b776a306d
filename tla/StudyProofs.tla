---------------------------- MODULE StudyProofs -----------------------------
(***************************************************************************)
(* Proofs about Study: for every plan, number of rounds, number of runs    *)
(* that share a thread, and recursion limit, a complete row tells of a     *)
(* whole study.  The invariant says how far a walk has come at each node;  *)
(* it holds of every walk and of the checkpoint, and keeps the plans that  *)
(* a walk finds in its thread apart from those it has written.             *)
(***************************************************************************)
EXTENDS Study, DecisionLog, Backtest, SequenceTheorems, FiniteSetTheorems, TLAPS

Node == {"analyst", "tools", "clear", "bull", "bear", "manager", "trader", "aggressive",
         "conservative", "neutral", "pm", "recorder", "end"}
Speaker == {"", "Bull", "Bear", "Manager", "Aggressive", "Conservative", "Neutral", "Judge"}
AllPlans == {"investment", "trade", "decision"}

WalkState ==
    [node : Node, k : Nat, calls : BOOLEAN, reports : SUBSET Nat,
     bull : Nat, bear : Nat, debate : Nat, current : Speaker,
     aggressive : Nat, conservative : Nat, neutral : Nat, risk : Nat, latest : Speaker,
     plans : SUBSET AllPlans, stale : SUBSET AllPlans]

\* The analysts up to the one whose turn it is, then all of them.
Reported(w, p) ==
    /\ w.node \in {"analyst", "tools"} => w.k \in 1..Len(p) /\ w.reports = 1..(w.k - 1)
    /\ w.node = "clear" => w.k \in 1..Len(p) /\ w.reports = 1..w.k
    /\ w.node \notin {"analyst", "tools", "clear"} => w.reports = 1..Len(p)

\* Bull and bear take turns, from the bull on.
Debated(w) ==
    /\ w.debate = w.bull + w.bear
    /\ w.node \in {"analyst", "tools", "clear"} => w.bull = 0 /\ w.bear = 0
    /\ w.node = "bull" => w.bull = w.bear /\ w.bear < Rounds
    /\ w.node = "bear" => w.bull = w.bear + 1 /\ w.bear < Rounds
    /\ w.node \notin {"analyst", "tools", "clear", "bull", "bear"} =>
          w.bull = Rounds /\ w.bear = Rounds

\* Aggressive, conservative and neutral take turns.
RiskDebated(w) ==
    /\ w.risk = w.aggressive + w.conservative + w.neutral
    /\ w.node \in {"analyst", "tools", "clear", "bull", "bear", "manager", "trader"} =>
          w.aggressive = 0 /\ w.conservative = 0 /\ w.neutral = 0
    /\ w.node = "aggressive" =>
          /\ w.aggressive = w.neutral /\ w.conservative = w.neutral /\ w.neutral < RiskRounds
    /\ w.node = "conservative" =>
          /\ w.aggressive = w.neutral + 1 /\ w.conservative = w.neutral
          /\ w.neutral < RiskRounds
    /\ w.node = "neutral" =>
          /\ w.aggressive = w.neutral + 1 /\ w.conservative = w.neutral + 1
          /\ w.neutral < RiskRounds
    /\ w.node \in {"pm", "recorder", "end"} =>
          /\ w.aggressive = RiskRounds /\ w.conservative = RiskRounds
          /\ w.neutral = RiskRounds

\* The three plans are written one after the other, over what was left.
Planned(w) ==
    /\ w.stale \cap w.plans = {}
    /\ w.node = "trader" => w.plans = {"investment"}
    /\ w.node \in {"aggressive", "conservative", "neutral", "pm"} =>
          w.plans = {"investment", "trade"}
    /\ w.node \in {"recorder", "end"} => w.plans = AllPlans
    /\ w.node \notin {"trader", "aggressive", "conservative", "neutral", "pm", "recorder", "end"}
          => w.plans = {}

OnTrack(w, p) ==
    w \in WalkState /\ Reported(w, p) /\ Debated(w) /\ RiskDebated(w) /\ Planned(w)

Whole(w, p) ==
    /\ w.reports = DOMAIN p
    /\ w.bull = Rounds /\ w.bear = Rounds
    /\ w.aggressive = RiskRounds /\ w.conservative = RiskRounds /\ w.neutral = RiskRounds
    /\ w.plans = AllPlans /\ w.stale = {}

StudyInv ==
    /\ plan \in Seq(AnalystKeys) /\ plan # <<>>
    /\ walk \in [Runs -> {NoWalk} \cup WalkState]
    /\ recorded \in [Runs -> {NoWalk} \cup WalkState]
    /\ status \in [Runs -> {"none", "running", "complete"}]
    /\ \A r \in Runs : walk[r] # NoWalk => OnTrack(walk[r], plan)
    /\ saved # NoWalk => OnTrack(saved, plan)
    /\ \A r \in Runs : status[r] = "complete" => Whole(recorded[r], plan)
-----------------------------------------------------------------------------
LEMMA NoWalkNode == NoWalk.node = "none" /\ NoWalk.node \notin Node
BY DEF NoWalk, Node

LEMMA WalkIsSome == \A w \in WalkState : w # NoWalk
BY NoWalkNode DEF WalkState

\* A study begins with nothing reported, said or planned.
LEMMA InitialOnTrack ==
    ASSUME NEW p \in Seq(AnalystKeys), p # <<>>, NEW left \in SUBSET AllPlans,
           NEW w, w = [InitialWalk EXCEPT !.stale = left]
    PROVE  OnTrack(w, p)
<1>1. Len(p) \in Nat /\ Len(p) >= 1
  OBVIOUS
<1>2. w \in WalkState
  BY DEF InitialWalk, WalkState, Node, Speaker
<1>0. /\ w.node = "analyst" /\ w.k = 1 /\ w.reports = {} /\ w.plans = {}
      /\ w.bull = 0 /\ w.bear = 0 /\ w.debate = 0 /\ w.risk = 0
      /\ w.aggressive = 0 /\ w.conservative = 0 /\ w.neutral = 0
  BY DEF InitialWalk
<1>3. Reported(w, p)
  <2>1. w.k \in 1..Len(p) /\ 1..(w.k - 1) = {}
    BY <1>0, <1>1
  <2> QED BY <1>0, <2>1 DEF Reported
<1>4. Debated(w) /\ RiskDebated(w) /\ Planned(w)
  BY <1>0, StudyAssumption DEF Debated, RiskDebated, Planned
<1> QED BY <1>2, <1>3, <1>4 DEF OnTrack

\* At the recorder everything has been done.
LEMMA RecorderWhole ==
    ASSUME NEW p \in Seq(AnalystKeys), NEW w, OnTrack(w, p), w.node = "recorder"
    PROVE  Whole(w, p)
BY DEF OnTrack, Reported, Debated, RiskDebated, Planned, Whole, WalkState, AllPlans

LEMMA StudyInitInv == StudyInit => StudyInv
BY StudyAssumption DEF StudyInit, StudyInv
-----------------------------------------------------------------------------
(* A node that returns a walk on track. *)

LEMMA NodeKeepsInv ==
    ASSUME StudyInv, NEW r \in Runs, NEW w, OnTrack(w, plan), Goes(r, w),
           UNCHANGED <<status, recorded>>
    PROVE  StudyInv'
<1>1. w \in WalkState /\ w # NoWalk
  BY WalkIsSome DEF OnTrack
<1>2. walk' = [walk EXCEPT ![r] = w] /\ saved' \in {saved, w} /\ plan' = plan
  BY DEF Goes
<1>3. walk' \in [Runs -> {NoWalk} \cup WalkState]
  BY <1>1, <1>2 DEF StudyInv
<1>4. \A q \in Runs : walk'[q] = walk[q] \/ walk'[q] = w
  BY <1>2 DEF StudyInv
<1>5. \A q \in Runs : walk'[q] # NoWalk => OnTrack(walk'[q], plan)
  BY <1>4 DEF StudyInv
<1>6. saved' # NoWalk => OnTrack(saved', plan)
  BY <1>2 DEF StudyInv
<1> QED BY <1>2, <1>3, <1>5, <1>6 DEF StudyInv

LEMMA HereOnTrack ==
    ASSUME StudyInv, NEW r \in Runs, NEW n \in Node, At(r, n)
    PROVE  OnTrack(walk[r], plan) /\ walk[r].node = n
BY NoWalkNode DEF StudyInv, At

LEMMA AnalystStep ==
    ASSUME NEW p \in Seq(AnalystKeys), NEW w, OnTrack(w, p), w.node = "analyst",
           NEW calls \in BOOLEAN,
           NEW v, v = [w EXCEPT !.node = AfterAnalyst(calls), !.calls = calls,
                           !.reports = IF calls THEN w.reports \ {w.k}
                                       ELSE w.reports \cup {w.k}]
    PROVE  OnTrack(v, p)
<1>1. w \in WalkState /\ w.k \in 1..Len(p) /\ w.reports = 1..(w.k - 1) /\ Len(p) \in Nat
  BY DEF OnTrack, Reported
<1>2. v.node = IF calls THEN "tools" ELSE "clear"
  BY <1>1 DEF WalkState, AfterAnalyst
<1>3. v.reports = IF calls THEN 1..(w.k - 1) ELSE 1..w.k
  <2>1. v.reports = IF calls THEN w.reports \ {w.k} ELSE w.reports \cup {w.k}
    BY <1>1 DEF WalkState
  <2>2. w.reports \ {w.k} = 1..(w.k - 1) /\ w.reports \cup {w.k} = 1..w.k
    BY <1>1
  <2> QED BY <2>1, <2>2
<1>4. v \in WalkState /\ v.k = w.k
  BY <1>1 DEF WalkState, Node, AfterAnalyst
<1>5. Reported(v, p)
  BY <1>1, <1>2, <1>3, <1>4 DEF Reported
<1>6. Debated(v) /\ RiskDebated(v) /\ Planned(v)
  BY <1>1, <1>2 DEF OnTrack, WalkState, Debated, RiskDebated, Planned
<1> QED BY <1>4, <1>5, <1>6 DEF OnTrack

LEMMA ToolStep ==
    ASSUME NEW p \in Seq(AnalystKeys), NEW w, OnTrack(w, p), w.node = "tools",
           NEW v, v = [w EXCEPT !.node = "analyst", !.calls = FALSE]
    PROVE  OnTrack(v, p)
BY DEF OnTrack, WalkState, Node, Reported, Debated, RiskDebated, Planned

LEMMA ClearStep ==
    ASSUME NEW p \in Seq(AnalystKeys), NEW w, OnTrack(w, p), w.node = "clear",
           NEW v, v = IF w.k < Len(p) THEN [w EXCEPT !.node = "analyst", !.k = w.k + 1]
                      ELSE [w EXCEPT !.node = "bull"]
    PROVE  OnTrack(v, p)
<1>1. w \in WalkState /\ w.k \in 1..Len(p) /\ w.reports = 1..w.k /\ Len(p) \in Nat
  BY DEF OnTrack, Reported
<1>2. w.bull = 0 /\ w.bear = 0 /\ w.aggressive = 0 /\ w.conservative = 0 /\ w.neutral = 0
      /\ w.debate = 0 /\ w.risk = 0 /\ w.plans = {}
  BY DEF OnTrack, Debated, RiskDebated, Planned
<1>3. /\ v.reports = w.reports /\ v.bull = 0 /\ v.bear = 0 /\ v.debate = 0 /\ v.risk = 0
      /\ v.aggressive = 0 /\ v.conservative = 0 /\ v.neutral = 0 /\ v.plans = {}
      /\ v.stale = w.stale
  BY <1>1, <1>2 DEF WalkState
<1>4. CASE w.k < Len(p)
  <2>1. w.k + 1 \in Nat /\ v = [w EXCEPT !.node = "analyst", !.k = w.k + 1]
    BY <1>1, <1>4
  <2>2. v \in WalkState /\ v.node = "analyst" /\ v.k = w.k + 1
    BY <1>1, <2>1 DEF WalkState, Node
  <2>3. v.k \in 1..Len(p) /\ v.reports = 1..(v.k - 1)
    BY <1>1, <1>3, <1>4, <2>2
  <2> QED BY <1>3, <2>2, <2>3 DEF OnTrack, Reported, Debated, RiskDebated, Planned
<1>5. CASE w.k = Len(p)
  <2>1. v = [w EXCEPT !.node = "bull"]
    BY <1>1, <1>5
  <2>2. v \in WalkState /\ v.node = "bull"
    BY <1>1, <2>1 DEF WalkState, Node
  <2> QED BY <1>1, <1>3, <1>5, <2>2, StudyAssumption
          DEF OnTrack, Reported, Debated, RiskDebated, Planned
<1> QED BY <1>1, <1>4, <1>5

\* What the debaters leave alone.
SameBesides(v, w, node) ==
    /\ v \in WalkState /\ v.node = node
    /\ v.reports = w.reports /\ v.plans = w.plans /\ v.stale = w.stale

LEMMA BullStep ==
    ASSUME NEW p \in Seq(AnalystKeys), NEW w, OnTrack(w, p), w.node = "bull",
           NEW v, v = [w EXCEPT !.bull = w.bull + 1, !.debate = w.debate + 1,
                           !.current = "Bull", !.node = ContinueDebate(w.debate + 1, "Bull")]
    PROVE  OnTrack(v, p)
<1>1. w \in WalkState /\ w.bear \in Nat /\ w.bull = w.bear /\ w.bear < Rounds
      /\ w.debate = w.bear + w.bear
  BY DEF OnTrack, Debated, WalkState
<1>2. ~(w.debate + 1 >= 2 * Rounds)
  BY <1>1, StudyAssumption
<1>3. ContinueDebate(w.debate + 1, "Bull") = "bear"
  BY <1>2 DEF ContinueDebate
<1>4. w.bull + 1 \in Nat /\ w.debate + 1 \in Nat
  BY <1>1
<1>5. SameBesides(v, w, "bear") /\ v.bull = w.bear + 1 /\ v.bear = w.bear
      /\ v.debate = w.debate + 1 /\ v.risk = w.risk /\ v.aggressive = w.aggressive
      /\ v.conservative = w.conservative /\ v.neutral = w.neutral
  BY <1>1, <1>3, <1>4 DEF WalkState, Node, Speaker, SameBesides
<1>6. Reported(v, p) /\ RiskDebated(v) /\ Planned(v)
  BY <1>5 DEF OnTrack, Reported, RiskDebated, Planned, SameBesides
<1>7. Debated(v)
  BY <1>1, <1>5 DEF Debated, SameBesides
<1> QED BY <1>5, <1>6, <1>7 DEF OnTrack, SameBesides

LEMMA BearStep ==
    ASSUME NEW p \in Seq(AnalystKeys), NEW w, OnTrack(w, p), w.node = "bear",
           NEW v, v = [w EXCEPT !.bear = w.bear + 1, !.debate = w.debate + 1,
                           !.current = "Bear", !.node = ContinueDebate(w.debate + 1, "Bear")]
    PROVE  OnTrack(v, p)
<1>1. w \in WalkState /\ w.bear \in Nat /\ w.bull = w.bear + 1 /\ w.bear < Rounds
      /\ w.debate = w.bear + w.bear + 1
  BY DEF OnTrack, Debated, WalkState
<1>2. w.debate + 1 >= 2 * Rounds <=> w.bear + 1 = Rounds
  BY <1>1, StudyAssumption
<1> DEFINE node == IF w.bear + 1 = Rounds THEN "manager" ELSE "bull"
<1>3. ContinueDebate(w.debate + 1, "Bear") = node
  BY <1>2 DEF ContinueDebate
<1>4. w.bear + 1 \in Nat /\ w.debate + 1 \in Nat
  BY <1>1
<1>5. SameBesides(v, w, node) /\ v.bull = w.bull /\ v.bear = w.bear + 1
      /\ v.debate = w.debate + 1 /\ v.risk = w.risk /\ v.aggressive = w.aggressive
      /\ v.conservative = w.conservative /\ v.neutral = w.neutral
  BY <1>1, <1>3, <1>4 DEF WalkState, Node, Speaker, SameBesides
<1>6. Reported(v, p) /\ RiskDebated(v) /\ Planned(v)
  BY <1>5 DEF OnTrack, Reported, RiskDebated, Planned, SameBesides
<1>7. Debated(v)
  BY <1>1, <1>5, StudyAssumption DEF Debated, SameBesides
<1> QED BY <1>5, <1>6, <1>7 DEF OnTrack, SameBesides

LEMMA AggressiveStep ==
    ASSUME NEW p \in Seq(AnalystKeys), NEW w, OnTrack(w, p), w.node = "aggressive",
           NEW v, v = [w EXCEPT !.aggressive = w.aggressive + 1, !.risk = w.risk + 1,
                           !.latest = "Aggressive", !.node = ContinueRisk(w.risk + 1, "Aggressive")]
    PROVE  OnTrack(v, p)
<1>1. w \in WalkState /\ w.neutral \in Nat /\ w.neutral < RiskRounds /\ w.risk \in Nat
      /\ w.aggressive = w.neutral /\ w.conservative = w.neutral
      /\ w.risk = w.neutral + w.neutral + w.neutral
  BY DEF OnTrack, RiskDebated, WalkState
<1> DEFINE node == "conservative"
<1>2. ~(w.risk + 1 >= 3 * RiskRounds)
  BY <1>1, StudyAssumption
<1>3. ContinueRisk(w.risk + 1, "Aggressive") = node
  BY <1>2 DEF ContinueRisk
<1>4. w.aggressive + 1 \in Nat /\ w.risk + 1 \in Nat
  BY <1>1
<1>5. SameBesides(v, w, node) /\ v.bull = w.bull /\ v.bear = w.bear
      /\ v.debate = w.debate /\ v.risk = w.risk + 1 /\ v.aggressive = w.aggressive + 1
      /\ v.conservative = w.conservative /\ v.neutral = w.neutral
  BY <1>1, <1>3, <1>4 DEF WalkState, Node, Speaker, SameBesides
<1>6. Reported(v, p) /\ Debated(v) /\ Planned(v)
  BY <1>5 DEF OnTrack, Reported, Debated, Planned, SameBesides
<1>7. RiskDebated(v)
  BY <1>1, <1>5, StudyAssumption DEF RiskDebated, SameBesides
<1> QED BY <1>5, <1>6, <1>7 DEF OnTrack, SameBesides

LEMMA ConservativeStep ==
    ASSUME NEW p \in Seq(AnalystKeys), NEW w, OnTrack(w, p), w.node = "conservative",
           NEW v, v = [w EXCEPT !.conservative = w.conservative + 1, !.risk = w.risk + 1,
                           !.latest = "Conservative", !.node = ContinueRisk(w.risk + 1, "Conservative")]
    PROVE  OnTrack(v, p)
<1>1. w \in WalkState /\ w.neutral \in Nat /\ w.neutral < RiskRounds /\ w.risk \in Nat
      /\ w.aggressive = w.neutral + 1 /\ w.conservative = w.neutral
      /\ w.risk = w.neutral + w.neutral + w.neutral + 1
  BY DEF OnTrack, RiskDebated, WalkState
<1> DEFINE node == "neutral"
<1>2. ~(w.risk + 1 >= 3 * RiskRounds)
  BY <1>1, StudyAssumption
<1>3. ContinueRisk(w.risk + 1, "Conservative") = node
  BY <1>2 DEF ContinueRisk
<1>4. w.conservative + 1 \in Nat /\ w.risk + 1 \in Nat
  BY <1>1
<1>5. SameBesides(v, w, node) /\ v.bull = w.bull /\ v.bear = w.bear
      /\ v.debate = w.debate /\ v.risk = w.risk + 1 /\ v.conservative = w.conservative + 1
      /\ v.aggressive = w.aggressive /\ v.neutral = w.neutral
  BY <1>1, <1>3, <1>4 DEF WalkState, Node, Speaker, SameBesides
<1>6. Reported(v, p) /\ Debated(v) /\ Planned(v)
  BY <1>5 DEF OnTrack, Reported, Debated, Planned, SameBesides
<1>7. v.aggressive = w.neutral + 1 /\ v.conservative = w.neutral + 1 /\ v.neutral = w.neutral
      /\ v.risk = w.neutral + w.neutral + w.neutral + 2
  BY <1>1, <1>5
<1>8. v.risk = v.aggressive + v.conservative + v.neutral
  BY <1>1, <1>7
<1>9. RiskDebated(v)
  <2>1. v.node = node
    BY <1>5 DEF SameBesides
  <2> QED BY <1>1, <1>7, <1>8, <2>1, StudyAssumption DEF RiskDebated
<1> QED BY <1>5, <1>6, <1>9 DEF OnTrack, SameBesides

LEMMA NeutralStep ==
    ASSUME NEW p \in Seq(AnalystKeys), NEW w, OnTrack(w, p), w.node = "neutral",
           NEW v, v = [w EXCEPT !.neutral = w.neutral + 1, !.risk = w.risk + 1,
                           !.latest = "Neutral", !.node = ContinueRisk(w.risk + 1, "Neutral")]
    PROVE  OnTrack(v, p)
<1>1. w \in WalkState /\ w.neutral \in Nat /\ w.neutral < RiskRounds /\ w.risk \in Nat
      /\ w.aggressive = w.neutral + 1 /\ w.conservative = w.neutral + 1
      /\ w.risk = w.neutral + w.neutral + w.neutral + 2
  BY DEF OnTrack, RiskDebated, WalkState
<1> DEFINE node == IF w.neutral + 1 = RiskRounds THEN "pm" ELSE "aggressive"
<1>2. w.risk + 1 >= 3 * RiskRounds <=> w.neutral + 1 = RiskRounds
  BY <1>1, StudyAssumption
<1>3. ContinueRisk(w.risk + 1, "Neutral") = node
  BY <1>2 DEF ContinueRisk
<1>4. w.neutral + 1 \in Nat /\ w.risk + 1 \in Nat
  BY <1>1
<1>5. SameBesides(v, w, node) /\ v.bull = w.bull /\ v.bear = w.bear
      /\ v.debate = w.debate /\ v.risk = w.risk + 1 /\ v.neutral = w.neutral + 1
      /\ v.aggressive = w.aggressive /\ v.conservative = w.conservative
  BY <1>1, <1>3, <1>4 DEF WalkState, Node, Speaker, SameBesides
<1>6. Reported(v, p) /\ Debated(v) /\ Planned(v)
  BY <1>5 DEF OnTrack, Reported, Debated, Planned, SameBesides
<1>7. v.aggressive = w.neutral + 1 /\ v.conservative = w.neutral + 1
      /\ v.neutral = w.neutral + 1 /\ v.risk = w.neutral + w.neutral + w.neutral + 3
  BY <1>1, <1>5
<1>8. v.risk = v.aggressive + v.conservative + v.neutral
  BY <1>1, <1>7
<1>9. RiskDebated(v)
  <2>1. v.node = node
    BY <1>5 DEF SameBesides
  <2> QED BY <1>1, <1>7, <1>8, <2>1, StudyAssumption DEF RiskDebated
<1> QED BY <1>5, <1>6, <1>9 DEF OnTrack, SameBesides

\* The managers, the trader and the recorder write and leave the counts alone.
LEMMA PlanStep ==
    ASSUME NEW p \in Seq(AnalystKeys), NEW w, OnTrack(w, p), NEW v,
           \/ w.node = "manager" /\ v = [w EXCEPT !.current = "Manager", !.node = "trader",
                                             !.plans = w.plans \cup {"investment"},
                                             !.stale = w.stale \ {"investment"}]
           \/ w.node = "trader" /\ v = [w EXCEPT !.plans = w.plans \cup {"trade"},
                                            !.stale = w.stale \ {"trade"},
                                            !.node = "aggressive"]
           \/ w.node = "pm" /\ v = [w EXCEPT !.latest = "Judge", !.node = "recorder",
                                        !.plans = w.plans \cup {"decision"},
                                        !.stale = w.stale \ {"decision"}]
           \/ w.node = "recorder" /\ v = [w EXCEPT !.node = "end"]
    PROVE  OnTrack(v, p)
<1>1. w \in WalkState /\ w.plans \subseteq AllPlans
  BY DEF OnTrack, WalkState
<1>2. v \in WalkState
  <2>0. /\ w.stale \ {"investment"} \in SUBSET AllPlans
        /\ w.stale \ {"trade"} \in SUBSET AllPlans
        /\ w.stale \ {"decision"} \in SUBSET AllPlans
    BY <1>1 DEF WalkState
  <2>1. w.plans \cup {"investment"} \in SUBSET AllPlans
        /\ w.plans \cup {"trade"} \in SUBSET AllPlans
        /\ w.plans \cup {"decision"} \in SUBSET AllPlans
    BY <1>1 DEF AllPlans
  <2>2. CASE w.node = "manager"
    BY <1>1, <2>0, <2>1, <2>2, ZenonT(90) DEF WalkState, Node, Speaker
  <2>3. CASE w.node = "trader"
    BY <1>1, <2>0, <2>1, <2>3, ZenonT(90) DEF WalkState, Node, Speaker
  <2>4. CASE w.node = "pm"
    BY <1>1, <2>0, <2>1, <2>4, ZenonT(90) DEF WalkState, Node, Speaker
  <2>5. CASE w.node = "recorder"
    BY <1>1, <2>5, ZenonT(90) DEF WalkState, Node, Speaker
  <2> QED BY <2>2, <2>3, <2>4, <2>5
<1>3. /\ v.reports = w.reports /\ v.bull = w.bull /\ v.bear = w.bear /\ v.debate = w.debate
      /\ v.risk = w.risk /\ v.aggressive = w.aggressive
      /\ v.conservative = w.conservative /\ v.neutral = w.neutral
  BY <1>1 DEF WalkState
<1>4. \/ /\ w.node = "manager" /\ v.node = "trader" /\ v.plans = w.plans \cup {"investment"}
         /\ v.stale = w.stale \ {"investment"}
      \/ /\ w.node = "trader" /\ v.node = "aggressive" /\ v.plans = w.plans \cup {"trade"}
         /\ v.stale = w.stale \ {"trade"}
      \/ /\ w.node = "pm" /\ v.node = "recorder" /\ v.plans = w.plans \cup {"decision"}
         /\ v.stale = w.stale \ {"decision"}
      \/ w.node = "recorder" /\ v.node = "end" /\ v.plans = w.plans /\ v.stale = w.stale
  BY <1>1 DEF WalkState
<1>5. Planned(v)
  BY <1>4 DEF OnTrack, Planned, AllPlans
<1>6. Reported(v, p) /\ Debated(v) /\ RiskDebated(v)
  BY <1>3, <1>4, StudyAssumption DEF OnTrack, Reported, Debated, RiskDebated
<1> QED BY <1>2, <1>5, <1>6 DEF OnTrack
-----------------------------------------------------------------------------
(* Every step. *)

LEMMA AnalystsKeep ==
    ASSUME StudyInv, NEW r \in Runs,
           \/ MarketAnalyst(r) \/ SentimentAnalyst(r) \/ NewsAnalyst(r)
           \/ FundamentalsAnalyst(r) \/ DerivativeAnalyst(r) \/ ToolNode(r) \/ MsgClear(r)
    PROVE  StudyInv'
<1> USE DEF Node
<1>0. plan \in Seq(AnalystKeys) /\ plan # <<>>
  BY DEF StudyInv
<1>1. CASE ToolNode(r)
  BY <1>0, <1>1, HereOnTrack, ToolStep, NodeKeepsInv DEF ToolNode, NodeReturns
<1>2. CASE MsgClear(r)
  BY <1>0, <1>2, HereOnTrack, ClearStep, NodeKeepsInv DEF MsgClear, NodeReturns
<1>3. CASE SentimentAnalyst(r)
  BY <1>0, <1>3, HereOnTrack, AnalystStep, NodeKeepsInv
     DEF SentimentAnalyst, AtAnalyst, NodeReturns
<1>4. ASSUME At(r, "analyst"), ToolTurn(r) PROVE StudyInv'
  BY <1>0, <1>4, HereOnTrack, AnalystStep, NodeKeepsInv DEF ToolTurn, NodeReturns
<1> QED BY <1>1, <1>2, <1>3, <1>4
       DEF MarketAnalyst, NewsAnalyst, FundamentalsAnalyst, DerivativeAnalyst, AtAnalyst

LEMMA DebatersKeep ==
    ASSUME StudyInv, NEW r \in Runs,
           \/ BullResearcher(r) \/ BearResearcher(r) \/ ResearchManager(r) \/ Trader(r)
           \/ AggressiveDebator(r) \/ ConservativeDebator(r) \/ NeutralDebator(r)
           \/ PortfolioManager(r)
    PROVE  StudyInv'
<1> USE DEF Node
<1>0. plan \in Seq(AnalystKeys)
  BY DEF StudyInv
<1>1. CASE BullResearcher(r)
  BY <1>0, <1>1, HereOnTrack, BullStep, NodeKeepsInv DEF BullResearcher, NodeReturns
<1>2. CASE BearResearcher(r)
  BY <1>0, <1>2, HereOnTrack, BearStep, NodeKeepsInv DEF BearResearcher, NodeReturns
<1>3. CASE ResearchManager(r)
  BY <1>0, <1>3, HereOnTrack, PlanStep, NodeKeepsInv DEF ResearchManager, NodeReturns
<1>4. CASE Trader(r)
  BY <1>0, <1>4, HereOnTrack, PlanStep, NodeKeepsInv DEF Trader, NodeReturns
<1>5. CASE AggressiveDebator(r)
  BY <1>0, <1>5, HereOnTrack, AggressiveStep, NodeKeepsInv DEF AggressiveDebator, NodeReturns
<1>6. CASE ConservativeDebator(r)
  BY <1>0, <1>6, HereOnTrack, ConservativeStep, NodeKeepsInv
     DEF ConservativeDebator, NodeReturns
<1>7. CASE NeutralDebator(r)
  BY <1>0, <1>7, HereOnTrack, NeutralStep, NodeKeepsInv DEF NeutralDebator, NodeReturns
<1>8. CASE PortfolioManager(r)
  BY <1>0, <1>8, HereOnTrack, PlanStep, NodeKeepsInv DEF PortfolioManager, NodeReturns
<1> QED BY <1>1, <1>2, <1>3, <1>4, <1>5, <1>6, <1>7, <1>8

\* The row is written from a walk that is on track, and only at its end.
LEMMA RecorderKeeps ==
    ASSUME StudyInv, NEW r \in Runs, RunRecorder(r)
    PROVE  StudyInv'
<1> DEFINE w == walk[r]
           v == [w EXCEPT !.node = "end"]
<1>1. OnTrack(w, plan) /\ w.node = "recorder" /\ plan \in Seq(AnalystKeys)
  BY HereOnTrack DEF RunRecorder, Node, StudyInv
<1>2. OnTrack(v, plan) /\ Whole(w, plan)
  BY <1>1, PlanStep, RecorderWhole
<1>3. v \in WalkState /\ v # NoWalk /\ w \in WalkState
  BY <1>1, <1>2, WalkIsSome DEF OnTrack
<1>4. walk' = [walk EXCEPT ![r] = v] /\ saved' \in {saved, v} /\ plan' = plan
  BY DEF RunRecorder, Goes
<1>5. recorded' = [recorded EXCEPT ![r] = w] /\ status' = [status EXCEPT ![r] = "complete"]
  BY DEF RunRecorder
<1>6. walk' \in [Runs -> {NoWalk} \cup WalkState]
      /\ recorded' \in [Runs -> {NoWalk} \cup WalkState]
      /\ status' \in [Runs -> {"none", "running", "complete"}]
  BY <1>3, <1>4, <1>5 DEF StudyInv
<1>7. \A q \in Runs : walk'[q] # NoWalk => OnTrack(walk'[q], plan)
  BY <1>2, <1>4 DEF StudyInv
<1>8. saved' # NoWalk => OnTrack(saved', plan)
  BY <1>2, <1>4 DEF StudyInv
<1>9. \A q \in Runs : status'[q] = "complete" => Whole(recorded'[q], plan)
  BY <1>2, <1>5 DEF StudyInv
<1> QED BY <1>4, <1>6, <1>7, <1>8, <1>9 DEF StudyInv

\* A start finds the checkpoint of any run of the thread.
LEMMA StartKeeps ==
    ASSUME StudyInv, NEW r \in Runs, StartRun(r)
    PROVE  StudyInv'
<1>1. PICK w : /\ w = [InitialWalk EXCEPT !.stale = PlansLeft]
               /\ walk' = [walk EXCEPT ![r] = w] /\ saved' \in {saved, w}
  BY DEF StartRun
<1>2. OnTrack(w, plan) /\ w \in WalkState
  <2>1. PlansLeft \in SUBSET AllPlans
    BY DEF PlansLeft, StudyInv, OnTrack, WalkState
  <2> QED BY <1>1, <2>1, InitialOnTrack DEF StudyInv, OnTrack
<1>3. UNCHANGED <<plan, recorded>> /\ status' = [status EXCEPT ![r] = "running"]
  BY DEF StartRun
<1>4. \A q \in Runs : walk'[q] # NoWalk => OnTrack(walk'[q], plan)
  BY <1>1, <1>2 DEF StudyInv
<1>5. walk' \in [Runs -> {NoWalk} \cup WalkState]
      /\ status' \in [Runs -> {"none", "running", "complete"}]
  BY <1>1, <1>2, <1>3 DEF StudyInv
<1>6. \A q \in Runs : status'[q] = "complete" => Whole(recorded[q], plan)
  BY <1>3 DEF StudyInv
<1>7. saved' # NoWalk => OnTrack(saved', plan)
  BY <1>1, <1>2 DEF StudyInv
<1> QED BY <1>3, <1>4, <1>5, <1>6, <1>7 DEF StudyInv

LEMMA EndKeeps ==
    ASSUME StudyInv, NEW r \in Runs, Finish(r) \/ Breaks(r)
    PROVE  StudyInv'
<1>1. walk' = [walk EXCEPT ![r] = NoWalk] /\ saved' \in {NoWalk, saved}
      /\ UNCHANGED <<plan, status, recorded>>
  BY DEF Finish, Breaks
<1>2. walk' \in [Runs -> {NoWalk} \cup WalkState]
  BY <1>1 DEF StudyInv
<1>3. \A q \in Runs : walk'[q] # NoWalk => OnTrack(walk'[q], plan)
  BY <1>1 DEF StudyInv
<1> QED BY <1>1, <1>2, <1>3 DEF StudyInv

LEMMA StudyStepInv == StudyInv /\ [StudyNext]_studyVars => StudyInv'
<1> SUFFICES ASSUME StudyInv, [StudyNext]_studyVars PROVE StudyInv'
  OBVIOUS
<1>1. ASSUME NEW r \in Runs, StartRun(r) \/ Walk(r) \/ Breaks(r) PROVE StudyInv'
  BY <1>1, AnalystsKeep, DebatersKeep, RecorderKeeps, StartKeeps, EndKeeps
     DEF Walk, RecursionError
<1>2. CASE StudyOver \/ UNCHANGED studyVars
  BY <1>2 DEF StudyOver, studyVars, StudyInv
<1> QED BY <1>1, <1>2 DEF StudyNext

LEMMA InvIsWhole == StudyInv => RecordIsWhole
BY DEF StudyInv, RecordIsWhole, Whole, AllPlans

\* A row marked complete tells of a whole study: every selected analyst has
\* reported, every side of both debates had its rounds and the three plans
\* are there (RunRecorder.record, _run_graph), for any plan, rounds and runs
\* that share a thread; none of the plans is one that an earlier walk left.
THEOREM RecordsAreWhole == StudySpec => []RecordIsWhole
<1>1. StudySpec => []StudyInv
  BY StudyInitInv, StudyStepInv, PTL DEF StudySpec
<1> QED BY <1>1, InvIsWhole, PTL
-----------------------------------------------------------------------------
(***************************************************************************)
(* The decision log.  What a writer read, is about to write or has written *)
(* to the temporary file lacks no entry but those rotated out and those that *)
(* two writers could reach at once; a second writer that rewrites puts every *)
(* entry there is in reach of both.                                        *)
(***************************************************************************)
Decisions == [id : Nat, subject : Subjects \cup {"none"}, pending : BOOLEAN]

LogSteps == {"idle", "resolve", "update", "open", "fill", "replace", "study", "append"}
Handles == {"none", "tmp", "log"}

LogType ==
    /\ appended \in Nat
    /\ file \in Seq(Decisions) /\ holds \in [Writers -> Seq(Decisions)]
    /\ tmp \subseteq Seq(Decisions)
    /\ at \in [Writers -> LogSteps] /\ target \in [Writers -> Handles]
    /\ subject \in [Writers -> Subjects \cup {"none"}]

\* What a list of entries may lack.
Accounted(q) == AllIds \subseteq EntriesOf(q) \cup rotated \cup exposed

\* Two writers that rewrite have put every entry in each other's reach.
TwoExpose ==
    \A v, w \in Writers : v # w /\ Rewriting(v) /\ Rewriting(w) => AllIds \subseteq exposed
HeldAccounted == \A w \in Writers : Rewriting(w) => Accounted(holds[w])
\* A handle that leads to the log was moved there by another writer's replace.
StolenHandle ==
    \A w \in Writers : at[w] = "fill" /\ target[w] # "tmp" => AllIds \subseteq exposed
TmpAccounted ==
    \A w \in Writers : at[w] = "replace" => \A x \in tmp : Accounted(x)

LogInv ==
    /\ LogType /\ Accounted(file) /\ TwoExpose /\ HeldAccounted /\ StolenHandle
    /\ TmpAccounted

\* An appended entry adds its id, and only that.
LEMMA AppendedId ==
    ASSUME NEW q \in Seq(Decisions), NEW e \in Decisions
    PROVE  EntriesOf(Append(q, e)) = EntriesOf(q) \cup {e.id}
<1>1. DOMAIN q = 1 .. Len(q) /\ Len(q) \in Nat
  OBVIOUS
<1>2. DOMAIN Append(q, e) = 1 .. (Len(q) + 1)
  OBVIOUS
<1>3. \A n \in 1 .. Len(q) : Append(q, e)[n] = q[n]
  OBVIOUS
<1>4. Append(q, e)[Len(q) + 1] = e
  OBVIOUS
<1>5. EntriesOf(Append(q, e)) \subseteq EntriesOf(q) \cup {e.id}
  <2> SUFFICES ASSUME NEW n \in 1 .. (Len(q) + 1)
               PROVE  Append(q, e)[n].id \in EntriesOf(q) \cup {e.id}
    BY <1>2 DEF EntriesOf
  <2>1. CASE n \in 1 .. Len(q)
    BY <2>1, <1>1, <1>3 DEF EntriesOf
  <2>2. CASE n = Len(q) + 1
    BY <2>2, <1>4
  <2> QED
    BY <1>1, <2>1, <2>2
<1>6. EntriesOf(q) \subseteq EntriesOf(Append(q, e))
  <2> SUFFICES ASSUME NEW n \in DOMAIN q
               PROVE  \E m \in DOMAIN Append(q, e) : Append(q, e)[m].id = q[n].id
    BY DEF EntriesOf
  <2>1. n \in 1 .. (Len(q) + 1)
    BY <1>1
  <2> QED
    BY <2>1, <1>1, <1>2, <1>3
<1>7. e.id \in EntriesOf(Append(q, e))
  <2>1. Len(q) + 1 \in 1 .. (Len(q) + 1)
    BY <1>1
  <2> QED
    BY <2>1, <1>2, <1>4 DEF EntriesOf
<1> QED
  BY <1>5, <1>6, <1>7

\* Giving entries their outcomes keeps their ids and their places.
LEMMA ResolvedSame ==
    ASSUME NEW q \in Seq(Decisions), NEW known
    PROVE  /\ Resolve(q, known) \in Seq(Decisions)
           /\ DOMAIN Resolve(q, known) = DOMAIN q
           /\ EntriesOf(Resolve(q, known)) = EntriesOf(q)
<1>1. DOMAIN q = 1 .. Len(q) /\ Len(q) \in Nat
  OBVIOUS
<1>2. DOMAIN Resolve(q, known) = DOMAIN q
  BY DEF Resolve
<1>3. ASSUME NEW n \in DOMAIN q
      PROVE  Resolve(q, known)[n] \in Decisions /\ Resolve(q, known)[n].id = q[n].id
  <2>1. q[n] \in Decisions
    OBVIOUS
  <2>2. [q[n] EXCEPT !.pending = FALSE] \in Decisions
        /\ [q[n] EXCEPT !.pending = FALSE].id = q[n].id
    BY <2>1 DEF Decisions
  <2> QED
    BY <2>1, <2>2 DEF Resolve
<1>4. Resolve(q, known) \in [1 .. Len(q) -> Decisions]
  BY <1>1, <1>3 DEF Resolve
<1>5. Resolve(q, known) \in Seq(Decisions)
  BY <1>1, <1>4
<1>6. EntriesOf(Resolve(q, known)) = EntriesOf(q)
  BY <1>2, <1>3 DEF EntriesOf
<1> QED
  BY <1>2, <1>5, <1>6

LEMMA ListOf ==
    ASSUME NEW S, NEW n \in Nat, NEW f \in [1 .. n -> S]
    PROVE  f \in Seq(S)
  OBVIOUS

\* What rotation leaves is a list of entries, and what it leaves out is resolved.
LEMMA RotationKeeps ==
    ASSUME NEW q \in Seq(Decisions),
           NEW order \in [1 .. Cardinality(Kept(q)) -> Kept(q)],
           InFileOrder(order, Kept(q)),
           NEW written, written = [k \in DOMAIN order |-> q[order[k]]]
    PROVE  /\ written \in Seq(Decisions)
           /\ EntriesOf(q) \subseteq EntriesOf(written)
                                \cup (ResolvedOf(q) \ EntriesOf(written))
<1>1. DOMAIN q = 1 .. Len(q) /\ Len(q) \in Nat
  OBVIOUS
<1>2. IsFiniteSet(1 .. Len(q))
  BY <1>1, FS_Interval
<1>3. Kept(q) \subseteq DOMAIN q
  BY DEF Kept
<1>4. IsFiniteSet(Kept(q))
  BY <1>1, <1>2, <1>3, FS_Subset
<1>5. Cardinality(Kept(q)) \in Nat
  BY <1>4, FS_CardinalityType
<1> DEFINE size == Cardinality(Kept(q))
<1>6. DOMAIN order = 1 .. size
  OBVIOUS
<1>7. \A k \in 1 .. size : q[order[k]] \in Decisions
  BY <1>3
<1>8. written \in [1 .. size -> Decisions]
  BY <1>6, <1>7
<1>9. written \in Seq(Decisions)
  BY <1>5, <1>8, ListOf
<1>10. ASSUME NEW n \in DOMAIN q, n \in Kept(q)
       PROVE  q[n].id \in EntriesOf(written)
  <2>1. PICK k \in DOMAIN order : order[k] = n
    BY <1>10 DEF InFileOrder
  <2>2. k \in DOMAIN written /\ written[k] = q[n]
    BY <2>1
  <2> QED
    BY <2>2 DEF EntriesOf
<1>11. ASSUME NEW n \in DOMAIN q, n \notin Kept(q)
       PROVE  q[n].id \in ResolvedOf(q)
  <2>1. ~q[n].pending
    BY <1>11 DEF Kept, Rotates
  <2> QED
    BY <2>1 DEF ResolvedOf
<1>12. EntriesOf(q) \subseteq EntriesOf(written) \cup (ResolvedOf(q) \ EntriesOf(written))
  BY <1>10, <1>11 DEF EntriesOf
<1> QED
  BY <1>9, <1>12

LEMMA LogInitInv == DecisionLogInit => LogInv
<1> SUFFICES ASSUME DecisionLogInit PROVE LogInv
  OBVIOUS
<1>1. LogType
  BY DEF DecisionLogInit, LogType, LogSteps, Handles
<1>2. AllIds = {}
  BY DEF DecisionLogInit, AllIds
<1> QED
  BY <1>1, <1>2 DEF LogInv, Accounted, TwoExpose, HeldAccounted, StolenHandle, TmpAccounted

LEMMA BeginInv ==
    ASSUME LogInv, NEW w \in Writers, NEW s \in Subjects, Begin(w, s)
    PROVE  LogInv'
<1> USE DEF LogInv, LogType, LogSteps, Handles, Begin
<1>1. LogType'
  OBVIOUS
<1>2. \A v \in Writers : Rewriting(v)' => Rewriting(v)
  BY DEF Rewriting
<1>3. \A v \in Writers : (at'[v] = "fill" => at[v] = "fill")
                         /\ (at'[v] = "replace" => at[v] = "replace")
  OBVIOUS
<1> QED
  BY <1>1, <1>2, <1>3 DEF Accounted, TwoExpose, HeldAccounted, StolenHandle, TmpAccounted,
       AllIds, EntriesOf

LEMMA ReadForUpdateInv ==
    ASSUME LogInv, NEW w \in Writers, ReadForUpdate(w)
    PROVE  LogInv'
<1> USE DEF LogInv, LogType, LogSteps, Handles, ReadForUpdate
<1>1. LogType'
  OBVIOUS
<1>2. AllIds' = AllIds /\ exposed \cap AllIds \subseteq exposed' /\ rotated' = rotated
  BY DEF AllIds
<1>3. \A v \in Writers : v # w => (Rewriting(v)' <=> Rewriting(v)) /\ holds'[v] = holds[v]
  BY DEF Rewriting
<1>4. ~Rewriting(w) /\ holds'[w] = file
  BY DEF Rewriting
<1>5. \A q : Accounted(q) => AllIds' \subseteq EntriesOf(q) \cup rotated' \cup exposed'
  BY <1>2 DEF Accounted
<1>6. Accounted(file)'
  BY <1>5 DEF Accounted, EntriesOf
<1>7. TwoExpose'
  <2> SUFFICES ASSUME NEW u \in Writers, NEW v \in Writers, u # v, Rewriting(u)', Rewriting(v)'
               PROVE  AllIds' \subseteq exposed'
    BY DEF TwoExpose
  <2>1. CASE u # w /\ v # w
    BY <2>1, <1>2, <1>3 DEF TwoExpose
  <2>2. CASE u = w \/ v = w
    <3>1. OthersRewrite(w)
      BY <2>2, <1>3 DEF OthersRewrite
    <3> QED
      BY <3>1, <1>2
  <2> QED
    BY <2>1, <2>2
<1>8. HeldAccounted'
  <2> SUFFICES ASSUME NEW v \in Writers, Rewriting(v)'
               PROVE  AllIds' \subseteq EntriesOf(holds'[v]) \cup rotated' \cup exposed'
    BY DEF HeldAccounted, Accounted, EntriesOf
  <2>1. CASE v = w
    BY <2>1, <1>4, <1>5
  <2>2. CASE v # w
    BY <2>2, <1>3, <1>5 DEF HeldAccounted
  <2> QED
    BY <2>1, <2>2
<1>9. StolenHandle'
  BY <1>2 DEF StolenHandle
<1>10. TmpAccounted'
  <2> SUFFICES ASSUME NEW v \in Writers, at'[v] = "replace", NEW x \in tmp'
               PROVE  AllIds' \subseteq EntriesOf(x) \cup rotated' \cup exposed'
    BY DEF TmpAccounted, Accounted, EntriesOf
  <2>1. at[v] = "replace" /\ x \in tmp
    OBVIOUS
  <2> QED
    BY <2>1, <1>5 DEF TmpAccounted
<1> QED
  BY <1>1, <1>6, <1>7, <1>8, <1>9, <1>10

LEMMA UpdateInv ==
    ASSUME LogInv, NEW w \in Writers, Update(w)
    PROVE  LogInv'
<1> USE DEF LogInv, LogType, LogSteps, Handles
<1> DEFINE resolved == Resolve(holds[w], updates[w])
<1>1. PICK order \in [1 .. Cardinality(Kept(resolved)) -> Kept(resolved)] :
         /\ InFileOrder(order, Kept(resolved))
         /\ holds' = [holds EXCEPT ![w] = [k \in DOMAIN order |-> resolved[order[k]]]]
         /\ rotated' = rotated \cup (ResolvedOf(resolved)
                           \ EntriesOf([k \in DOMAIN order |-> resolved[order[k]]]))
  BY DEF Update
<1> DEFINE written == [k \in DOMAIN order |-> resolved[order[k]]]
<1>2. holds[w] \in Seq(Decisions)
  OBVIOUS
<1>3. resolved \in Seq(Decisions) /\ EntriesOf(resolved) = EntriesOf(holds[w])
  BY <1>2, ResolvedSame
<1> HIDE DEF resolved
<1>4. /\ written \in Seq(Decisions)
      /\ EntriesOf(resolved) \subseteq EntriesOf(written)
                                \cup (ResolvedOf(resolved) \ EntriesOf(written))
  BY <1>1, <1>3, RotationKeeps
<1> HIDE DEF written
<1>5. holds' = [holds EXCEPT ![w] = written]
      /\ rotated' = rotated \cup (ResolvedOf(resolved) \ EntriesOf(written))
  BY <1>1 DEF written
<1>6. /\ at[w] = "update" /\ at' = [at EXCEPT ![w] = "open"]
      /\ UNCHANGED <<file, tmp, target, subject, updates, appended, exposed, deaths>>
  BY DEF Update
<1>7. LogType'
  BY <1>4, <1>5, <1>6
<1>8. AllIds' = AllIds /\ exposed' = exposed /\ rotated \subseteq rotated'
  BY <1>5, <1>6 DEF AllIds
<1>9. \A v \in Writers : Rewriting(v)' <=> Rewriting(v)
  BY <1>6 DEF Rewriting
<1>10. \A q : Accounted(q) => AllIds' \subseteq EntriesOf(q) \cup rotated' \cup exposed'
  BY <1>8 DEF Accounted
<1>11. Accounted(file)'
  <2>1. Accounted(file) /\ file' = file
    BY <1>6
  <2>2. AllIds' \subseteq EntriesOf(file') \cup rotated' \cup exposed'
    BY <2>1, <1>10
  <2> QED
    BY <2>2 DEF Accounted, EntriesOf
<1>12. TwoExpose'
  BY <1>8, <1>9 DEF TwoExpose
<1>13. HeldAccounted'
  <2> SUFFICES ASSUME NEW v \in Writers, Rewriting(v)'
               PROVE  AllIds' \subseteq EntriesOf(holds'[v]) \cup rotated' \cup exposed'
    BY DEF HeldAccounted, Accounted, EntriesOf
  <2>1. CASE v = w
    <3>1. Accounted(holds[w])
      BY <2>1, <1>9 DEF HeldAccounted
    <3>2. AllIds \subseteq EntriesOf(resolved) \cup rotated \cup exposed
      BY <3>1, <1>3 DEF Accounted
    <3>3. holds'[v] = written
      BY <2>1, <1>5
    <3> QED
      BY <3>2, <3>3, <1>4, <1>5, <1>8
  <2>2. CASE v # w
    BY <2>2, <1>5, <1>9, <1>10 DEF HeldAccounted
  <2> QED
    BY <2>1, <2>2
<1>14. StolenHandle'
  BY <1>6, <1>8 DEF StolenHandle
<1>15. TmpAccounted'
  <2> SUFFICES ASSUME NEW v \in Writers, at'[v] = "replace", NEW x \in tmp'
               PROVE  AllIds' \subseteq EntriesOf(x) \cup rotated' \cup exposed'
    BY DEF TmpAccounted, Accounted, EntriesOf
  <2>1. at[v] = "replace" /\ x \in tmp
    BY <1>6
  <2> QED
    BY <2>1, <1>10 DEF TmpAccounted
<1> QED
  BY <1>7, <1>11, <1>12, <1>13, <1>14, <1>15

LEMMA OpenTmpInv ==
    ASSUME LogInv, NEW w \in Writers, OpenTmp(w)
    PROVE  LogInv'
<1> USE DEF LogInv, LogType, LogSteps, Handles, OpenTmp
<1>1. LogType'
  OBVIOUS
<1>2. AllIds' = AllIds /\ exposed' = exposed /\ rotated' = rotated
  BY DEF AllIds
<1>3. \A v \in Writers : Rewriting(v)' <=> Rewriting(v)
  BY DEF Rewriting
<1>4. Accounted(file)' /\ TwoExpose' /\ HeldAccounted'
  BY <1>2, <1>3 DEF Accounted, TwoExpose, HeldAccounted, EntriesOf
<1>5. StolenHandle'
  BY <1>2 DEF StolenHandle
<1>6. TmpAccounted'
  <2> SUFFICES ASSUME NEW v \in Writers, at'[v] = "replace" PROVE AllIds' \subseteq exposed'
    BY DEF TmpAccounted, Accounted
  <2>1. v # w /\ Rewriting(v) /\ Rewriting(w)
    BY DEF Rewriting
  <2> QED
    BY <2>1, <1>2 DEF TwoExpose
<1> QED
  BY <1>1, <1>4, <1>5, <1>6

LEMMA FillTmpInv ==
    ASSUME LogInv, NEW w \in Writers, FillTmp(w)
    PROVE  LogInv'
<1> USE DEF LogInv, LogType, LogSteps, Handles
<1>1. /\ at[w] = "fill" /\ at' = [at EXCEPT ![w] = "replace"]
      /\ UNCHANGED <<holds, target, subject, appended, rotated, exposed>>
  BY DEF FillTmp
<1>2. \/ target[w] = "tmp" /\ tmp' = {holds[w]} /\ file' = file
      \/ target[w] # "tmp" /\ file' = holds[w] /\ tmp' = tmp
  BY DEF FillTmp
<1>3. LogType'
  BY <1>1, <1>2
<1>4. AllIds' = AllIds
  BY <1>1 DEF AllIds
<1>5. \A v \in Writers : Rewriting(v)' <=> Rewriting(v)
  BY <1>1 DEF Rewriting
<1>6. Rewriting(w) /\ Accounted(holds[w])
  BY <1>1 DEF HeldAccounted, Rewriting
<1>7. \A q : Accounted(q) => AllIds' \subseteq EntriesOf(q) \cup rotated' \cup exposed'
  BY <1>1, <1>4 DEF Accounted
<1>8. Accounted(file)'
  <2>1. Accounted(file) /\ (file' = file \/ file' = holds[w])
    BY <1>2
  <2>2. AllIds' \subseteq EntriesOf(file') \cup rotated' \cup exposed'
    BY <2>1, <1>6, <1>7
  <2> QED
    BY <2>2 DEF Accounted, EntriesOf
<1>9. TwoExpose' /\ HeldAccounted'
  BY <1>1, <1>4, <1>5 DEF TwoExpose, HeldAccounted, Accounted, EntriesOf
<1>10. StolenHandle'
  BY <1>1, <1>4 DEF StolenHandle
<1>11. TmpAccounted'
  <2> SUFFICES ASSUME NEW v \in Writers, at'[v] = "replace", NEW x \in tmp'
               PROVE  AllIds' \subseteq EntriesOf(x) \cup rotated' \cup exposed'
    BY DEF TmpAccounted, Accounted, EntriesOf
  <2>1. CASE target[w] = "tmp"
    BY <2>1, <1>2, <1>6, <1>7
  <2>2. CASE target[w] # "tmp"
    BY <2>2, <1>1, <1>4 DEF StolenHandle
  <2> QED
    BY <2>1, <2>2
<1> QED
  BY <1>3, <1>8, <1>9, <1>10, <1>11

LEMMA ReplaceInv ==
    ASSUME LogInv, NEW w \in Writers, Replace(w)
    PROVE  LogInv'
<1> USE DEF LogInv, LogType, LogSteps, Handles
<1>1. /\ at[w] = "replace" /\ at' \in [Writers -> LogSteps]
      /\ holds' = [holds EXCEPT ![w] = <<>>]
      /\ \A v \in Writers \ {w} : at'[v] = at[v]
      /\ at'[w] \in {"idle", "study"} /\ target' \in [Writers -> Handles]
      /\ UNCHANGED <<subject, appended, rotated, exposed>>
  BY DEF Replace
<1>2. file' = file \/ file' \in tmp
  BY DEF Replace
<1>3. tmp' \subseteq tmp
  BY DEF Replace
<1>4. \A v \in Writers \ {w} : target[v] # "tmp" => target'[v] # "tmp"
  BY DEF Replace
<1>5. LogType'
  <2>1. <<>> \in Seq(Decisions)
    OBVIOUS
  <2> QED
    BY <2>1, <1>1, <1>2, <1>3
<1>6. AllIds' = AllIds
  BY <1>1 DEF AllIds
<1>7. \A v \in Writers : Rewriting(v)' => v # w /\ Rewriting(v) /\ holds'[v] = holds[v]
  BY <1>1 DEF Rewriting
<1>8. Rewriting(w)
  BY <1>1 DEF Rewriting
<1>9. \A q : Accounted(q) => AllIds' \subseteq EntriesOf(q) \cup rotated' \cup exposed'
  BY <1>1, <1>6 DEF Accounted
<1>10. Accounted(file)'
  <2>1. Accounted(file)
    OBVIOUS
  <2>2. \A x \in tmp : Accounted(x)
    BY <1>1 DEF TmpAccounted
  <2>3. AllIds' \subseteq EntriesOf(file') \cup rotated' \cup exposed'
    BY <2>1, <2>2, <1>2, <1>9
  <2> QED
    BY <2>3 DEF Accounted, EntriesOf
<1>11. TwoExpose'
  BY <1>1, <1>6, <1>7 DEF TwoExpose
<1>12. HeldAccounted'
  <2> SUFFICES ASSUME NEW v \in Writers, Rewriting(v)'
               PROVE  AllIds' \subseteq EntriesOf(holds'[v]) \cup rotated' \cup exposed'
    BY DEF HeldAccounted, Accounted, EntriesOf
  <2> QED
    BY <1>7, <1>9 DEF HeldAccounted
\* Whoever still fills or replaces rewrites beside the one that replaced.
<1>13. \A v \in Writers : Rewriting(v)' => AllIds' \subseteq exposed'
  BY <1>1, <1>6, <1>7, <1>8 DEF TwoExpose
<1>14. StolenHandle' /\ TmpAccounted'
  <2>1. \A v \in Writers : at'[v] \in {"fill", "replace"} => Rewriting(v)'
    BY DEF Rewriting
  <2> QED
    BY <2>1, <1>13 DEF StolenHandle, TmpAccounted, Accounted
<1> QED
  BY <1>5, <1>10, <1>11, <1>12, <1>14

LEMMA AppendEntryInv ==
    ASSUME LogInv, NEW w \in Writers, AppendEntry(w)
    PROVE  LogInv'
<1> USE DEF LogInv, LogType, LogSteps, Handles
<1> DEFINE e == [id |-> appended + 1, subject |-> subject[w], pending |-> TRUE]
<1>1. /\ at[w] = "append" /\ at' = [at EXCEPT ![w] = "idle"]
      /\ file' = Append(file, e) /\ appended' = appended + 1
      /\ UNCHANGED <<tmp, holds, target, subject, rotated>>
  BY DEF AppendEntry
<1>2. e \in Decisions /\ e.id = appended + 1
  BY DEF Decisions
<1> HIDE DEF e
<1>3. LogType'
  BY <1>1, <1>2
<1>4. AllIds' = AllIds \cup {appended + 1}
  BY <1>1 DEF AllIds
<1>5. exposed \subseteq exposed'
  BY DEF AppendEntry
<1>6. EntriesOf(file') = EntriesOf(file) \cup {appended + 1}
  BY <1>1, <1>2, AppendedId
<1>7. Accounted(file)'
  <2>1. AllIds' \subseteq EntriesOf(file') \cup rotated' \cup exposed'
    BY <1>1, <1>4, <1>5, <1>6 DEF Accounted
  <2> QED
    BY <2>1 DEF Accounted, EntriesOf
<1>8. \A v \in Writers : (Rewriting(v)' => Rewriting(v) /\ v # w)
                         /\ (at'[v] \in {"fill", "replace"} => at'[v] = at[v] /\ v # w)
  BY <1>1 DEF Rewriting
\* Whoever rewrites meanwhile puts the new entry in reach of two writers.
<1>9. \A v \in Writers : Rewriting(v) /\ v # w => appended + 1 \in exposed'
  <2> SUFFICES ASSUME NEW v \in Writers, Rewriting(v), v # w PROVE appended + 1 \in exposed'
    OBVIOUS
  <2>1. OthersRewrite(w)
    BY DEF OthersRewrite
  <2> QED
    BY <2>1 DEF AppendEntry
<1>10. TwoExpose'
  <2> SUFFICES ASSUME NEW u \in Writers, NEW v \in Writers, u # v, Rewriting(u)', Rewriting(v)'
               PROVE  AllIds' \subseteq exposed'
    BY DEF TwoExpose
  <2>1. AllIds \subseteq exposed
    BY <1>8 DEF TwoExpose
  <2>2. appended + 1 \in exposed'
    BY <1>8, <1>9
  <2> QED
    BY <2>1, <2>2, <1>4, <1>5
<1>11. HeldAccounted'
  <2> SUFFICES ASSUME NEW v \in Writers, Rewriting(v)'
               PROVE  AllIds' \subseteq EntriesOf(holds'[v]) \cup rotated' \cup exposed'
    BY DEF HeldAccounted, Accounted, EntriesOf
  <2>1. Accounted(holds[v])
    BY <1>8 DEF HeldAccounted
  <2>2. appended + 1 \in exposed'
    BY <1>8, <1>9
  <2> QED
    BY <2>1, <2>2, <1>1, <1>4, <1>5 DEF Accounted
<1>12. StolenHandle'
  <2> SUFFICES ASSUME NEW v \in Writers, at'[v] = "fill", target'[v] # "tmp"
               PROVE  AllIds' \subseteq exposed'
    BY DEF StolenHandle
  <2>1. at[v] = "fill" /\ v # w /\ target[v] # "tmp"
    BY <1>1, <1>8
  <2>2. AllIds \subseteq exposed
    BY <2>1 DEF StolenHandle
  <2>3. appended + 1 \in exposed'
    BY <2>1, <1>9 DEF Rewriting
  <2> QED
    BY <2>2, <2>3, <1>4, <1>5
<1>13. TmpAccounted'
  <2> SUFFICES ASSUME NEW v \in Writers, at'[v] = "replace", NEW x \in tmp'
               PROVE  AllIds' \subseteq EntriesOf(x) \cup rotated' \cup exposed'
    BY DEF TmpAccounted, Accounted, EntriesOf
  <2>1. at[v] = "replace" /\ v # w /\ x \in tmp
    BY <1>1, <1>8
  <2>2. Accounted(x)
    BY <2>1 DEF TmpAccounted
  <2>3. appended + 1 \in exposed'
    BY <2>1, <1>9 DEF Rewriting
  <2> QED
    BY <2>2, <2>3, <1>1, <1>4, <1>5 DEF Accounted
<1> QED
  BY <1>3, <1>7, <1>10, <1>11, <1>12, <1>13

\* The steps that leave the files and what was read of them alone.
LEMMA ScanInv ==
    ASSUME LogInv, NEW w \in Writers, Scan(w) \/ Dies(w)
    PROVE  LogInv'
<1> USE DEF LogInv, LogType, LogSteps, Handles
<1>1. /\ at'[w] \in {"idle", "append"} /\ at' \in [Writers -> LogSteps]
      /\ target' \in [Writers -> Handles]
      /\ \A v \in Writers \ {w} : at'[v] = at[v] /\ target'[v] = target[v]
      /\ UNCHANGED <<file, tmp, holds, subject, appended, rotated, exposed>>
  BY DEF Scan, Dies
<1>2. LogType'
  BY <1>1
<1>3. AllIds' = AllIds
  BY <1>1 DEF AllIds
<1>4. \A v \in Writers : Rewriting(v)' => Rewriting(v)
  BY <1>1 DEF Rewriting
<1>5. \A v \in Writers : at'[v] \in {"fill", "replace"}
                            => at[v] = at'[v] /\ target'[v] = target[v]
  BY <1>1
<1>6. Accounted(file)' /\ TwoExpose' /\ HeldAccounted'
  BY <1>1, <1>3, <1>4 DEF Accounted, TwoExpose, HeldAccounted, EntriesOf
<1>7. StolenHandle'
  BY <1>1, <1>3, <1>5 DEF StolenHandle
<1>8. TmpAccounted'
  <2> SUFFICES ASSUME NEW v \in Writers, at'[v] = "replace", NEW x \in tmp'
               PROVE  AllIds' \subseteq EntriesOf(x) \cup rotated' \cup exposed'
    BY DEF TmpAccounted, Accounted, EntriesOf
  <2>1. at[v] = "replace" /\ x \in tmp
    BY <1>1, <1>5
  <2> QED
    BY <2>1, <1>1, <1>3 DEF TmpAccounted, Accounted
<1> QED
  BY <1>2, <1>6, <1>7, <1>8

LEMMA LogInvStep == LogInv /\ [DecisionLogNext]_logVars => LogInv'
<1> SUFFICES ASSUME LogInv, [DecisionLogNext]_logVars PROVE LogInv'
  OBVIOUS
<1>1. ASSUME NEW w \in Writers, NEW s \in Subjects, Begin(w, s) PROVE LogInv'
  BY <1>1, BeginInv
<1>2. ASSUME NEW w \in Writers, ReadForUpdate(w) PROVE LogInv'
  BY <1>2, ReadForUpdateInv
<1>3. ASSUME NEW w \in Writers, Update(w) PROVE LogInv'
  BY <1>3, UpdateInv
<1>4. ASSUME NEW w \in Writers, OpenTmp(w) PROVE LogInv'
  BY <1>4, OpenTmpInv
<1>5. ASSUME NEW w \in Writers, FillTmp(w) PROVE LogInv'
  BY <1>5, FillTmpInv
<1>6. ASSUME NEW w \in Writers, Replace(w) PROVE LogInv'
  BY <1>6, ReplaceInv
<1>7. ASSUME NEW w \in Writers, Scan(w) \/ Dies(w) PROVE LogInv'
  BY <1>7, ScanInv
<1>8. ASSUME NEW w \in Writers, AppendEntry(w) PROVE LogInv'
  BY <1>8, AppendEntryInv
<1>9. CASE UNCHANGED logVars
  BY <1>9 DEF logVars, LogInv, LogType, Accounted, TwoExpose, HeldAccounted, StolenHandle,
       TmpAccounted, AllIds, EntriesOf, Rewriting
<1> QED
  BY <1>1, <1>2, <1>3, <1>4, <1>5, <1>6, <1>7, <1>8, <1>9 DEF DecisionLogNext, LogOver

\* A decision is never forgotten, whatever studies run side by side and
\* wherever one of them dies: it is in the file, was resolved and rotated out,
\* or was within reach of two writers at once.
THEOREM DecisionsAreKept == DecisionLogSpec => []NothingForgotten
<1>1. LogInv => NothingForgotten
  BY DEF LogInv, Accounted, NothingForgotten
<1> QED
  BY <1>1, LogInitInv, LogInvStep, PTL DEF DecisionLogSpec
-----------------------------------------------------------------------------
(***************************************************************************)
(* Forward tests.  A row in the hands of one process alone is open until it *)
(* closes the row, and closed and without an outcome until it has written  *)
(* that; a row in two hands is doubled.                                    *)
(***************************************************************************)
TestRows == [test : Nat, status : {"open", "closed", "errored"}, bad : BOOLEAN]
InHands ==
    [do : {"free", "open", "next", "mature", "outcome"}, test : Nat, list : SUBSET Nat,
     pass : SUBSET Nat]

BacktestType ==
    /\ tests \in Seq({"open", "closed"}) /\ btr \in Seq(TestRows)
    /\ outcomes \in Seq(Nat) /\ Len(outcomes) = Len(btr)
    /\ hand \in [Hands -> InHands]
    /\ \A p \in Hands : hand[p].list \subseteq DOMAIN btr

\* Rows whose fate two processes, or one that died, have confused.
Confused == doubled \cup halved
Shared == \A p, q \in Hands : p # q => InHand(p) \cap InHand(q) \subseteq doubled

\* A process that closes rows finds open what it has still to do, and closed and
\* without an outcome the row whose outcome it is about to write.
HandIsFresh ==
    \A p \in Hands : \A r \in InHand(p) \ Confused :
        IF Turn(p, "outcome", r) THEN btr[r].status = "closed" /\ outcomes[r] = 0
        ELSE btr[r].status = "open"

BacktestInv == BacktestType /\ Shared /\ HandIsFresh /\ OneOutcomeEach

\* OneOutcomeEach, a row at a time.
Counted(r) ==
    outcomes[r] = IF btr[r].status = "closed" /\ ~(\E p \in Hands : Turn(p, "outcome", r))
                  THEN 1 ELSE 0

LEMMA BacktestInitInv == BacktestInit => BacktestInv
<1> SUFFICES ASSUME BacktestInit PROVE BacktestInv
  OBVIOUS
<1>1. hand \in [Hands -> InHands] /\ \A p \in Hands : hand[p].do = "free" /\ hand[p].list = {}
  BY DEF BacktestInit, InHands, Free
<1>2. DOMAIN btr = {} /\ Len(btr) = 0 /\ Len(outcomes) = 0
  BY DEF BacktestInit
<1>3. btr \in Seq(TestRows) /\ outcomes \in Seq(Nat) /\ tests \in Seq({"open", "closed"})
  BY DEF BacktestInit
<1>4. BacktestType
  BY <1>1, <1>2, <1>3 DEF BacktestType
<1>5. \A p \in Hands : InHand(p) = {}
  BY <1>1 DEF InHand
<1>6. Shared /\ HandIsFresh
  BY <1>5 DEF Shared, HandIsFresh
<1>7. OneOutcomeEach
  BY <1>2 DEF OneOutcomeEach
<1> QED
  BY <1>4, <1>6, <1>7 DEF BacktestInv

\* Only one row is ever in turn.
LEMMA FirstIsOne ==
    ASSUME NEW ids \in SUBSET Nat, NEW i, NEW j, First(ids, i), First(ids, j)
    PROVE  i = j
  BY DEF First

LEMMA CountedIsOne == OneOutcomeEach <=> \A r \in DOMAIN btr \ Confused : Counted(r)
  BY DEF OneOutcomeEach, Counted, Confused

\* A step that changes neither table, and after which a process has in hand
\* nothing it had not, and no row more in its turn for the outcome.
LEMMA LessInHand ==
    ASSUME BacktestInv, NEW p \in Hands, NEW h \in InHands,
           hand' = [hand EXCEPT ![p] = h],
           h.do \notin {"mature", "outcome"}, h.list \subseteq DOMAIN btr,
           UNCHANGED <<btr, outcomes>>, tests' \in Seq({"open", "closed"}),
           doubled \subseteq doubled', halved \subseteq halved',
           \A r \in DOMAIN btr : Turn(p, "outcome", r) => r \in halved'
    PROVE  BacktestInv'
<1> USE DEF BacktestInv, BacktestType
<1>1. BacktestType'
  OBVIOUS
<1>2. \A q \in Hands \ {p} : hand'[q] = hand[q]
  OBVIOUS
<1>3. hand'[p] = h
  OBVIOUS
<1>4. \A q \in Hands \ {p} : InHand(q)' = InHand(q)
  BY <1>2 DEF InHand
<1>5. InHand(p)' = {}
  BY <1>3 DEF InHand
<1>6. \A q \in Hands \ {p}, r \in DOMAIN btr : Turn(q, "outcome", r)' <=> Turn(q, "outcome", r)
  BY <1>2 DEF Turn, First
<1>7. \A r \in DOMAIN btr : ~Turn(p, "outcome", r)'
  BY <1>3 DEF Turn
<1>8. Confused \subseteq Confused'
  BY DEF Confused
<1>9. \A q \in Hands : InHand(q) \subseteq DOMAIN btr
  BY DEF InHand
<1>10. Shared'
  BY <1>4, <1>5 DEF Shared
<1>11. HandIsFresh'
  <2> SUFFICES ASSUME NEW q \in Hands, NEW r \in InHand(q)', r \notin Confused'
               PROVE  IF Turn(q, "outcome", r)' THEN btr[r].status = "closed" /\ outcomes[r] = 0
                      ELSE btr[r].status = "open"
    BY DEF HandIsFresh
  <2>1. q # p /\ r \in InHand(q) /\ r \notin Confused /\ r \in DOMAIN btr
    BY <1>4, <1>5, <1>8, <1>9
  <2> QED
    BY <2>1, <1>6 DEF HandIsFresh
<1>12. OneOutcomeEach'
  <2> SUFFICES ASSUME NEW r \in DOMAIN btr \ Confused' PROVE Counted(r)'
    BY CountedIsOne DEF OneOutcomeEach, Counted, Confused
  <2>1. Counted(r)
    BY <1>8, CountedIsOne
  <2>2. ~Turn(p, "outcome", r)
    BY DEF Confused
  <2>3. (\E q \in Hands : Turn(q, "outcome", r))' <=> \E q \in Hands : Turn(q, "outcome", r)
    BY <2>2, <1>6, <1>7
  <2> QED
    BY <2>1, <2>3 DEF Counted
<1> QED
  BY <1>1, <1>10, <1>11, <1>12

LEMMA FreeType == Free \in InHands /\ Free.do = "free" /\ Free.list = {}
  BY DEF Free, InHands

\* Whoever is not at an outcome has none in turn.
LEMMA NoTurn ==
    ASSUME NEW p \in Hands, hand[p].do # "outcome"
    PROVE  \A r : ~Turn(p, "outcome", r)
  BY DEF Turn

\* Appending an element.
LEMMA OneMore ==
    ASSUME NEW S, NEW q \in Seq(S), NEW e \in S
    PROVE  /\ Append(q, e) \in Seq(S) /\ Len(Append(q, e)) = Len(q) + 1
           /\ \A r \in DOMAIN q : r \in DOMAIN Append(q, e) /\ Append(q, e)[r] = q[r]
           /\ DOMAIN Append(q, e) = DOMAIN q \cup {Len(q) + 1}
           /\ Append(q, e)[Len(q) + 1] = e /\ Len(q) + 1 \notin DOMAIN q
<1>1. DOMAIN q = 1 .. Len(q) /\ Len(q) \in Nat
  OBVIOUS
<1>2. DOMAIN Append(q, e) = 1 .. (Len(q) + 1)
  OBVIOUS
<1>3. 1 .. (Len(q) + 1) = 1 .. Len(q) \cup {Len(q) + 1}
  BY <1>1
<1> QED
  BY <1>1, <1>2, <1>3

LEMMA InsertBacktestInv ==
    ASSUME BacktestInv, NEW o \in Openers, InsertBacktest(o)
    PROVE  BacktestInv'
<1> USE DEF BacktestInv, BacktestType
<1> DEFINE h == [Free EXCEPT !.do = "open", !.test = Len(tests) + 1]
<1>1. o \in Hands
  BY DEF Hands
<1>2. Len(tests) + 1 \in Nat
  OBVIOUS
<1>3. h \in InHands /\ h.do = "open" /\ h.list = {}
  BY <1>2 DEF Free, InHands
<1>4. hand' = [hand EXCEPT ![o] = h] /\ hand[o] = Free /\ UNCHANGED <<btr, outcomes, doubled, halved>>
  BY DEF InsertBacktest
<1>5. tests' \in Seq({"open", "closed"})
  <2>1. tests' = Append(tests, "open")
    BY DEF InsertBacktest
  <2>2. "open" \in {"open", "closed"}
    OBVIOUS
  <2>3. tests \in Seq({"open", "closed"})
    OBVIOUS
  <2> QED
    BY <2>1, <2>2, <2>3, OneMore
<1>6. \A r : ~Turn(o, "outcome", r)
  BY <1>1, <1>4, FreeType, NoTurn
<1> HIDE DEF h
<1> QED
  BY <1>1, <1>3, <1>4, <1>5, <1>6, LessInHand

LEMMA OpenForwardTestInv ==
    ASSUME BacktestInv, NEW o \in Openers, OpenForwardTest(o)
    PROVE  BacktestInv'
<1> USE DEF BacktestInv, BacktestType
<1>1. o \in Hands /\ hand[o].test \in Nat
  BY DEF Hands, InHands
<1>2. PICK row \in TestRows : btr' = Append(btr, row) /\ row.status # "closed"
  BY <1>1 DEF OpenForwardTest, TestRows
<1>3. outcomes' = Append(outcomes, 0) /\ UNCHANGED <<tests, hand, doubled, halved>>
  BY DEF OpenForwardTest
<1>4. /\ btr' \in Seq(TestRows) /\ Len(btr') = Len(btr) + 1
      /\ \A r \in DOMAIN btr : r \in DOMAIN btr' /\ btr'[r] = btr[r]
      /\ DOMAIN btr' = DOMAIN btr \cup {Len(btr) + 1}
      /\ btr'[Len(btr) + 1] = row /\ Len(btr) + 1 \notin DOMAIN btr
  BY <1>2, OneMore
<1>5. /\ outcomes' \in Seq(Nat) /\ Len(outcomes') = Len(outcomes) + 1
      /\ \A r \in DOMAIN outcomes : outcomes'[r] = outcomes[r]
      /\ outcomes'[Len(outcomes) + 1] = 0
  BY <1>3, OneMore
<1>6. DOMAIN outcomes = DOMAIN btr
  OBVIOUS
<1>7. BacktestType'
  BY <1>3, <1>4, <1>5
<1>8. /\ \A p \in Hands : InHand(p)' = InHand(p) /\ InHand(p) \subseteq DOMAIN btr
      /\ \A p \in Hands, r \in DOMAIN btr' : Turn(p, "outcome", r)' <=> Turn(p, "outcome", r)
      /\ Confused' = Confused
  BY <1>3 DEF InHand, Turn, First, Confused
<1>9. Shared'
  BY <1>3, <1>8 DEF Shared
<1>10. HandIsFresh'
  <2> SUFFICES ASSUME NEW q \in Hands, NEW r \in InHand(q)', r \notin Confused'
               PROVE  IF Turn(q, "outcome", r)' THEN btr'[r].status = "closed" /\ outcomes'[r] = 0
                      ELSE btr'[r].status = "open"
    BY DEF HandIsFresh
  <2>1. r \in InHand(q) \ Confused /\ r \in DOMAIN btr /\ r \in DOMAIN btr'
    BY <1>4, <1>8
  <2>2. btr'[r] = btr[r] /\ outcomes'[r] = outcomes[r]
    BY <2>1, <1>4, <1>5, <1>6
  <2> QED
    BY <2>1, <2>2, <1>8 DEF HandIsFresh
<1>11. OneOutcomeEach'
  <2> SUFFICES ASSUME NEW r \in DOMAIN btr' \ Confused' PROVE Counted(r)'
    BY DEF OneOutcomeEach, Counted, Confused
  <2>1. CASE r \in DOMAIN btr
    <3>1. Counted(r)
      BY <2>1, <1>8, CountedIsOne
    <3>2. btr'[r] = btr[r] /\ outcomes'[r] = outcomes[r]
      BY <2>1, <1>4, <1>5, <1>6
    <3>3. (\E q \in Hands : Turn(q, "outcome", r))' <=> \E q \in Hands : Turn(q, "outcome", r)
      BY <1>8
    <3> QED
      BY <3>1, <3>2, <3>3 DEF Counted
  <2>2. CASE r = Len(btr) + 1
    BY <2>2, <1>2, <1>4, <1>5 DEF Counted
  <2> QED
    BY <2>1, <2>2, <1>4
<1> QED
  BY <1>7, <1>9, <1>10, <1>11

\* Reading the open rows of a backtest; whatever another has read too is doubled.
LEMMA ReadOpenRowsInv ==
    ASSUME BacktestInv, NEW p \in Hands, NEW h \in InHands, NEW t \in Nat,
           ReadOpenRows(p, t, h), hand[p].do \notin {"mature", "outcome"},
           UNCHANGED <<tests, btr, outcomes, halved>>
    PROVE  BacktestInv'
<1> USE DEF BacktestInv, BacktestType
<1> DEFINE g == [h EXCEPT !.do = "mature", !.test = t, !.list = OpenIn(t)]
<1>1. OpenIn(t) \subseteq DOMAIN btr /\ OpenIn(t) \in SUBSET Nat
  BY DEF OpenIn, RowsIn
<1>2. g \in InHands /\ g.do = "mature" /\ g.list = OpenIn(t)
  BY <1>1 DEF InHands
<1>3. hand' = [hand EXCEPT ![p] = g]
      /\ doubled' = doubled \cup (OpenIn(t) \cap UNION {InHand(q) : q \in Hands \ {p}})
  BY DEF ReadOpenRows
<1> HIDE DEF g
<1>4. /\ hand'[p] = g
      /\ \A q \in Hands \ {p} : hand'[q] = hand[q]
  BY <1>3
<1>5. BacktestType'
  BY <1>1, <1>2, <1>3, <1>4
<1>6. InHand(p)' = OpenIn(t) /\ \A q \in Hands \ {p} : InHand(q)' = InHand(q)
  BY <1>2, <1>4 DEF InHand
<1>7. \A q \in Hands, r \in DOMAIN btr : Turn(q, "outcome", r)' <=> Turn(q, "outcome", r)
  BY <1>2, <1>4 DEF Turn, First
<1>8. doubled \subseteq doubled' /\ Confused \subseteq Confused'
  BY <1>3 DEF Confused
<1>9. \A q \in Hands : InHand(q) \subseteq DOMAIN btr
  BY DEF InHand
<1>10. Shared'
  <2> SUFFICES ASSUME NEW u \in Hands, NEW v \in Hands, u # v,
                      NEW r \in (InHand(u) \cap InHand(v))'
               PROVE  r \in doubled'
    BY DEF Shared
  <2>1. CASE u # p /\ v # p
    BY <2>1, <1>6, <1>8 DEF Shared
  <2>2. CASE u = p
    BY <2>2, <1>3, <1>6
  <2>3. CASE v = p
    BY <2>3, <1>3, <1>6
  <2> QED
    BY <2>1, <2>2, <2>3
<1>11. HandIsFresh'
  <2> SUFFICES ASSUME NEW q \in Hands, NEW r \in InHand(q)', r \notin Confused'
               PROVE  IF Turn(q, "outcome", r)' THEN btr[r].status = "closed" /\ outcomes[r] = 0
                      ELSE btr[r].status = "open"
    BY DEF HandIsFresh
  <2>1. CASE q = p
    <3>1. btr[r].status = "open"
      BY <2>1, <1>6 DEF OpenIn
    <3>2. ~Turn(q, "outcome", r)'
      BY <2>1, <1>2, <1>4 DEF Turn
    <3> QED
      BY <3>1, <3>2
  <2>2. CASE q # p
    <3>1. r \in InHand(q) \ Confused /\ r \in DOMAIN btr
      BY <2>2, <1>6, <1>8, <1>9
    <3> QED
      BY <3>1, <1>7 DEF HandIsFresh
  <2> QED
    BY <2>1, <2>2
<1>12. OneOutcomeEach'
  <2> SUFFICES ASSUME NEW r \in DOMAIN btr \ Confused' PROVE Counted(r)'
    BY DEF OneOutcomeEach, Counted, Confused
  <2>1. Counted(r)
    BY <1>8, CountedIsOne
  <2>2. (\E q \in Hands : Turn(q, "outcome", r))' <=> \E q \in Hands : Turn(q, "outcome", r)
    BY <1>7
  <2> QED
    BY <2>1, <2>2 DEF Counted
<1> QED
  BY <1>5, <1>10, <1>11, <1>12

\* A step that takes a row in its turn: it may end the row or write its outcome,
\* and touches nothing else.
LEMMA TurnInv ==
    ASSUME BacktestInv, NEW p \in Hands, NEW r \in hand[p].list,
           CloseRow(p, r) \/ WriteOutcome(p, r) \/ ErrorRow(p, r)
    PROVE  BacktestInv'
<1> USE DEF BacktestInv, BacktestType
<1>1. /\ Turn(p, hand[p].do, r) /\ hand[p].do \in {"mature", "outcome"}
      /\ r \in DOMAIN btr /\ r \in Nat /\ r \in InHand(p)
      /\ UNCHANGED <<tests, doubled, halved>>
  BY DEF CloseRow, WriteOutcome, ErrorRow, Turn, InHand
<1>2. /\ btr' \in Seq(TestRows) /\ Len(btr') = Len(btr) /\ DOMAIN btr' = DOMAIN btr
      /\ \A k \in DOMAIN btr : k # r => btr'[k] = btr[k]
  <2>1. CASE UNCHANGED btr
    BY <2>1
  <2>2. CASE \E s \in {"closed", "errored"} : btr' = [btr EXCEPT ![r].status = s]
    <3>1. PICK s \in {"closed", "errored"} : btr' = [btr EXCEPT ![r].status = s]
      BY <2>2
    <3>2. [btr[r] EXCEPT !.status = s] \in TestRows
      <4>1. btr[r] \in TestRows
        BY <1>1
      <4> QED
        BY <4>1 DEF TestRows
    <3>3. btr' = [btr EXCEPT ![r] = [btr[r] EXCEPT !.status = s]]
      BY <3>1
    <3> QED
      BY <1>1, <3>2, <3>3
  <2> QED
    BY <2>1, <2>2 DEF CloseRow, WriteOutcome, ErrorRow
<1>3. /\ outcomes' \in Seq(Nat) /\ Len(outcomes') = Len(outcomes)
      /\ \A k \in DOMAIN btr : k # r => outcomes'[k] = outcomes[k]
  <2>1. r \in DOMAIN outcomes /\ outcomes[r] + 1 \in Nat
    BY <1>1
  <2>2. outcomes' = outcomes \/ outcomes' = [outcomes EXCEPT ![r] = outcomes[r] + 1]
    BY DEF CloseRow, WriteOutcome, ErrorRow
  <2>3. outcomes \in Seq(Nat) /\ [outcomes EXCEPT ![r] = outcomes[r] + 1] \in Seq(Nat)
        /\ Len([outcomes EXCEPT ![r] = outcomes[r] + 1]) = Len(outcomes)
    BY <2>1
  <2>4. \A k \in DOMAIN btr : k # r => [outcomes EXCEPT ![r] = outcomes[r] + 1][k] = outcomes[k]
    OBVIOUS
  <2> QED
    BY <2>2, <2>3, <2>4
<1>4. PICK h \in InHands : /\ hand' = [hand EXCEPT ![p] = h]
                           /\ h.list \subseteq hand[p].list
                           /\ h.do \in {"mature", "outcome"}
  <2> DEFINE closed == [hand[p] EXCEPT !.do = "outcome"]
             dropped == [hand[p] EXCEPT !.do = "mature", !.list = @ \ {r}]
  <2>1. closed \in InHands /\ closed.list = hand[p].list /\ closed.do = "outcome"
    BY DEF InHands
  <2>2. dropped \in InHands /\ dropped.list \subseteq hand[p].list /\ dropped.do = "mature"
    BY DEF InHands
  <2>3. hand[p] \in InHands
    OBVIOUS
  <2>4. CASE CloseRow(p, r)
    <3>1. hand' = [hand EXCEPT ![p] = closed]
      BY <2>4 DEF CloseRow
    <3> QED
      BY <3>1, <2>1
  <2>5. CASE WriteOutcome(p, r) \/ ErrorRow(p, r)
    <3>1. hand' = [hand EXCEPT ![p] = dropped]
      BY <2>5 DEF WriteOutcome, ErrorRow, Drop
    <3> QED
      BY <3>1, <2>2
  <2> QED
    BY <2>4, <2>5
<1>5. hand'[p] = h /\ \A q \in Hands \ {p} : hand'[q] = hand[q]
  BY <1>4
<1>6. BacktestType'
  BY <1>1, <1>2, <1>3, <1>4, <1>5
<1>7. /\ InHand(p)' \subseteq InHand(p) /\ \A q \in Hands \ {p} : InHand(q)' = InHand(q)
      /\ \A q \in Hands : InHand(q) \subseteq DOMAIN btr
  BY <1>1, <1>4, <1>5 DEF InHand
<1>8. Confused' = Confused
  BY <1>1 DEF Confused
<1>9. \A q \in Hands : \A k \in DOMAIN btr :
        Turn(q, "outcome", k)' /\ k # r => Turn(q, "outcome", k) /\ q # p
  <2> SUFFICES ASSUME NEW q \in Hands, NEW k \in DOMAIN btr, Turn(q, "outcome", k)', k # r
               PROVE  Turn(q, "outcome", k) /\ q # p
    OBVIOUS
  <2>1. CASE q # p
    BY <2>1, <1>5 DEF Turn, First
  <2>2. CASE q = p
    <3>0. WriteOutcome(p, r) \/ ErrorRow(p, r) => hand'[p].do = "mature"
      BY DEF WriteOutcome, ErrorRow, Drop, InHands
    <3>1. CloseRow(p, r)
      BY <2>2, <3>0 DEF Turn
    <3>2. hand'[p].list = hand[p].list
      BY <3>1 DEF CloseRow, InHands
    <3>3. First(hand[p].list, k) /\ First(hand[p].list, r)
      BY <2>2, <3>1, <3>2 DEF CloseRow, Turn, First
    <3>4. hand[p].list \in SUBSET Nat
      BY DEF InHands
    <3> QED
      BY <3>3, <3>4, FirstIsOne
  <2> QED
    BY <2>1, <2>2
<1>10. \A q \in Hands : \A k \in DOMAIN btr :
         Turn(q, "outcome", k) /\ k # r => Turn(q, "outcome", k)'
  <2> SUFFICES ASSUME NEW q \in Hands, NEW k \in DOMAIN btr, Turn(q, "outcome", k), k # r
               PROVE  Turn(q, "outcome", k)'
    OBVIOUS
  <2>1. CASE q # p
    BY <2>1, <1>5 DEF Turn, First
  <2>2. CASE q = p
    <3>1. First(hand[p].list, k) /\ First(hand[p].list, r)
      BY <2>2, <1>1 DEF Turn
    <3>2. hand[p].list \in SUBSET Nat
      BY DEF InHands
    <3> QED
      BY <3>1, <3>2, FirstIsOne
  <2> QED
    BY <2>1, <2>2
<1>11. Shared'
  BY <1>1, <1>7 DEF Shared
\* The row in turn, when nobody else has it: open until it is closed, closed and
\* without an outcome until its outcome is written.
<1>12. r \notin Confused => /\ \A q \in Hands \ {p} : r \notin InHand(q)
                            /\ \A q \in Hands \ {p} : ~Turn(q, "outcome", r)
                            /\ outcomes[r] = 0
                            /\ hand[p].do = "outcome" => btr[r].status = "closed"
  <2> SUFFICES ASSUME r \notin Confused
               PROVE  /\ \A q \in Hands \ {p} : r \notin InHand(q)
                      /\ \A q \in Hands \ {p} : ~Turn(q, "outcome", r)
                      /\ outcomes[r] = 0
                      /\ hand[p].do = "outcome" => btr[r].status = "closed"
    OBVIOUS
  <2>1. \A q \in Hands \ {p} : r \notin InHand(q)
    BY <1>1 DEF Shared, Confused
  <2>2. \A q \in Hands \ {p} : ~Turn(q, "outcome", r)
    BY <2>1 DEF Turn, First, InHand
  <2>3. CASE hand[p].do = "outcome"
    BY <2>1, <2>2, <2>3, <1>1 DEF HandIsFresh
  <2>4. CASE hand[p].do = "mature"
    <3>1. ~Turn(p, "outcome", r)
      BY <2>4 DEF Turn
    <3>2. btr[r].status = "open"
      BY <3>1, <1>1 DEF HandIsFresh
    <3>3. Counted(r)
      BY <1>1, CountedIsOne
    <3> QED
      BY <2>1, <2>2, <2>4, <3>2, <3>3 DEF Counted
  <2> QED
    BY <1>1, <2>3, <2>4
<1>15. \A s : [btr EXCEPT ![r].status = s][r].status = s
  <2>1. btr[r] \in TestRows
    BY <1>1
  <2>2. \A s : [btr[r] EXCEPT !.status = s].status = s
    BY <2>1 DEF TestRows
  <2> QED
    BY <2>2, <1>1
<1>13. HandIsFresh'
  <2> SUFFICES ASSUME NEW q \in Hands, NEW k \in InHand(q)', k \notin Confused'
               PROVE  IF Turn(q, "outcome", k)' THEN btr'[k].status = "closed" /\ outcomes'[k] = 0
                      ELSE btr'[k].status = "open"
    BY DEF HandIsFresh
  <2>1. k \in InHand(q) \ Confused /\ k \in DOMAIN btr
    BY <1>7, <1>8
  <2>2. CASE k # r
    <3>1. btr'[k] = btr[k] /\ outcomes'[k] = outcomes[k]
      BY <2>1, <2>2, <1>2, <1>3
    <3>2. Turn(q, "outcome", k)' <=> Turn(q, "outcome", k)
      BY <2>1, <2>2, <1>9, <1>10
    <3> QED
      BY <2>1, <3>1, <3>2 DEF HandIsFresh
  <2>3. CASE k = r
    <3>1. q = p
      BY <2>1, <2>3, <1>12
    <3>2. r \in hand'[p].list
      BY <2>3, <3>1, <1>4, <1>5 DEF InHand
    <3>3. CloseRow(p, r)
      <4>1. r \notin (hand[p].list \ {r})
        OBVIOUS
      <4>2. WriteOutcome(p, r) \/ ErrorRow(p, r)
               => hand'[p].list = hand[p].list \ {r}
        BY <1>4 DEF WriteOutcome, ErrorRow, Drop, InHands
      <4> QED
        BY <3>2, <4>1, <4>2
    <3>4. Turn(p, "outcome", r)'
      BY <3>3 DEF CloseRow, Turn, First, InHands
    <3>5. btr'[r].status = "closed" /\ outcomes' = outcomes
      BY <3>3, <1>15 DEF CloseRow
    <3>6. outcomes[r] = 0
      BY <2>1, <2>3, <1>12
    <3> QED
      BY <2>3, <3>1, <3>4, <3>5, <3>6
  <2> QED
    BY <2>2, <2>3
<1>14. OneOutcomeEach'
  <2> SUFFICES ASSUME NEW k \in DOMAIN btr' \ Confused' PROVE Counted(k)'
    BY DEF OneOutcomeEach, Counted, Confused
  <2>1. k \in DOMAIN btr \ Confused
    BY <1>2, <1>8
  <2>2. Counted(k)
    BY <2>1, CountedIsOne
  <2>3. CASE k # r
    <3>1. btr'[k] = btr[k] /\ outcomes'[k] = outcomes[k]
      BY <2>1, <2>3, <1>2, <1>3
    <3>2. (\E q \in Hands : Turn(q, "outcome", k))' <=> \E q \in Hands : Turn(q, "outcome", k)
      BY <2>1, <2>3, <1>9, <1>10
    <3> QED
      BY <2>2, <3>1, <3>2 DEF Counted
  <2>4. CASE k = r
    <3>0. r \notin Confused /\ outcomes[r] = 0
      BY <2>1, <2>4, <1>12
    <3>1. CASE CloseRow(p, r)
      <4>1. Turn(p, "outcome", r)'
        BY <3>1 DEF CloseRow, Turn, First, InHands
      <4>2. outcomes'[r] = 0
        BY <3>0, <3>1 DEF CloseRow
      <4> QED
        BY <2>4, <4>1, <4>2 DEF Counted
    <3>2. CASE WriteOutcome(p, r)
      <4>1. outcomes'[r] = 1
        BY <3>0, <3>2, <1>1 DEF WriteOutcome
      <4>2. btr'[r].status = "closed"
        BY <3>0, <3>2, <1>12 DEF WriteOutcome, Turn
      <4>3. ~Turn(p, "outcome", r)'
        BY <3>2 DEF WriteOutcome, Drop, Turn, InHands
      <4>4. \A q \in Hands \ {p} : ~Turn(q, "outcome", r)'
        BY <3>0, <1>5, <1>12 DEF Turn, First
      <4> QED
        BY <2>4, <4>1, <4>2, <4>3, <4>4 DEF Counted
    <3>3. CASE ErrorRow(p, r)
      <4>1. btr'[r].status = "errored" /\ outcomes'[r] = 0
        BY <3>0, <3>3, <1>15 DEF ErrorRow
      <4> QED
        BY <2>4, <4>1 DEF Counted
    <3> QED
      BY <3>1, <3>2, <3>3
  <2> QED
    BY <2>3, <2>4
<1> QED
  BY <1>6, <1>11, <1>13, <1>14

LEMMA LettingGoInv ==
    ASSUME BacktestInv, NEW p \in Hands, NEW h \in InHands,
           hand' = [hand EXCEPT ![p] = h], h.do \in {"free", "next"}, h.list = {},
           hand[p].do # "outcome", UNCHANGED <<btr, outcomes, doubled, halved>>,
           tests' \in Seq({"open", "closed"})
    PROVE  BacktestInv'
<1>1. \A r : ~Turn(p, "outcome", r)
  BY NoTurn
<1>2. h.list \subseteq DOMAIN btr
  OBVIOUS
<1> QED
  BY <1>1, <1>2, LessInHand

LEMMA OpeningEndsInv ==
    ASSUME BacktestInv, NEW o \in Openers, OpeningRaises(o) \/ OpenedAll(o)
    PROVE  BacktestInv'
<1> USE DEF BacktestInv, BacktestType
<1>1. o \in Hands /\ hand[o].do = "open" /\ hand[o] \in InHands
      /\ UNCHANGED <<tests, btr, outcomes, halved>>
  BY DEF Hands, OpeningRaises, OpenedAll
<1>2. CASE hand' = [hand EXCEPT ![o] = Free] /\ UNCHANGED doubled
  <2>1. tests' \in Seq({"open", "closed"})
    BY <1>1
  <2> QED
    BY <1>1, <1>2, <2>1, FreeType, LettingGoInv
<1>3. CASE ReadOpenRows(o, hand[o].test, hand[o])
  <2>1. hand[o].test \in Nat
    BY <1>1 DEF InHands
  <2> QED
    BY <1>1, <1>3, <2>1, ReadOpenRowsInv
<1> QED
  BY <1>2, <1>3 DEF OpeningRaises, OpenedAll

LEMMA SweepInv ==
    ASSUME BacktestInv, NEW s \in Sweepers, Sweep1(s)
    PROVE  BacktestInv'
<1> USE DEF BacktestInv, BacktestType
<1>1. s \in Hands /\ hand[s] \in InHands /\ hand[s].do \in {"free", "next"}
      /\ UNCHANGED <<tests, btr, outcomes, halved>>
  BY FreeType DEF Hands, Sweep1, BeginPass, NextTest
<1>2. tests' \in Seq({"open", "closed"})
  BY <1>1
<1>3. CASE BeginPass(s)
  <2> DEFINE h == [Free EXCEPT !.do = "next", !.pass = {btr[r].test : r \in DOMAIN btr}]
  <2>0. \A r \in DOMAIN btr : btr[r] \in TestRows
    OBVIOUS
  <2>1. \A r \in DOMAIN btr : btr[r].test \in Nat
    BY <2>0 DEF TestRows
  <2>2. {btr[r].test : r \in DOMAIN btr} \in SUBSET Nat
    BY <2>1
  <2>3. h \in InHands /\ h.do = "next" /\ h.list = {}
    BY <2>2 DEF Free, InHands
  <2>4. hand' = [hand EXCEPT ![s] = h] /\ UNCHANGED doubled
    BY <1>3 DEF BeginPass
  <2> HIDE DEF h
  <2> QED
    BY <1>1, <1>2, <2>3, <2>4, LettingGoInv
<1>4. CASE NextTest(s)
  <2>1. CASE hand' = [hand EXCEPT ![s] = Free] /\ UNCHANGED doubled
    BY <1>1, <1>2, <2>1, FreeType, LettingGoInv
  <2>2. CASE \E t \in hand[s].pass :
               \/ ReadOpenRows(s, t, [hand[s] EXCEPT !.pass = @ \ {t}])
               \/ hand' = [hand EXCEPT ![s] = [hand[s] EXCEPT !.pass = @ \ {t}]] /\ UNCHANGED doubled
    <3>1. PICK t \in hand[s].pass :
               \/ ReadOpenRows(s, t, [hand[s] EXCEPT !.pass = @ \ {t}])
               \/ hand' = [hand EXCEPT ![s] = [hand[s] EXCEPT !.pass = @ \ {t}]] /\ UNCHANGED doubled
      BY <2>2
    <3> DEFINE h == [hand[s] EXCEPT !.pass = @ \ {t}]
    <3>2. h \in InHands /\ h.do = hand[s].do /\ h.list = hand[s].list /\ t \in Nat
      BY <1>1 DEF InHands
    <3>3. h.list \subseteq DOMAIN btr /\ h.do \notin {"mature", "outcome"}
      BY <1>1, <3>2
    <3>4. \A r : ~Turn(s, "outcome", r)
      BY <1>1, NoTurn
    <3>5. ReadOpenRows(s, t, h) \/ (hand' = [hand EXCEPT ![s] = h] /\ UNCHANGED doubled)
      BY <3>1
    <3> HIDE DEF h
    <3>6. CASE ReadOpenRows(s, t, h)
      BY <1>1, <3>2, <3>6, ReadOpenRowsInv
    <3>7. CASE hand' = [hand EXCEPT ![s] = h] /\ UNCHANGED doubled
      BY <1>1, <1>2, <3>2, <3>3, <3>4, <3>7, LessInHand
    <3> QED
      BY <3>5, <3>6, <3>7
  <2> QED
    BY <1>4, <2>1, <2>2 DEF NextTest
<1> QED
  BY <1>3, <1>4 DEF Sweep1

\* A row that raises, or no row left: the process lets go of its list.
LEMMA RowRaisesInv ==
    ASSUME BacktestInv, NEW p \in Hands, NEW r \in hand[p].list, RowRaises(p, r)
    PROVE  BacktestInv'
<1> USE DEF BacktestInv, BacktestType
<1>1. hand[p] \in InHands /\ hand[p].do = "mature"
      /\ UNCHANGED <<tests, btr, outcomes, doubled, halved>>
  BY DEF RowRaises, Turn
<1> DEFINE h == [hand[p] EXCEPT !.do = "next", !.list = {}]
<1>2. h \in InHands /\ h.do = "next" /\ h.list = {}
  BY <1>1 DEF InHands
<1>3. hand' = [hand EXCEPT ![p] = h] \/ hand' = [hand EXCEPT ![p] = Free]
  BY DEF RowRaises
<1>4. tests' \in Seq({"open", "closed"})
  BY <1>1
<1> HIDE DEF h
<1> QED
  BY <1>1, <1>2, <1>3, <1>4, FreeType, LettingGoInv

LEMMA CloseBacktestInv ==
    ASSUME BacktestInv, NEW p \in Hands, CloseBacktest(p)
    PROVE  BacktestInv'
<1> USE DEF BacktestInv, BacktestType
<1>1. hand[p] \in InHands /\ hand[p].do = "mature" /\ hand[p].list = {}
      /\ UNCHANGED <<btr, outcomes, doubled, halved>>
  BY DEF CloseBacktest
<1> DEFINE h == [hand[p] EXCEPT !.do = "next"]
<1>2. h \in InHands /\ h.do = "next" /\ h.list = {}
  BY <1>1 DEF InHands
<1>3. hand' = [hand EXCEPT ![p] = h] \/ hand' = [hand EXCEPT ![p] = Free]
  BY DEF CloseBacktest
<1>4. tests' \in Seq({"open", "closed"})
  BY DEF CloseBacktest
<1> HIDE DEF h
<1> QED
  BY <1>1, <1>2, <1>3, <1>4, FreeType, LettingGoInv

LEMMA HandDiesInv ==
    ASSUME BacktestInv, NEW p \in Hands, HandDies(p)
    PROVE  BacktestInv'
<1> USE DEF BacktestInv, BacktestType
<1>1. /\ hand' = [hand EXCEPT ![p] = Free] /\ UNCHANGED <<tests, btr, outcomes, doubled>>
      /\ halved' = halved \cup {r \in hand[p].list : Turn(p, "outcome", r)}
  BY DEF HandDies
<1>2. \A r \in DOMAIN btr : Turn(p, "outcome", r) => r \in halved'
  BY <1>1 DEF Turn, First
<1>3. tests' \in Seq({"open", "closed"}) /\ doubled \subseteq doubled' /\ halved \subseteq halved'
  BY <1>1
<1>4. Free.list \subseteq DOMAIN btr /\ Free.do \notin {"mature", "outcome"}
  BY FreeType
<1> QED
  BY <1>1, <1>2, <1>3, <1>4, FreeType, LessInHand

LEMMA BacktestStill == BacktestInv /\ UNCHANGED <<tests, btr, outcomes, hand, doubled, halved>>
                          => BacktestInv'
  BY DEF BacktestInv, BacktestType, Shared, HandIsFresh, OneOutcomeEach, InHand, Confused, Turn,
         First

LEMMA BacktestInvStep == BacktestInv /\ [BacktestNext]_backtestVars => BacktestInv'
<1> SUFFICES ASSUME BacktestInv, [BacktestNext]_backtestVars PROVE BacktestInv'
  OBVIOUS
<1>1. ASSUME NEW o \in Openers, Opening(o) PROVE BacktestInv'
  BY <1>1, InsertBacktestInv, OpenForwardTestInv, OpeningEndsInv DEF Opening
<1>2. ASSUME NEW s \in Sweepers, Sweep1(s) PROVE BacktestInv'
  BY <1>2, SweepInv
<1>3. ASSUME NEW p \in Hands, Mature(p) PROVE BacktestInv'
  BY <1>3, TurnInv, RowRaisesInv, CloseBacktestInv DEF Mature
<1>4. ASSUME NEW p \in Hands, HandDies(p) PROVE BacktestInv'
  BY <1>4, HandDiesInv
<1>5. CASE (\E t \in DOMAIN tests : WindowEnds(t)) \/ UNCHANGED backtestVars
  BY <1>5, BacktestStill DEF WindowEnds, backtestVars
<1> QED
  BY <1>1, <1>2, <1>3, <1>4, <1>5 DEF BacktestNext, BacktestsOver

\* A closed forward test counts once, for any number of openers and passes: its
\* outcome is written as soon as its process gets to it and no other row has
\* one, but for rows two of them had read as open and rows one died on halfway.
THEOREM OutcomesCountOnce == BacktestSpec => []OneOutcomeEach
<1>1. BacktestInv => OneOutcomeEach
  BY DEF BacktestInv
<1> QED
  BY <1>1, BacktestInitInv, BacktestInvStep, PTL DEF BacktestSpec
=============================================================================
