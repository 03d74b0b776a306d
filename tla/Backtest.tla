------------------------------ MODULE Backtest ------------------------------
(***************************************************************************)
(* Forward tests (backtest/harness.py, sweep.py, reflection.py): a backtest*)
(* opens a row per run, and whoever finds it past its end closes the rows  *)
(* and writes their outcomes: the opener itself when the window has already*)
(* ended, else a maturation pass.  The update of a row and its outcome are *)
(* two commits, and a pass works on the rows it read at its start.         *)
(***************************************************************************)
EXTENDS Naturals, Sequences, FiniteSets

CONSTANTS
    Openers,        \* processes that run run_watchlist or run_brief_scoped
    Sweepers,       \* processes that run run_maturation_pass
    RowsEach,       \* bound: the number of rows of each backtest, in order
    MaxDied         \* bound: processes that die midway

ASSUME BacktestAssumption ==
    /\ Openers \cap Sweepers = {}
    /\ RowsEach \in Seq(Nat \ {0}) /\ MaxDied \in Nat

VARIABLES
    tests,      \* the backtests table: status of each row, in order
    due,        \* backtests whose window has ended
    btr,        \* the backtest_runs table
    outcomes,   \* its rows in outcome_log, for each row of the table
    hand,       \* process -> what it is doing
    doubled,    \* history: rows two processes had read as open
    halved,     \* history: rows closed by a process that died before the outcome
    died        \* history

backtestVars == <<tests, due, btr, outcomes, hand, doubled, halved, died>>

MaxBacktests == Len(RowsEach)
BtrIds == 1..Cardinality(UNION {{t} \X (1..RowsEach[t]) : t \in 1..MaxBacktests})
Hands == Openers \cup Sweepers
\* list: the rows in hand, pass: the backtests still to do, both taken in order.
Free == [do |-> "free", test |-> 0, list |-> {}, pass |-> {}]
First(ids, i) == i \in ids /\ \A j \in ids : i <= j

BacktestInit ==
    /\ tests = <<>> /\ due = {} /\ btr = <<>> /\ outcomes = <<>>
    /\ hand = [p \in Hands |-> Free]
    /\ doubled = {} /\ halved = {} /\ died = 0

RowsIn(t) == {r \in DOMAIN btr : btr[r].test = t}

\* Wrong: the rows of any status.
OpenOrClosedIn(t) == RowsIn(t)

OpenIn(t) == {r \in RowsIn(t) : btr[r].status = "open"}
InHand(p) == IF hand[p].do \in {"mature", "outcome"} THEN hand[p].list ELSE {}

-----------------------------------------------------------------------------
(* Opening. *)

\* _insert_backtests_row: the window may already be over.
InsertBacktest(o) ==
    /\ hand[o] = Free /\ Len(tests) < MaxBacktests
    /\ tests' = Append(tests, "open")
    /\ due' \in {due, due \cup {Len(tests) + 1}}
    /\ hand' = [hand EXCEPT ![o] = [Free EXCEPT !.do = "open", !.test = Len(tests) + 1]]
    /\ UNCHANGED <<btr, outcomes, doubled, halved, died>>

\* One run: an open row, or an errored one when there is no entry price.  The
\* arithmetic of a bad row raises when it is closed (a price of zero).
OpenForwardTest(o) ==
    /\ hand[o].do = "open"
    /\ Cardinality(RowsIn(hand[o].test)) < RowsEach[hand[o].test]
    /\ \E row \in [test : {hand[o].test}, status : {"open"}, bad : BOOLEAN]
                    \cup [test : {hand[o].test}, status : {"errored"}, bad : {FALSE}] :
         btr' = Append(btr, row) /\ outcomes' = Append(outcomes, 0)
    /\ UNCHANGED <<tests, due, hand, doubled, halved, died>>

\* The graph, or the lookup of a run, raises: the rows so far stay.
OpeningRaises(o) ==
    /\ hand[o].do = "open"
    /\ hand' = [hand EXCEPT ![o] = Free]
    /\ UNCHANGED <<tests, due, btr, outcomes, doubled, halved, died>>

\* The rows that _mature_all_open reads, in the order of their ids.
ReadOpenRows(p, t, h) ==
    /\ hand' = [hand EXCEPT ![p] = [h EXCEPT !.do = "mature", !.test = t,
                                            !.list = OpenIn(t)]]
    /\ doubled' = doubled \cup (OpenIn(t) \cap UNION {InHand(q) : q \in Hands \ {p}})

\* All runs opened: mature at once when the window is over.
OpenedAll(o) ==
    /\ hand[o].do = "open"
    /\ Cardinality(RowsIn(hand[o].test)) = RowsEach[hand[o].test]
    /\ IF hand[o].test \in due THEN ReadOpenRows(o, hand[o].test, hand[o])
       ELSE hand' = [hand EXCEPT ![o] = Free] /\ UNCHANGED doubled
    /\ UNCHANGED <<tests, due, btr, outcomes, halved, died>>
-----------------------------------------------------------------------------
(* Maturing. *)

\* run_maturation_pass: every backtest that has rows, in the order of its id.
BeginPass(s) ==
    /\ hand[s] = Free /\ btr # <<>>
    /\ hand' = [hand EXCEPT ![s] = [Free EXCEPT !.do = "next",
                  !.pass = {btr[r].test : r \in DOMAIN btr}]]
    /\ UNCHANGED <<tests, due, btr, outcomes, doubled, halved, died>>

NextTest(s) ==
    /\ hand[s].do = "next"
    /\ \/ hand[s].pass = {} /\ hand' = [hand EXCEPT ![s] = Free] /\ UNCHANGED doubled
       \/ \E t \in hand[s].pass :
            LET h == [hand[s] EXCEPT !.pass = @ \ {t}]
            IN  /\ First(hand[s].pass, t)
                /\ IF t \in due /\ OpenIn(t) # {} THEN ReadOpenRows(s, t, h)
                   ELSE hand' = [hand EXCEPT ![s] = h] /\ UNCHANGED doubled
    /\ UNCHANGED <<tests, due, btr, outcomes, halved, died>>

\* The row whose turn it is; the next step of the process leaves it behind.
Turn(p, step, r) == hand[p].do = step /\ First(hand[p].list, r)
Drop(p, r) == hand' = [hand EXCEPT ![p].do = "mature", ![p].list = @ \ {r}]

\* _mature_one: the prices are there and the row is closed with its metrics ...
CloseRow(p, r) ==
    /\ Turn(p, "mature", r) /\ ~btr[r].bad
    /\ btr' = [btr EXCEPT ![r].status = "closed"]
    /\ hand' = [hand EXCEPT ![p].do = "outcome"]
    /\ UNCHANGED <<tests, due, outcomes, doubled, halved, died>>

\* ... then its outcome is written ...
WriteOutcome(p, r) ==
    /\ Turn(p, "outcome", r)
    /\ outcomes' = [outcomes EXCEPT ![r] = @ + 1]
    /\ Drop(p, r)
    /\ UNCHANGED <<tests, due, btr, doubled, halved, died>>

\* ... or the prices are not there ...
ErrorRow(p, r) ==
    /\ Turn(p, "mature", r)
    /\ btr' = [btr EXCEPT ![r].status = "errored"]
    /\ Drop(p, r)
    /\ UNCHANGED <<tests, due, outcomes, doubled, halved, died>>

\* Wrong: the whole pass ends.
RowRaisesOut(p, r) ==
    /\ Turn(p, "mature", r) /\ btr[r].bad
    /\ hand' = [hand EXCEPT ![p] = Free]
    /\ UNCHANGED <<tests, due, btr, outcomes, doubled, halved, died>>

\* ... or the arithmetic raises: the pass goes on with the next backtest, the
\* opener ends.
RowRaises(p, r) ==
    /\ Turn(p, "mature", r) /\ btr[r].bad
    /\ hand' = [hand EXCEPT ![p] = IF p \in Sweepers
                                   THEN [@ EXCEPT !.do = "next", !.list = {}] ELSE Free]
    /\ UNCHANGED <<tests, due, btr, outcomes, doubled, halved, died>>

\* The opener closes its backtest, the pass one that has no open row left.
CloseBacktest(p) ==
    /\ hand[p].do = "mature" /\ hand[p].list = {}
    /\ tests' = IF p \in Openers \/ OpenIn(hand[p].test) = {}
                THEN [tests EXCEPT ![hand[p].test] = "closed"] ELSE tests
    /\ hand' = [hand EXCEPT ![p] = IF p \in Sweepers THEN [@ EXCEPT !.do = "next"] ELSE Free]
    /\ UNCHANGED <<due, btr, outcomes, doubled, halved, died>>

HandDies(p) ==
    /\ hand[p] # Free /\ died < MaxDied /\ died' = died + 1
    /\ halved' = halved \cup {r \in hand[p].list : Turn(p, "outcome", r)}
    /\ hand' = [hand EXCEPT ![p] = Free]
    /\ UNCHANGED <<tests, due, btr, outcomes, doubled>>

\* Days go by.
WindowEnds(t) ==
    /\ t \in DOMAIN tests \ due
    /\ due' = due \cup {t}
    /\ UNCHANGED <<tests, btr, outcomes, hand, doubled, halved, died>>

Mature(p) ==
    \/ \E r \in hand[p].list :
          CloseRow(p, r) \/ WriteOutcome(p, r) \/ ErrorRow(p, r) \/ RowRaises(p, r)
    \/ CloseBacktest(p)
Opening(o) == InsertBacktest(o) \/ OpenForwardTest(o) \/ OpeningRaises(o) \/ OpenedAll(o)
Sweep1(s) == BeginPass(s) \/ NextTest(s)

\* Every backtest is opened and every window over.
BacktestsOver ==
    /\ Len(tests) = MaxBacktests /\ due = DOMAIN tests /\ \A p \in Hands : hand[p] = Free
    /\ UNCHANGED backtestVars

BacktestNext ==
    \/ \E o \in Openers : Opening(o)
    \/ \E s \in Sweepers : Sweep1(s)
    \/ \E p \in Hands : Mature(p) \/ HandDies(p)
    \/ \E t \in DOMAIN tests : WindowEnds(t)
    \/ BacktestsOver

\* A process that has begun goes on, and passes are started again and again.
BacktestFairness ==
    /\ \A o \in Openers : WF_backtestVars(hand[o] # Free /\ (Opening(o) \/ Mature(o)))
    /\ \A s \in Sweepers : WF_backtestVars(Sweep1(s) \/ Mature(s))
    /\ \A t \in 1..MaxBacktests : WF_backtestVars(WindowEnds(t))

BacktestSpec == BacktestInit /\ [][BacktestNext]_backtestVars /\ BacktestFairness
-----------------------------------------------------------------------------
\* A closed forward test counts once: it has one outcome as soon as its process
\* has written it, and no other row has any; two processes that had read the
\* same open row may write two, or error what the other closed, and one that
\* died between the two commits leaves none.
OneOutcomeEach ==
    \A r \in DOMAIN btr \ (doubled \cup halved) :
        outcomes[r] = IF btr[r].status = "closed"
                         /\ ~(\E p \in Hands : Turn(p, "outcome", r))
                      THEN 1 ELSE 0

\* A forward test whose window is over does not stay open: the passes close it
\* or mark it, whatever failed before and whatever is wrong with other
\* backtests, unless a row before it in its own backtest raises every time.
Blocked(r) == \E b \in RowsIn(btr[r].test) : b <= r /\ btr[b].bad
DueIsMatured ==
    \A r \in BtrIds :
        (r \in DOMAIN btr /\ btr[r].test \in due)
            ~> (r \in DOMAIN btr /\ (btr[r].status # "open" \/ Blocked(r)))
=============================================================================
