----------------------------- MODULE QueueStore -----------------------------
(***************************************************************************)
(* The queue_jobs table and the SQL helpers of                             *)
(* tradingagents/orchestrator/queue_store.py.  Each helper is one          *)
(* committed statement, so each is an operator from a table to the table   *)
(* it leaves behind.  Rows are numbered by AUTOINCREMENT: row j exists     *)
(* when its state differs from "none".  The table, and the one column of   *)
(* brief_actions that the worker writes, are the variables the daemons     *)
(* share.                                                                  *)
(***************************************************************************)
EXTENDS Integers, FiniteSets

CONSTANTS MaxJobs,      \* bound: rows ever inserted
          Actions,      \* ids of brief_actions rows a payload may name
          NoAction,     \* payload without an action_id
          CostValues,   \* possible cost rollups of one study
          AgeCap        \* bound: ages saturate here, past every threshold

VARIABLES jobs,         \* the table
          actResult     \* brief_actions.result_brief_id of each study row: the
                        \* brief is named by its job, 0 is NULL

ASSUME QueueAssumption ==
    /\ MaxJobs \in Nat \ {0}
    /\ NoAction \notin Actions
    /\ CostValues \subseteq Nat
    /\ 0 \in CostValues
    /\ AgeCap \in Nat

JobId == 1 .. MaxJobs
JobState == {"none", "queued", "running", "done", "error"}

\* age is now - started_ts of a running row (0 in every other row, which no
\* query compares); today says that the finished_ts of a done row is on the
\* current UTC date.
Job == [state : JobState, action : Actions \cup {NoAction},
        age : 0 .. AgeCap, cost : CostValues, today : BOOLEAN]

NoJob == [state |-> "none", action |-> NoAction, age |-> 0, cost |-> 0,
          today |-> FALSE]

EmptyQueue == [j \in JobId |-> NoJob]

\* The id the next INSERT receives.
NextJobId(q, j) ==
    /\ q[j].state = "none"
    /\ \A k \in JobId : k < j => q[k].state # "none"

InsertQueueJob(q, j, a) ==
    [q EXCEPT ![j] = [state |-> "queued", action |-> a, age |-> 0, cost |-> 0,
                      today |-> FALSE]]

\* Wrong: ORDER BY job_id DESC.
YoungestQueued(q, j) ==
    /\ q[j].state = "queued"
    /\ \A k \in JobId : q[k].state = "queued" => j >= k

\* SELECT ... WHERE state = 'queued' ORDER BY job_id LIMIT 1
OldestQueued(q, j) ==
    /\ q[j].state = "queued"
    /\ \A k \in JobId : q[k].state = "queued" => j <= k

QueueIdle(q) == \A j \in JobId : q[j].state # "queued"

LeaseOne(q, j) == [q EXCEPT ![j] = [@ EXCEPT !.state = "running", !.age = 0]]

\* Neither helper looks at the state it overwrites.
MarkDone(q, j, c) ==
    [q EXCEPT ![j] = [@ EXCEPT !.state = "done", !.age = 0, !.cost = c, !.today = TRUE]]

\* Wrong: a failed job is retried.
RequeueFailed(q, j) == [q EXCEPT ![j] = [@ EXCEPT !.state = "queued", !.age = 0]]

MarkError(q, j) ==
    [q EXCEPT ![j] = [@ EXCEPT !.state = "error", !.age = 0, !.today = FALSE]]

Stale(q, j, maxAge) == q[j].state = "running" /\ q[j].age > maxAge

\* Wrong: a stale lease is handed out again.
RequeueStale(q, maxAge) ==
    [j \in JobId |->
        IF Stale(q, j, maxAge) THEN [q[j] EXCEPT !.state = "queued", !.age = 0] ELSE q[j]]

\* Wrong: the statement is not committed.
SweepNothing(q, maxAge) == q

SweepStaleLeases(q, maxAge) ==
    [j \in JobId |->
        IF Stale(q, j, maxAge)
        THEN [q[j] EXCEPT !.state = "error", !.age = 0]
        ELSE q[j]]

\* SUM(cost_usd) of the rows marked done today, counted unit by unit.
DoneToday(q) == {j \in JobId : q[j].state = "done" /\ q[j].today}
DailyCostTotal(q) == Cardinality(UNION {{j} \X (1 .. q[j].cost) : j \in DoneToday(q)})

\* The clock as the table's queries see it.
AgeRunning(q) ==
    [j \in JobId |->
        IF q[j].state = "running" /\ q[j].age < AgeCap
        THEN [q[j] EXCEPT !.age = @ + 1]
        ELSE q[j]]

NewDay(q) == [j \in JobId |-> [q[j] EXCEPT !.today = FALSE]]
=============================================================================
