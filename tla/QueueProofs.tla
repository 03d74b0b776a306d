----------------------------- MODULE QueueProofs ----------------------------
(***************************************************************************)
(* The operators of QueueStore keep the type of its table.                 *)
(***************************************************************************)
EXTENDS QueueStore, TLAPS

LEMMA EmptyQueueType == EmptyQueue \in [JobId -> Job]
BY QueueAssumption DEF EmptyQueue, NoJob, Job, JobState

LEMMA RowTypes ==
    ASSUME NEW r \in Job
    PROVE  /\ [r EXCEPT !.state = "running", !.age = 0] \in Job
           /\ \A c \in CostValues :
                 [r EXCEPT !.state = "done", !.age = 0, !.cost = c, !.today = TRUE] \in Job
           /\ [r EXCEPT !.state = "error", !.age = 0, !.today = FALSE] \in Job
           /\ [r EXCEPT !.state = "error", !.age = 0] \in Job
           /\ r.age < AgeCap => [r EXCEPT !.age = @ + 1] \in Job
           /\ [r EXCEPT !.today = FALSE] \in Job
<1>1. 0 \in 0 .. AgeCap
  BY QueueAssumption
<1>2. [r EXCEPT !.state = "running", !.age = 0] \in Job
  BY <1>1 DEF Job, JobState
<1>3. \A c \in CostValues :
         [r EXCEPT !.state = "done", !.age = 0, !.cost = c, !.today = TRUE] \in Job
  BY <1>1, Zenon DEF Job, JobState
<1>4. [r EXCEPT !.state = "error", !.age = 0, !.today = FALSE] \in Job
  BY <1>1, Zenon DEF Job, JobState
<1>5. [r EXCEPT !.state = "error", !.age = 0] \in Job
  BY <1>1, Zenon DEF Job, JobState
<1>6. r.age < AgeCap => [r EXCEPT !.age = @ + 1] \in Job
  <2> HAVE r.age < AgeCap
  <2>1. r.age \in 0 .. AgeCap
    BY DEF Job
  <2>2. r.age + 1 \in 0 .. AgeCap
    BY <2>1, QueueAssumption
  <2> QED BY <2>2 DEF Job
<1>7. [r EXCEPT !.today = FALSE] \in Job
  BY Zenon DEF Job
<1> QED BY <1>2, <1>3, <1>4, <1>5, <1>6, <1>7

LEMMA TableTypes ==
    ASSUME NEW q \in [JobId -> Job], NEW j \in JobId
    PROVE  /\ \A a \in Actions \cup {NoAction} : InsertQueueJob(q, j, a) \in [JobId -> Job]
           /\ LeaseOne(q, j) \in [JobId -> Job]
           /\ \A c \in CostValues : MarkDone(q, j, c) \in [JobId -> Job]
           /\ MarkError(q, j) \in [JobId -> Job]
<1>1. \A a \in Actions \cup {NoAction} : InsertQueueJob(q, j, a) \in [JobId -> Job]
  BY QueueAssumption DEF InsertQueueJob, Job, JobState
<1>2. LeaseOne(q, j) \in [JobId -> Job]
  BY RowTypes DEF LeaseOne
<1>3. \A c \in CostValues : MarkDone(q, j, c) \in [JobId -> Job]
  BY RowTypes DEF MarkDone
<1>4. MarkError(q, j) \in [JobId -> Job]
  BY RowTypes DEF MarkError
<1> QED BY <1>1, <1>2, <1>3, <1>4

LEMMA ClockTypes ==
    ASSUME NEW q \in [JobId -> Job], NEW m \in Nat
    PROVE  /\ SweepStaleLeases(q, m) \in [JobId -> Job]
           /\ AgeRunning(q) \in [JobId -> Job]
           /\ NewDay(q) \in [JobId -> Job]
<1>1. SweepStaleLeases(q, m) \in [JobId -> Job]
  <2>1. ASSUME NEW j \in JobId
        PROVE  (IF Stale(q, j, m) THEN [q[j] EXCEPT !.state = "error", !.age = 0]
                ELSE q[j]) \in Job
    <3>1. q[j] \in Job
      OBVIOUS
    <3> QED BY <3>1, RowTypes
  <2> QED BY <2>1 DEF SweepStaleLeases
<1>2. AgeRunning(q) \in [JobId -> Job]
  <2>1. ASSUME NEW j \in JobId
        PROVE  (IF q[j].state = "running" /\ q[j].age < AgeCap
                THEN [q[j] EXCEPT !.age = @ + 1] ELSE q[j]) \in Job
    <3>1. q[j] \in Job
      OBVIOUS
    <3> QED BY <3>1, RowTypes
  <2> QED BY <2>1 DEF AgeRunning
<1>3. NewDay(q) \in [JobId -> Job]
  <2>1. \A j \in JobId : [q[j] EXCEPT !.today = FALSE] \in Job
    <3> TAKE j \in JobId
    <3>1. q[j] \in Job
      OBVIOUS
    <3> QED BY <3>1, RowTypes
  <2> QED BY <2>1 DEF NewDay
<1> QED BY <1>1, <1>2, <1>3
=============================================================================
