---------------------------- MODULE JobLifecycle ----------------------------
(***************************************************************************)
(* What the study queue promises to those who put jobs into it: jobs are   *)
(* taken in order, each is taken once, an outcome is final once it is      *)
(* done, and no job stays without an outcome.  How the worker gets there   *)
(* (threads, time-outs, sweeps, restarts) is left out.                     *)
(***************************************************************************)
EXTENDS Naturals

CONSTANT Jobs       \* a set of numbers, in the order of submission

VARIABLE life       \* the state each job shows

State == {"none", "queued", "running", "done", "error"}

LifeInit == life = [j \in Jobs |-> "none"]

Submit(j) ==
    /\ life[j] = "none"
    /\ \A k \in Jobs : k < j => life[k] # "none"
    /\ life' = [life EXCEPT ![j] = "queued"]

\* Only the oldest waiting job may be claimed.
Claim(j) ==
    /\ life[j] = "queued"
    /\ \A k \in Jobs : life[k] = "queued" => j <= k
    /\ life' = [life EXCEPT ![j] = "running"]

\* A claimed job reports; so does one that was given up too early.
Report(j, outcome) ==
    /\ life[j] \in {"running", "error"}
    /\ life' = [life EXCEPT ![j] = outcome]

\* Some claimed jobs are given up, at one moment.
GiveUp(S) ==
    /\ \A j \in S : life[j] = "running"
    /\ life' = [j \in Jobs |-> IF j \in S THEN "error" ELSE life[j]]

LifeNext ==
    \/ \E j \in Jobs : Submit(j) \/ Claim(j) \/ Report(j, "done") \/ Report(j, "error")
    \/ \E S \in SUBSET Jobs : GiveUp(S)

\* A step in which job j, claimed, gets its outcome.
Settle(j) == life[j] = "running" /\ LifeNext /\ life'[j] # "running"

LifeFairness ==
    /\ WF_life(\E j \in Jobs : Claim(j))
    /\ \A j \in Jobs : WF_life(Settle(j))

LifeSpec == LifeInit /\ [][LifeNext]_life

FairLife == LifeSpec /\ LifeFairness
=============================================================================
