------------------------------ MODULE Sensing -------------------------------
(***************************************************************************)
(* The sensing layer: the adapters publish, the triage daemon consumes.    *)
(***************************************************************************)
EXTENDS Triage, Adapters

triageOnly == <<read, pel, idle, dead, storeVars, consumerVars, reaping, faultsLeft>>
sensingVars == <<triageVars, adapterVars>>

SensingInit == TriageInit /\ AdaptersInit

SensingNext ==
    \/ TriageStep /\ UNCHANGED adapterVars
    \/ AdaptersStep /\ UNCHANGED triageOnly
    \/ NothingListed /\ Quiet

\* The polls of every adapter and the fairness of the triage daemon.
SensingFairness ==
    /\ \A s \in Sources : WF_sensingVars(Poll(s) /\ UNCHANGED triageOnly)
    /\ \A c \in Consumers : WF_sensingVars(Consume(c) /\ UNCHANGED adapterVars)
    /\ \A e \in Entries :
          WF_sensingVars((GoesIdle(e) \/ ReapAck(e)) /\ UNCHANGED adapterVars)

SensingSpec == SensingInit /\ [][SensingNext]_sensingVars /\ SensingFairness
-----------------------------------------------------------------------------
Traced(i) ==
    \E e \in 1..Len(stream) : /\ stream[e] = i
                              /\ dead[e] > 0 \/ \E r \in Rows : events[r].entry = e

\* Whatever the sources list is judged in the end, or deferred, or
\* dead-lettered, unless a page or a poll cut short left it out; and every
\* entry of the stream is settled, an unreadable one included.
AllIsTraced ==
    []<>( /\ \A i \in listed : Traced(i) \/ i \in cut
          /\ \A e \in 1..Len(stream) : Acked(e))

\* A deferred item is scored when its source publishes it again (the operator
\* note in triage.py: poll-based adapters do on their next sweep).
DeferredIsScored ==
    \A i \in Items :
        (\E r \in Rows : stream[events[r].entry] = i /\ events[r].status = "deferred")
            ~> (\E r \in Rows : stream[events[r].entry] = i /\ events[r].status # "deferred")
=============================================================================
