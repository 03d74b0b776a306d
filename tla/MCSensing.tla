----------------------------- MODULE MCSensing ------------------------------
(* Small instances of Sensing for TLC. *)
EXTENDS Sensing
\* Distinct texts, every item with an id of its own.
OwnText == [i \in Items |-> i]
OwnId == [i \in Items |-> i]
OwnSimilar == {<<i, i>> : i \in Items}
\* Two items of a poller of any kind, one message pushed.
PolledAndPushed == [i \in Items |-> IF i = 3 THEN "push" ELSE "poll"]
EveryKind == [s \in Sources |-> IF s = "push" THEN {"push"} ELSE Shapes \ {"push"}]
ItemStamp == [i \in Items |-> i]
WidePage == [s \in Sources |-> 2]
=============================================================================
