----------------------------- MODULE MCPromoter -----------------------------
(* Small instances of Promoter for TLC. *)
EXTENDS Promoter
\* The second event names the ticker of the first one and another.
OverlapNames == <<{1}, {1, 2}>>
=============================================================================
