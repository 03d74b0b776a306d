--------------------------- MODULE MCStudyPipeline --------------------------
(* Small instances of StudyPipeline for TLC. *)
EXTENDS StudyPipeline
\* The rows of one light alert.
LightKind == [a \in Actions |-> "run_full_study"]
LightBrief == [a \in Actions |-> "light"]
\* A refinement in front of a study.
QueueKind == [a \in Actions |-> IF a = 1 THEN "refine_brief" ELSE "run_full_study"]
QueueBrief == [a \in Actions |-> IF a = 1 THEN "full" ELSE "light"]
=============================================================================
