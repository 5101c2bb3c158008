------------------------ MODULE MCEvaluatorWrapper -------------------------
(* Instances of EvaluatorWrapper for TLC. *)
EXTENDS EvaluatorWrapper

\* A registry with a baseline case, two cases of the task and one of another.
Registry == <<"all", "task", "other", "task">>

=============================================================================
