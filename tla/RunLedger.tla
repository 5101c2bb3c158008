----------------------------- MODULE RunLedger -----------------------------
(***************************************************************************)
(* What the harness promises about a run directory, without processes,     *)
(* slots, clocks or files: a run is claimed once, its candidate phase is   *)
(* recorded once, its workspace is evaluated at most once and only if the  *)
(* candidate phase produced one, and one result is published that the      *)
(* record and the evaluation justify.                                      *)
(***************************************************************************)
EXTENDS Naturals

CONSTANT RunDirs

VARIABLES claimed, recorded, evaluations, published

vars == <<claimed, recorded, evaluations, published>>

Evaluable == {"submitted", "timed-out"}
Failure   == {"harness-failure", "infrastructure-failure"}
None      == "none"

Init ==
    /\ claimed     = [r \in RunDirs |-> FALSE]
    /\ recorded    = [r \in RunDirs |-> None]
    /\ evaluations = [r \in RunDirs |-> 0]
    /\ published   = [r \in RunDirs |-> None]

Claim(r) ==
    /\ ~claimed[r]
    /\ claimed' = [claimed EXCEPT ![r] = TRUE]
    /\ UNCHANGED <<recorded, evaluations, published>>

Record(r, status) ==
    /\ claimed[r] /\ recorded[r] = None
    /\ recorded' = [recorded EXCEPT ![r] = status]
    /\ UNCHANGED <<claimed, evaluations, published>>

Evaluate(r) ==
    /\ recorded[r] \in Evaluable /\ evaluations[r] = 0
    /\ evaluations' = [evaluations EXCEPT ![r] = 1]
    /\ UNCHANGED <<claimed, recorded, published>>

\* A failed candidate phase is published as it was recorded; an evaluated one
\* keeps its status unless the evaluation itself failed.
Justified(r, status) ==
    \/ recorded[r] \in Failure   /\ status = recorded[r]
    \/ recorded[r] \in Evaluable /\ evaluations[r] = 1 /\ status \in {recorded[r]} \cup Failure

Publish(r, status) ==
    /\ published[r] = None /\ Justified(r, status)
    /\ published' = [published EXCEPT ![r] = status]
    /\ UNCHANGED <<claimed, recorded, evaluations>>

Next ==
    \E r \in RunDirs :
        \/ Claim(r) \/ Evaluate(r)
        \/ \E s \in Evaluable \cup Failure : Record(r, s) \/ Publish(r, s)

Spec == Init /\ [][Next]_vars
=============================================================================
