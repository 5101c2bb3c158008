---------------------------- MODULE MCRunDriver ----------------------------
(* Instances of RunDriver for TLC. *)
EXTENDS RunDriver, TLC

CONSTANTS d1, d2, r1

\* The -run-dir argument is the same for both invocations.
PairShares == (d1 :> r1) @@ (d2 :> r1)

=============================================================================
