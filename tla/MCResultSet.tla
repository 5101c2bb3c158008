---------------------------- MODULE MCResultSet ----------------------------
(* Instances of ResultSet for TLC. *)
EXTENDS ResultSet, TLC

MCCell == ("r1" :> "c1") @@ ("r2" :> "c1") @@ ("r3" :> "c2") @@ ("x1" :> "c1")

=============================================================================
