------------------------ MODULE MCOptimisticLocking ------------------------
(* Instances of OptimisticLocking for TLC. *)
EXTENDS OptimisticLocking, TLC

\* Clients are interchangeable, and so are edits.
Interchangeable == Permutations(Clients) \cup Permutations(Edits)

=============================================================================
