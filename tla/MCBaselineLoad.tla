--------------------------- MODULE MCBaselineLoad ---------------------------
(* A stage table of two chunks, published by two workers. *)
EXTENDS BaselineLoad, TLC

\* Every key is in the stage table once.
CleanStage == <<{1}, {2}>>
\* A repeated bulk batch left key 2 in the stage table twice.
RepeatedStage == <<{1, 2}, {2, 3}>>

WorkerSymmetry == Permutations(Workers)
=============================================================================
