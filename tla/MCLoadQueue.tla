---------------------------- MODULE MCLoadQueue ----------------------------
(* Instances of LoadQueue; in one of them the faults, cancellations, full    *)
(* restarts and pauses are bounded together.                                 *)
EXTENDS LoadQueue

CONSTANT MaxTrouble   \* bound: their sum

WithinBound == faults' + cancels' + restarts' + pauses' <= MaxTrouble
=============================================================================
