----------------------------- MODULE MCCdcApply -----------------------------
(* The changes of two rows, the first and the third of the same one. *)
EXTENDS CdcApply

MCEventKey == <<"k", "l", "k">>

\* Two failing events, or one trouble of another kind.
MCMaxTroubles == [failures |-> 2, deaths |-> 1, pauses |-> 1, cancels |-> 1, faults |-> 1, slow |-> 1]
FailuresOnly == [kind \in TroubleKinds |-> IF kind = "failures" THEN 1 ELSE 0]

WithinBound == Cardinality({kind \in TroubleKinds : trouble'[kind] > 0}) <= 1
=============================================================================
