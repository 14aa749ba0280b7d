---------------------------- MODULE MCBaselineCdc ----------------------------
(* What a staged migration with CDC writes into its target table after the    *)
(* bulk load: its baseline, a stage table of two chunks published by two      *)
(* workers, or (part), when the baseline is over, the changes of two rows,    *)
(* applied by two workers: two that are there already and a third one.  The   *)
(* changes meet two failing events, or one death, fault, pause, cancellation  *)
(* or slow worker.                                                            *)
EXTENDS BaselineLoad, MCCdcApply

VARIABLE part

allVars == <<part, vars, cdcVars>>

CleanStage == <<{1}, {2}>>
BaselineOver ==
  /\ phase = "INDEXES_ENABLING" /\ restartable = FALSE
  /\ chunk = NoRows /\ wk = [w \in Workers |-> Idle]
  /\ copies = [k \in Rows |-> IF k \in Stage THEN 1 ELSE 0] /\ staged = FALSE
  /\ thread = "none" /\ tick = "read" /\ request = "none" /\ faults = 0 /\ restarts = 0

MCInit ==
  /\ CdcInit /\ produced = MaxEvent - 1
  /\ \/ part = "baseline" /\ Init
     \/ part = "changes" /\ BaselineOver

OfBaseline(A) == part = "baseline" /\ A /\ UNCHANGED <<part, cdcVars>>
OfChanges(A) == part = "changes" /\ A /\ UNCHANGED <<part, vars>>

BaselineStep == OfBaseline(Next)
ChangesStep == OfChanges(CdcNext /\ WithinBound)

\* Nothing that is fair is enabled once the baseline is over.
MCSpec == MCInit /\ [][BaselineStep \/ ChangesStep]_allVars /\ Fairness

\* The type invariants of the two parts.
BaselineAndCdcTypeOK == TypeOK /\ CdcTypeOK
==============================================================================
