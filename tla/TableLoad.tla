------------------------------ MODULE TableLoad ------------------------------
(***************************************************************************)
(* What the bulk load of one table promises, whatever the workers, the     *)
(* queue and the coordinator do to each other: units of the source (one    *)
(* batch of one chunk each) reach the destination in any order, none is    *)
(* ever removed, and the load is declared complete only at a moment when   *)
(* every unit is there.                                                    *)
(***************************************************************************)
CONSTANT Units

VARIABLES
  declared,   \* has the coordinator declared the load complete?
  present     \* the units in the destination table

vars == <<declared, present>>

Init == declared = FALSE /\ present = {}

Load(u) == present' = present \cup {u} /\ UNCHANGED declared

Declare == present = Units /\ declared' = TRUE /\ UNCHANGED present

\* The operator cancels a migration that was already declared loaded.
Withdraw == declared' = FALSE /\ UNCHANGED present

Next == Declare \/ Withdraw \/ \E u \in Units : Load(u)

Spec == Init /\ [][Next]_vars
=============================================================================
