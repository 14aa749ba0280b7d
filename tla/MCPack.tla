-------------------------------- MODULE MCPack --------------------------------
(* A pack for TLC: its queue and the panel that shows it, or its Debezium       *)
(* connector (part); the other stays as it begins.  The queues: a CDC table     *)
(* followed by a bulk table, two bulk tables in one order, a bulk table         *)
(* followed by another one, and none yet.  The connector meets at most          *)
(* MaxTrouble requests of operators, breakdowns and restarts of the coordinator *)
(* together, and begins with a CDC migration that wants it.                     *)
EXTENDS PackPanel, ConnectorGroup

CONSTANT MaxTrouble

VARIABLE part

allVars == <<part, packVars, groupVars>>

It(t, c, b) == [table |-> t, cdc |-> c, batch |-> b, status |-> "PENDING", phase |-> "DRAFT"]
MCFirstPlans == {<<It("t", TRUE, 1), It("u", FALSE, 2)>>, <<It("t", FALSE, 1), It("u", FALSE, 1)>>,
                 <<It("t", FALSE, 1), It("u", FALSE, 2)>>, <<NoItem, NoItem>>}

Init ==
  /\ part \in {"queue", "connector"}
  /\ PackInit /\ (part = "connector" => row[1] = NoItem)
  /\ GroupInit /\ active = (part = "connector")

OfQueue(A) == part = "queue" /\ A /\ UNCHANGED <<part, groupVars>>
OfGroup(A) == part = "connector" /\ A /\ UNCHANGED <<part, packVars>>

WithinBound == budget'.requests + budget'.breaks + budget'.crashes <= MaxTrouble

QueueStep == OfQueue(PackNext)
GroupStep == OfGroup(GroupNext /\ WithinBound)

\* The part that rests enables none of the fair steps.
Fairness == StartFairness /\ ItemFairness /\ GroupFairness

Spec == Init /\ [][QueueStep \/ GroupStep]_allVars /\ Fairness

\* The type invariants of the two parts.
PackAndGroupTypeOK == PackTypeOK /\ GroupTypeOK
================================================================================
