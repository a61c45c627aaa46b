----------------------------- MODULE BlockSpec -----------------------------
(***************************************************************************)
(* What executing a block promises, whichever runner does it: at every     *)
(* party each operation is evaluated at most once, on values that have     *)
(* been computed; a barrier comes before the operations that wait for it;  *)
(* an operation that exchanges messages is evaluated only when every party *)
(* is able to evaluate it too; and a party returns when all is evaluated.  *)
(***************************************************************************)
EXTENDS Program

CONSTANT Parties

VARIABLES
  evaluated,  \* evaluated[p]: operations whose kernel is complete at p
  outcome     \* outcome[p]: "running", "returned" or "terminated"

vars == <<evaluated, outcome>>

Init == /\ evaluated = [p \in Parties |-> {}]
        /\ outcome = [p \in Parties |-> "running"]

(* All that o reads has been computed at p, and so have been the barriers  *)
(* before it, unless o has no operand to wait for.                         *)
Evaluable(p, o) ==
  /\ Reads(o) \subseteq Defined(evaluated[p])
  /\ Operands[o] # {} =>
       \A b \in Barriers : b < o /\ Results[b] # {} => b \in evaluated[p]

Evaluate(p, o) ==
  /\ outcome[p] = "running"
  /\ o \notin evaluated[p]
  /\ Evaluable(p, o)
  /\ o \in Comm => \A q \in Parties : Evaluable(q, o)
  /\ evaluated' = [evaluated EXCEPT ![p] = @ \cup {o}]
  /\ UNCHANGED outcome

Return(p) ==
  /\ outcome[p] = "running"
  /\ evaluated[p] = Ops
  /\ outcome' = [outcome EXCEPT ![p] = "returned"]
  /\ UNCHANGED evaluated

(* An exception leaves a kernel: the party is lost.  It takes a kernel     *)
(* that throws, here or at a peer this one waits for.                      *)
Terminate(p) ==
  /\ outcome[p] = "running"
  /\ \E o \in Ops \ evaluated[p] :
       \/ o \in MayThrow
       \/ o \in Comm /\ \E q \in Parties : outcome[q] = "terminated"
  /\ outcome' = [outcome EXCEPT ![p] = "terminated"]
  /\ UNCHANGED evaluated

Next == \E p \in Parties :
          \/ \E o \in Ops : Evaluate(p, o)
          \/ Return(p)
          \/ Terminate(p)

Spec == Init /\ [][Next]_vars
=============================================================================
