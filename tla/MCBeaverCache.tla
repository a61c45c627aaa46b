--------------------------- MODULE MCBeaverCache ----------------------------
(***************************************************************************)
(* Two parties, two variables, of which v is marked at first, and two      *)
(* contexts, at once or one after the other.                               *)
(*                                                                         *)
(* Contexts that follow one another run one of three kinds of programs:    *)
(* three products of the variables and their transposes, with drops, in    *)
(* one context; variables that are marked, dropped and replaced between    *)
(* their squares, over both contexts; or products of v, one of them in     *)
(* the second context, which replays what the first has cached.  Contexts  *)
(* at once run two operations in the one and one operation in the other.   *)
(***************************************************************************)
EXTENDS BeaverCache, TLC

CONSTANTS p1, p2, t1, t2, v, w, a1, a2, a3

Shared == [t \in Thread |-> Var]

Apart == [t \in Thread |-> IF t = t1 THEN {v} ELSE {w}]

AtOnce == [t \in Thread |-> {}]

InTurn == [t \in Thread |-> IF t = t1 THEN {} ELSE {t1}]

Symmetric == Permutations(Party) \cup Permutations(Addr)

CONSTANT Scenarios

VARIABLE scenario

(* The operations a thread may run, and how many.                          *)
Allowed(op) ==
  \/ scenario = "products" /\ op.kind \in {"mul", "dot", "square", "disable"}
  \/ scenario = "lives" /\ op.kind \in {"square", "enable", "disable", "replace"} /\ ~op.x.trans
  \/ scenario = "joins" /\ op.kind \in {"mul", "dot", "disable"} /\ op.x.var = v /\ op.y.var = v
  \/ scenario = "forks" /\ ~op.x.trans /\ (op.x.var = w => op.y = op.x)

Limit(t) ==
  CASE scenario = "products" -> IF t = t1 THEN 3 ELSE 0
    [] scenario = "lives" -> IF t = t1 THEN 3 ELSE 2
    [] scenario = "joins" -> IF t = t1 THEN 3 ELSE 1
    [] scenario = "forks" -> IF t = t1 THEN 2 ELSE 1

InScenario ==
  \A t \in Thread :
    /\ issued[t] <= Limit(t)
    /\ \A p \in Party : \A i \in DOMAIN todo[p][t] : Allowed(todo[p][t][i])

(* A failed check ends the program.                                        *)
Failed == \E p \in Party, t \in Thread : frame[p][t].step = "Failed"

Finished ==
  \A p \in Party, t \in Thread :
    frame[p][t].step = "Idle" /\ todo[p][t] = <<>> /\ issued[t] = Limit(t)

MCInit == Init /\ scenario \in Scenarios

MCSpec ==
  /\ MCInit
  /\ [][\/ Next /\ UNCHANGED scenario /\ InScenario'
        \/ (Finished \/ Failed) /\ UNCHANGED <<vars, scenario>>]_<<vars, scenario>>

MCFairSpec == MCSpec /\ Fairness
=============================================================================
