------------------------ MODULE MCParallelExecutor -------------------------
(***************************************************************************)
(* The block on which the parallel runner is checked: epsilon (a side      *)
(* effect without operands, a barrier for all that follow), a product with *)
(* a cached variable c, pphlo.free(c), which runs as soon as epsilon is    *)
(* done and may come before the product, and an if whose regions capture   *)
(* the product.                                                            *)
(***************************************************************************)
EXTENDS ParallelExecutor

StepValues == {"c", "w", "e", "a", "b"}
StepParams == {"c", "w"}
StepOperands == <<{}, {"c", "w"}, {"c"}, {"w"}>>
StepCaptured == <<{}, {}, {}, {"a"}>>
StepResults == <<{"e"}, {"a"}, {}, {"b"}>>
StepReturned == {"b", "e"}

(* All parties have settled: nothing is left to do.                        *)
Done == (\A p \in Parties : outcome[p] # "running") /\ UNCHANGED vars

MCSpec == Init /\ [][Next \/ Done]_vars

MCFairSpec == MCSpec /\ Fairness
=============================================================================
