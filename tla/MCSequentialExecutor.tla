----------------------- MODULE MCSequentialExecutor ------------------------
(***************************************************************************)
(* A block with the frees that the deallocation pass inserts: a value      *)
(* freed after its only use, one that an if captures and that is freed     *)
(* later, one that the terminator returns and nobody frees.                *)
(***************************************************************************)
EXTENDS SequentialExecutor

FreedValues == {"x", "w", "c", "a", "b", "e", "d"}
FreedParams == {"x", "w"}
FreedOperands == <<{"x"}, {"c", "w"}, {"c"}, {"w"}, {"a"}, {"a"}, {"b", "e"}, {"b"}>>
FreedCaptured == <<{}, {}, {}, {"a"}, {}, {}, {}, {}>>
FreedResults == <<{"c"}, {"a"}, {}, {"b"}, {"e"}, {}, {"d"}, {}>>
FreedReturned == {"d", "e"}

(* All parties have settled: nothing is left to do.                        *)
Done == (\A p \in Parties : outcome[p] # "running") /\ UNCHANGED vars

MCSpec == Init /\ [][Next \/ Done]_vars /\ Fairness
=============================================================================
