----------------------------- MODULE MCOtDispatch --------------------------
(***************************************************************************)
(* Two parties with different machines; every input of one to twelve       *)
(* elements, and two calls one after the other, of one to three slices.    *)
(***************************************************************************)
EXTENDS OtDispatch

CONSTANTS p1, p2

MCCores == p1 :> 3 @@ p2 :> 4
MCPrograms == {<<n>> : n \in 1 .. 12} \cup {<<4, 10>>, <<10, 5>>}

Done == (\A p \in Parties : pc[p] \in {"returned", "threw"}) /\ UNCHANGED vars

MCSpec == Init /\ [][Next \/ Done]_vars /\ Fairness
=============================================================================
