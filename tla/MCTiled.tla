------------------------------- MODULE MCTiled -----------------------------
(***************************************************************************)
(* Every shape of rank one to three with dimensions up to three, in blocks *)
(* of two elements, at two parties.  Arrays of up to three tiles are run   *)
(* in every mixture of threads and deferred tasks, with a kernel that may  *)
(* throw; the larger ones with deferred tasks only, without exceptions and *)
(* with the parties at most one tile apart.                                *)
(***************************************************************************)
EXTENDS Tiled

SmallShapes == UNION {[1 .. n -> 1 .. 3] : n \in 1 .. 3}

Modest ==
  Numel > BlockSize /\ NumTiles > 3 =>
    \A p, q \in Parties :
      /\ Len(tasks[p]) <= Len(tasks[q]) + 1
      /\ \A i \in DOMAIN tasks[p] : tasks[p][i].status \notin {"queued", "threw"}

Done == (\A p \in Parties : pc[p] \in {"returned", "threw", "crashed"}) /\ UNCHANGED vars

MCSpec == Init /\ [][(Next /\ Modest') \/ Done]_vars /\ Fairness
=============================================================================
