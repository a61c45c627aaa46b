----------------------------- MODULE MCPrgState -----------------------------
(***************************************************************************)
(* Three parties run a kernel that draws an asymmetric pair, a tiled       *)
(* kernel on two slices whose first forks a context and goes on drawing    *)
(* (f_rsqrt), and a shuffle.                                               *)
(***************************************************************************)
EXTENDS PrgState

Request(op, n, first, second, d) ==
  [op |-> op, blocks |-> n, first |-> first, second |-> second, child |-> d]

Publ(n) == Request("publ", n, {}, {}, "main")
Prss(n) == Request("prss", n, Parties, Parties, "main")
Part(n, first, second) == Request("prss", n, first, second, "main")
Perm(n) == Request("perm", n, Parties, Parties, "main")
ForkOf(d) == Request("fork", 1, {}, {}, d)
JoinOf(d) == Request("join", 0, {}, {}, d)

MCContexts == {"main", "slice1", "slice2", "guess"}

MCScript ==
  [c \in MCContexts |->
     CASE c = "main" -> <<Part(2, {0}, {2}), ForkOf("slice1"), ForkOf("slice2"),
                          JoinOf("slice1"), JoinOf("slice2"), Perm(1), Prss(1)>>
       [] c = "slice1" -> <<ForkOf("guess"), Prss(1), JoinOf("guess")>>
       [] c = "slice2" -> <<Publ(1), Part(1, {1}, {0})>>
       [] c = "guess" -> <<Publ(2), Prss(1)>>]

Done == (\A p \in Parties, c \in Contexts : Finished(p, c)) /\ UNCHANGED vars

MCSpec == Init /\ [][Next \/ Done]_vars /\ Fairness
=============================================================================
