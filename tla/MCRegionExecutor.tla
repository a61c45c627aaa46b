-------------------------- MODULE MCRegionExecutor -------------------------
(***************************************************************************)
(* Every function of four operations in one of the shapes below whose      *)
(* second operation has regions: 1 is plain; 2 has two regions, or one and *)
(* the operation in it has another; 3 and 4 are inside or after.           *)
(***************************************************************************)
EXTENDS RegionExecutor, TLC

Shapes ==
  { [block |-> b, owner |-> <<2, 2>>] :
      b \in {<<0, 0, 1, 1>>, <<0, 0, 1, 2>>, <<0, 0, 1, 0>>, <<0, 0, 2, 0>>, <<0, 0, 0, 0>>} }
  \cup { [block |-> <<0, 0, 1, 2>>, owner |-> <<2, 3>>] }

(* The values that can be used at position n of block b.                   *)
Dominating(s, b, n) ==
  LET at[c \in 0 .. 2, m \in 1 .. 5] ==
        {Arg(c)} \cup {v \in 1 .. (m - 1) : s.block[v] = c}
        \cup IF c = 0 THEN {} ELSE at[s.block[s.owner[c]], s.owner[c]]
  IN at[b, n]

Few(S) == {T \in SUBSET S : Cardinality(T) \in 1 .. 2}

Kinds(s) ==
  IF s.owner[2] = 2 THEN {<<"plain", k, "plain", "plain">> : k \in {"if", "while"}}
  ELSE {<<"plain", "apply", "apply", "plain">>}

Nested ==
  UNION { { [size |-> 4, block |-> s.block, owner |-> s.owner, kind |-> k,
             operands |-> <<{Arg(0)}, {v2}, u3, u4>>,
             yields |-> (0 :> {y0}) @@ (1 :> {y1}) @@ (2 :> {y2})] :
              k  \in Kinds(s),
              v2 \in Dominating(s, 0, 2),
              u3 \in {{v} : v \in Dominating(s, s.block[3], 3)},
              u4 \in Few(Dominating(s, s.block[4], 4)),
              y0 \in Dominating(s, 0, 5) \ {Arg(0)},
              y1 \in Dominating(s, 1, 5) \ {Arg(0)},
              y2 \in Dominating(s, 2, 5) \ {Arg(0)} } : s \in Shapes }

(* The function has returned, or has been refused: nothing is left to do.  *)
Done == status # "running" /\ UNCHANGED vars

MCSpec == Init /\ [][Next \/ Done]_vars
=============================================================================
