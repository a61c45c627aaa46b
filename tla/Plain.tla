------------------------------- MODULE Plain -------------------------------
(***************************************************************************)
(* The kernels on values that are not shared: public ones, which every     *)
(* party has, and private ones, which an owner has (mpc/common/pv2k.cc),   *)
(* and those that move the elements of any value (mpc/standard_shape).  A  *)
(* kernel has the name it is bound to.                                     *)
(***************************************************************************)
EXTENDS Parties

(* A kernel's forms for public values and for those of one owner, alone or *)
(* with a public one.  Who does not own a value returns what it was given. *)
On(p, publics, privates, z) ==
  LET op == Call(p).op
      x == Arg(p, 1)
  IN  /\ at[p] <= Len(job.calls)
      /\ op \in publics \cup privates
      /\ Local(p, op, IF op \in publics THEN Pub(z)
                      ELSE IF p = x.owner THEN Priv(x.owner, <<z>>) ELSE x)

negate(p) ==
  On(p, {"negate_p"}, {"negate_v"}, ring_neg(Left(p, 1)))
msb(p) ==
  On(p, {"msb_p"}, {"msb_v"}, ring_rshift(Left(p, 1), K - 1))
equal(p) ==
  On(p, {"equal_pp"}, {"equal_vvv", "equal_vp"},
     ring_equal(Left(p, 1), Left(p, 2)))
add(p) ==
  On(p, {"add_pp"}, {"add_vvv", "add_vp"}, Left(p, 1) ++ Left(p, 2))
mul(p) ==
  On(p, {"mul_pp"}, {"mul_vvv", "mul_vp"}, Left(p, 1) ** Left(p, 2))
mmul(p) ==
  On(p, {"mmul_pp"}, {"mmul_vvv", "mmul_vp"},
     ring_mmul(Left(p, 1), Left(p, 2), Par(p).m, Par(p).k, Par(p).n))
and(p) ==
  On(p, {"and_pp"}, {"and_vvv", "and_vp"}, Left(p, 1) && Left(p, 2))
xor(p) ==
  On(p, {"xor_pp"}, {"xor_vvv", "xor_vp"}, Left(p, 1) ## Left(p, 2))
lshift(p) ==
  On(p, {"lshift_p"}, {"lshift_v"}, ring_lshift(Left(p, 1), Par(p).bits))
rshift(p) ==
  On(p, {"rshift_p"}, {"rshift_v"}, ring_rshift(Left(p, 1), Par(p).bits))
arshift(p) ==
  On(p, {"arshift_p"}, {"arshift_v"}, ring_arshift(Left(p, 1), Par(p).bits))

(* To the nearest: the highest bit that is cut off is added.               *)
rounded_arshift(x, bits) ==
  ring_arshift(x, bits) ++ (ring_arshift(x, bits - 1) && Fill(x, 1))
trunc(p) ==
  On(p, {"trunc_p"}, {"trunc_v"}, rounded_arshift(Left(p, 1), Par(p).bits))
bitrev(p) ==
  On(p, {"bitrev_p"}, {"bitrev_v"},
     ring_bitrev(Left(p, 1), Par(p).start, Par(p).end))

-----------------------------------------------------------------------------
(* Permutations and groups of equal keys.  The place of an element in the  *)
(* order is the number of those before it, by the first of its keys that   *)
(* differ; the sort is stable and of the signed values.                    *)
Before(x, ascending, j, i) ==
  LET key(k, l) == IF ascending THEN Signed(x[k][l]) ELSE -Signed(x[k][l])
      differ == {k \in DOMAIN x : x[k][j] # x[k][i]}
  IN  IF differ = {} THEN j < i ELSE key(Min(differ), j) < key(Min(differ), i)
InOrder(x, ascending) ==
  [i \in DOMAIN x[1] |-> Cardinality({j \in DOMAIN x[1] : Before(x, ascending, j, i)})]
gen_inv_perm(p) ==
  On(p, {"gen_inv_perm_p"}, {"gen_inv_perm_v"},
     InOrder(<<Left(p, 1)>>, Par(p).ascending))
inv_perm(p) ==
  On(p, {"inv_perm_pp"}, {"inv_perm_vv"},
     applyInvPerm(Left(p, 1), Left(p, 2)))
perm(p) ==
  On(p, {"perm_pp"}, {"perm_vv"}, applyPerm(Left(p, 1), Left(p, 2)))

(* Keys x, of which any may differ from place i to the next.               *)
Keys(p) == [i \in DOMAIN Call(p).args |-> Left(p, i)]
Alter(x, i) == \E k \in DOMAIN x : x[k][i] # x[k][i + 1]

(* One key whose order is that of all, where they are in order.            *)
Merged(x, ascending) ==
  [i \in DOMAIN x[1] |->
     LET steps == Cardinality({j \in 1 .. i - 1 : Alter(x, j)})
     IN  (IF ascending THEN steps ELSE -steps) % Pow2[K]]
merge_keys(p) ==
  On(p, {"merge_keys_p"}, {"merge_keys_v"},
     Merged(Keys(p), Par(p).ascending))

(* 1 at the end of a group; or 0 at its start.                             *)
Marks(x, ends) ==
  LET n == Len(x[1])
      ended(i) == i = n \/ Alter(x, i)
      started(i) == i = 1 \/ Alter(x, i - 1)
  IN  [i \in 1 .. n |-> IF ends THEN (IF ended(i) THEN 1 ELSE 0)
                        ELSE IF started(i) THEN 0 ELSE 1]
group_mark(p) ==
  On(p, {"group_mark_p"}, {"group_mark_v"}, Marks(Keys(p), Par(p).ends))

-----------------------------------------------------------------------------
(* From one kind of values to another.                                     *)
v2p(p) == Broadcast(p, "v2p", Pub)
p2v(p) == For(p, "p2v")

rand_p(p) ==
  LET x == Shape(Par(p).numel)
  IN  Alone(p, "rand_p", Publ(Blocks(x, K)), Pub(FillPubl(p, 0, x, K)))

-----------------------------------------------------------------------------
(* The elements of a value, every component of a share alike: those at the *)
(* places of a list (a slice, a transpose, a reverse, a broadcast, a       *)
(* reshape is such a list), and those of several values one after another. *)
Places(p) == Par(p).places
gather(p) ==
  LET x == Arg(p, 1)
      taken(s) == [i \in DOMAIN Places(p) |-> s[Places(p)[i]]]
  IN  Local(p, "gather", [x EXCEPT !.s = [h \in DOMAIN x.s |-> taken(x.s[h])]])
concatenate(p) ==
  LET x == Arg(p, 1)
      all(h) == FlattenSeq([i \in DOMAIN Call(p).args |-> Arg(p, i).s[h]])
  IN  Local(p, "concatenate", [x EXCEPT !.s = [h \in DOMAIN x.s |-> all(h)]])

(* The number of bits a Boolean share is said to have.                     *)
setNbits(p) == Local(p, "setNbits", [Arg(p, 1) EXCEPT !.nbits = Par(p).nbits])

(* hal::constant of the values given, hal::iota.                           *)
constant(p) == Local(p, "constant", Pub(Par(p).x))

(* sort1d by public keys: a value of any kind in the order of the others.  *)
(* std::sort leaves equal elements in their order where they are few.      *)
sort_public(p) ==
  LET x == Arg(p, 1)
      keys == [i \in 1 .. Len(Call(p).args) - 1 |-> Left(p, i + 1)]
      sorted(s) == applyInvPerm(s, InOrder(keys, Par(p).ascending))
  IN  Local(p, "sort_public", [x EXCEPT !.s = [h \in DOMAIN x.s |-> sorted(x.s[h])]])

Kernel(p) ==
  \/ negate(p) \/ msb(p) \/ equal(p) \/ add(p) \/ mul(p) \/ mmul(p)
  \/ and(p) \/ xor(p) \/ lshift(p) \/ rshift(p) \/ arshift(p) \/ trunc(p)
  \/ bitrev(p) \/ gen_inv_perm(p) \/ inv_perm(p) \/ perm(p) \/ merge_keys(p)
  \/ group_mark(p) \/ v2p(p) \/ p2v(p) \/ rand_p(p) \/ gather(p)
  \/ concatenate(p) \/ setNbits(p) \/ constant(p) \/ sort_public(p)
=============================================================================
