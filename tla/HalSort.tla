------------------------------- MODULE HalSort -------------------------------
(***************************************************************************)
(* Permutations, sorting and grouping of vectors of any kind:              *)
(* kernel/hal/permute.cc, group_by_agg.cc and the scan of utils.h.  The    *)
(* operations work on several vectors at once, which have numbers as       *)
(* names; quick sort and quick select, whose calls depend on bits that are *)
(* opened, are left out.                                                   *)
(***************************************************************************)
EXTENDS HalRing

In(i) == "x " \o ToString(i)
Ins(n) == [i \in 1 .. n |-> In(i)]
Each(n, op, with) == [i \in 1 .. n |-> Let(In(i), op, <<In(i), with>>)]
EachOf(n, op, par) == [i \in 1 .. n |-> Line(<<In(i)>>, op, par, <<In(i)>>)]
All(n, op, with) == << Line(Ins(n), op, NoPar, Ins(n) \o with) >>
Shared(x) == Line(<<x>>, "p2s", [bool |-> FALSE], <<x>>)
_2s(x, t) ==
  CASE Vis(t) = "p" -> << Shared(x) >> [] Vis(t) = "v" -> << Let(x, "v2s", <<x>>) >>
    [] OTHER -> <<>>
iota(to, numel) == Line(<<to>>, "constant", [x |-> [i \in 1 .. numel |-> i - 1]], <<>>)
Every(first, step, last) ==
  [i \in 1 .. (last - first + step) \div step |-> first + (i - 1) * step]

(* associative_scan of a vector with _add: the sums of neighbours are      *)
(* scanned, which gives every second sum, and the others follow from them. *)
Spread(to, x, start, n, t) ==
  << Constant("zero", 0, "one"), Line(<<"zero">>, "_cast_type", t[1], <<"zero">>),
     Line(<<to>>, "concatenate", NoPar, <<x, "zero">>),
     Take(to, [i \in 1 .. n |-> IF i % 2 = start % 2 THEN (i + 1) \div 2
                                ELSE 1 + ((n + (start % 2)) \div 2)], to) >>
associative_scan(t) ==
  LET n == t[1].numel
      half == n \div 2
  IN  IF n < 2 THEN Code(<<"x">>, <<>>, <<"x">>)
      ELSE Code(<<"x">>,
             << Take("one", <<1>>, "x"),
                Take("firsts", Every(1, 2, n - 1), "x"), Take("seconds", Every(2, 2, n), "x"),
                Let("pairs", "_add", <<"firsts", "seconds">>),
                Let("odd", "associative_scan", <<"pairs">>) >>
             \o (IF n = 2 THEN << Take("even", <<1>>, "x") >>
                 ELSE << Take("before", Every(1, 1, (n - 1) \div 2), "odd"),
                         Take("rest", Every(3, 2, n), "x"),
                         Let("even", "_add", <<"before", "rest">>),
                         Line(<<"even">>, "concatenate", NoPar, <<"one", "even">>) >>)
             \o Spread("padded even", "even", 1, n, t)
             \o Spread("padded odd", "odd", 0, n, t)
             \o << Let("r", "_add", <<"padded even", "padded odd">>) >>,
             <<"r">>)

-----------------------------------------------------------------------------
(* The inverse of a secret permutation is applied to vectors: all are      *)
(* shuffled alike, the shuffled permutation is opened and its inverse is   *)
(* applied to the shuffled vectors.                                        *)
Shuffled(n) ==
  << Let("sp", "perm_ss", <<"perm", "shuffle">>) >> \o Each(n, "perm_ss", "shuffle")
  \o << Let("m", "s2p", <<"sp">>) >> \o Each(n, "inv_perm_sp", "m")
RandPerm(numel) == << Line(<<"shuffle">>, "rand_perm_s", [numel |-> numel], <<>>) >>
_opt_apply_inv_perm_ss(n) ==
  Code(Ins(n) \o <<"perm", "shuffle">>, Shuffled(n), Ins(n) \o <<"m">>)
_apply_inv_perm_ss(n, t) ==
  Code(Ins(n) \o <<"perm">>, RandPerm(t[1].numel) \o Shuffled(n), Ins(n))
_opt_apply_perm_ss ==
  Code(<<"perm", "m", "shuffle">>,
    << Let("sm", "perm_sp", <<"perm", "m">>), Let("r", "inv_perm_ss", <<"sm", "shuffle">>) >>,
    <<"r">>)
_apply_perm_ss(n, t) ==
  Code(Ins(n) \o <<"perm">>,
    RandPerm(t[1].numel)
    \o << Let("sp", "perm_ss", <<"perm", "shuffle">>), Let("m", "s2p", <<"sp">>) >>
    \o Each(n, "perm_sp", "m") \o Each(n, "inv_perm_ss", "shuffle"),
    Ins(n))

(* Secret vectors and a permutation of one party.                          *)
_apply_inv_perm_sv(n, program) ==
  Code(Ins(n) \o <<"perm">>,
    IF Has(program, "inv_perm_av") THEN Each(n, "inv_perm_sv", "perm")
    ELSE << Let("perm", "v2s", <<"perm">>) >> \o All(n, "_apply_inv_perm_ss", <<"perm">>),
    Ins(n))
_apply_perm_sv(n) ==
  Code(Ins(n) \o <<"perm">>,
    << Let("perm", "_inverse", <<"perm">>) >> \o All(n, "_apply_inv_perm_sv", <<"perm">>),
    Ins(n))
_inverse(t) ==
  Code(<<"perm">>, << iota("i", t[1].numel), Let("r", "_apply_inv_perm", <<"i", "perm">>) >>,
       <<"r">>)
_compose_perm ==
  Code(<<"x", "y">>, << Let("r", "_apply_perm", <<"y", "x">>) >>, <<"r">>)

(* MAP_PERM_OP: name is "inv_perm" or "perm".  The vectors are of one kind. *)
_apply(name, t) ==
  LET n == Len(t) - 1
      x == t[1]
      perm == t[n + 1]
      kinds == Vis(x) \o Vis(perm)
      Run(kind) == All(n, "_apply_" \o name \o "_" \o kind, <<"perm">>)
      Plainly(kind) == Each(n, name \o "_" \o kind, "perm")
      V2S == EachOf(n, "v2s", NoPar)
  IN  IF \E i \in 1 .. n : Vis(t[i]) # Vis(x) \/ (Vis(x) = "v" /\ t[i].n # x.n)
      THEN NoCalls     \* throws
      ELSE Code(Ins(n) \o <<"perm">>,
        CASE kinds = "pp" -> Plainly("pp")
          [] kinds = "ps" -> EachOf(n, "p2s", [bool |-> FALSE]) \o Run("ss")
          [] kinds = "pv" -> EachOf(n, "p2v", [owner |-> perm.n]) \o Plainly("vv")
          [] kinds = "vv" /\ x.n = perm.n -> Plainly("vv")
          [] kinds = "vv" /\ x.n # perm.n -> V2S \o Run("sv")
          [] kinds = "vp" ->
               << Line(<<"perm">>, "p2v", [owner |-> x.n], <<"perm">>) >> \o Plainly("vv")
          [] kinds = "vs" -> V2S \o Run("ss")
          [] kinds = "ss" -> Run("ss")
          [] kinds = "sp" -> Plainly("sp")
          [] kinds = "sv" -> Run("sv"),
        Ins(n))

-----------------------------------------------------------------------------
(* Radix sort.  Keys are taken apart into bits, by the number of bits their *)
(* type has or the caller says.                                            *)
BitsIn(t, valid) == IF valid # -1 THEN valid ELSE IF IsB(t) THEN t.n ELSE K
Bv(i, j) == "bit " \o ToString(<<i, j>>)
_bit_decompose(n, t, program) ==
  LET numel == t[1].numel
      out == [j \in 1 .. n |-> Bv(0, j)]
      b == << Let("b", "_prefer_b", <<"x">>),
              Line(<<"b">>, "setNbits", [nbits |-> n], <<"b">>) >>
  IN  Code(<<"x">>,
        IF Has(program, "b2a_disassemble")
        THEN Append(b, Itself(out, "B2A_Disassemble", NoPar, <<"b">>))
        ELSE b \o << Constant("k1", 1, "x") >>
             \o Levels([j \in 1 .. n |->
                  << LetBy(out[j], "_rshift", j - 1, <<"b">>),
                     Let(out[j], "_and", <<out[j], "k1">>) >>])
             \o << Line(<<"all">>, "concatenate", NoPar, out), Let("all", "_prefer_a", <<"all">>) >>
             \o [j \in 1 .. n |-> Take(out[j], Every((j - 1) * numel + 1, 1, j * numel), "all")],
        out)

(* The bits from the lowest of the last key to the highest of the first;   *)
(* for a descending order all are flipped, and the highest of a key, which *)
(* is its sign, for an ascending one.                                      *)
_gen_bv_vector(n, ascending, bits) ==
  Levels([h \in 1 .. n |->
    LET i == n + 1 - h
        bv == [j \in 1 .. bits[i] |-> Bv(i, j)]
        Flipped(j) == IF j < bits[i] THEN ~ascending ELSE ascending
    IN  << Line(bv, "_bit_decompose", [nbits |-> bits[i]], <<In(i)>>) >>
        \o Levels([j \in 1 .. bits[i] |->
             IF Flipped(j) THEN << Let(bv[j], "_sub", <<"k1", bv[j]>>) >> ELSE <<>>])])

(* The place of every element by one bit, or by two: the elements of each  *)
(* group are counted, after those of the groups before it.                 *)
Counted(f, numel) ==
  << Line(<<"f">>, "concatenate", NoPar, f), Let("ps", "associative_scan", <<"f">>),
     Let("fs", "_mul", <<"f", "ps">>) >>
  \o [j \in DOMAIN f |-> Take(f[j], Every((j - 1) * numel + 1, 1, j * numel), "fs")]
_gen_inv_perm_by_bv(t) ==
  LET numel == t[1].numel
      rev(to, of) == Let(to, "_sub", <<"k1", of>>)
  IN  IF Len(t) = 1
      THEN Code(<<"x">>,
             << Constant("k1", 1, "x"), rev("rev_x", "x") >>
             \o Counted(<<"rev_x", "x">>, numel)
             \o << Let("r", "_add", <<"rev_x", "x">>), Let("res", "_sub", <<"r", "k1">>) >>,
             <<"res">>)
      ELSE Code(<<"x", "y">>,
             << Constant("k1", 1, "x"), rev("rev_x", "x"), rev("rev_y", "y"),
                Let("f0", "_mul", <<"rev_x", "rev_y">>), Let("f1", "_sub", <<"rev_y", "f0">>),
                Let("f2", "_sub", <<"rev_x", "f0">>), Let("f3", "_sub", <<"y", "f2">>) >>
             \o Counted(<<"f0", "f1", "f2", "f3">>, numel)
             \o << Let("s01", "_add", <<"f0", "f1">>), Let("s23", "_add", <<"f2", "f3">>),
                   Let("r", "_add", <<"s01", "s23">>), Let("res", "_sub", <<"r", "k1">>) >>,
             <<"res">>)

_gen_inv_perm_s(par, t) ==
  LET n == Len(t)
      numel == t[1].numel
      bits == [i \in 1 .. n |-> BitsIn(t[i], par.bits)]
      bv == FlattenSeq([h \in 1 .. n |-> [j \in 1 .. bits[n + 1 - h] |-> Bv(n + 1 - h, j)]])
      Round(i) ==     \* two bits, or the last one
        LET u == SubSeq(<<"u", "v">>, 1, Min({2, Len(bv) - i + 1}))
        IN  RandPerm(numel)
            \o << Line(u \o <<"m">>, "_opt_apply_inv_perm_ss", NoPar,
                       SubSeq(bv, i, i + Len(u) - 1) \o <<"perm", "shuffle">>),
                  Let("p", "_gen_inv_perm_by_bv", u),
                  Let("perm", "_opt_apply_perm_ss", <<"p", "m", "shuffle">>) >>
  IN  Code(Ins(n),
        << Constant("k1", 1, In(1)) >> \o _gen_bv_vector(n, par.ascending, bits)
        \o << iota("perm", numel), Shared("perm") >>
        \o Levels([h \in 1 .. (Len(bv) + 1) \div 2 |-> Round(2 * h - 1)]),
        <<"perm">>)
_gen_inv_perm(par, t) ==
  CASE Vis(t[1]) = "p" -> Do("gen_inv_perm_p", par, t)
    [] Vis(t[1]) = "v" -> Do("gen_inv_perm_v", par, t)
    [] Vis(t[1]) = "s" -> Code(Ins(1), << Line(<<"r">>, "_gen_inv_perm_s", par, Ins(1)) >>, <<"r">>)

-----------------------------------------------------------------------------
(* Neighbouring keys that no more than one party has are merged into one,  *)
(* the ranks of their values.  The last of the indices of a group of keys: *)
(* a secret key is a group, and so are those between two owners.           *)
_find_mergeable_keys(t) ==
  LET n == Len(t)
      owner[i \in 1 .. n] ==     \* of the keys from i on; -1: nobody yet
        CASE i < n /\ IsSecret(t[i + 1]) -> owner[i + 1]
          [] (i = n \/ ~IsSecret(t[i + 1])) /\ Vis(t[i]) = "v" -> t[i].n
          [] i < n /\ ~IsSecret(t[i + 1]) /\ Vis(t[i]) = "p" -> owner[i + 1]
          [] OTHER -> -1
      Splits(i) ==
        \/ IsSecret(t[i]) \/ IsSecret(t[i + 1])
        \/ Vis(t[i]) = "v" /\ owner[i + 1] \notin {-1, t[i].n}
  IN  SetToSortSeq({n} \cup {i \in 1 .. n - 1 : Splits(i)}, LAMBDA i, j : i < j)

_merge_keys(par, t) ==
  CASE \A i \in DOMAIN t : Vis(t[i]) = "p" -> Code(Ins(Len(t)),
         << Line(<<"r">>, "merge_keys_p", par, Ins(Len(t))) >>, <<"r">>)
    [] \A i \in DOMAIN t : Vis(t[i]) = "v" /\ t[i].n = t[1].n -> Code(Ins(Len(t)),
         << Line(<<"r">>, "merge_keys_v", par, Ins(Len(t))) >>, <<"r">>)
    [] OTHER -> NoCalls     \* throws: the program goes no further
(* The keys sorted one after the other, from the last, by permutations     *)
(* that are composed; names[i] is a key and bits[i] the bits of its values. *)
Order(names, ascending, bits) ==
  LET n == Len(names)
      Key(i) == [ascending |-> ascending, bits |-> bits[i]]
  IN  << Line(<<"inv">>, "_gen_inv_perm", Key(n), <<names[n]>>) >>
      \o Levels([h \in 1 .. n - 1 |->
           << Let("hat", "_apply_inv_perm", <<names[n - h], "inv">>),
              Line(<<"cur">>, "_gen_inv_perm", Key(n - h), <<"hat">>),
              Let("inv", "_compose_perm", <<"inv", "cur">>) >>])
_merge_pub_pri_keys(par, t) ==
  LET n == Len(t)
  IN  Code(Ins(n),
        Order(Ins(n), par.ascending, [i \in 1 .. n |-> -1])
        \o Each(n, "_apply_inv_perm", "inv")
        \o << Line(<<"merged">>, "_merge_keys", par, Ins(n)),
              Let("r", "_apply_perm", <<"merged", "inv">>) >>,
        <<"r">>)

(* The merged keys' values are ranks or their negatives: they have the     *)
(* bits of a rank and a sign.                                              *)
Log2Floor(n) == Max({i \in 0 .. K : Pow2[i] <= n})
gen_inv_perm(par, t) ==
  LET ends == _find_mergeable_keys(t)
      first(g) == IF g = 1 THEN 1 ELSE ends[g - 1] + 1
      secret(g) == first(g) = ends[g] /\ IsSecret(t[ends[g]])
      name(g) == IF secret(g) THEN In(first(g)) ELSE "key " \o ToString(g)
      Merge(g) ==
        Line(<<name(g)>>, "_merge_pub_pri_keys", par,
             [i \in 1 .. ends[g] - first(g) + 1 |-> In(first(g) + i - 1)])
      bits(g) == IF secret(g) \/ g = Len(ends) THEN par.bits ELSE Log2Floor(t[1].numel) + 2
  IN  IF \A i \in DOMAIN t : IsSecret(t[i])
      THEN Code(Ins(Len(t)), << Line(<<"r">>, "_gen_inv_perm_s", par, Ins(Len(t))) >>, <<"r">>)
      ELSE Code(Ins(Len(t)),
             Levels([g \in DOMAIN ends |-> IF secret(g) THEN <<>> ELSE << Merge(g) >>])
             \o Order([g \in DOMAIN ends |-> name(g)], par.ascending,
                      [g \in DOMAIN ends |-> bits(g)]),
             <<"inv">>)

(* Every vector by a permutation that is secret or one party's.            *)
apply_inv_perm(t, program) ==
  LET n == Len(t) - 1
      perm == t[n + 1]
  IN  Code(Ins(n) \o <<"perm">>,
        IF Vis(perm) = "v" /\ Has(program, "inv_perm_av")
        THEN Each(n, "_apply_inv_perm", "perm")
        ELSE Levels([i \in 1 .. n |-> _2s(In(i), t[i])]) \o _2s("perm", perm)
             \o All(n, "_apply_inv_perm_ss", <<"perm">>),
        Ins(n))
radix_sort(par, t) ==
  LET n == Len(t)
  IN  Code(Ins(n),
        << Line(<<"perm">>, "gen_inv_perm", par, Ins(par.keys)),
           Line(Ins(n), "apply_inv_perm", NoPar, Ins(n) \o <<"perm">>) >>,
        Ins(n))

-----------------------------------------------------------------------------
(* The sorting network.  The comparator is of as many keys as par says, of *)
(* which each is there twice: the second of two that are out of order is   *)
(* to be the first.                                                        *)
_get_cmp_func(par) ==
  LET l(i) == In(2 * i - 1)
      r(i) == In(2 * i)
      Cmp(to, i) == Let(to, "_less", IF par.ascending THEN <<l(i), r(i)>> ELSE <<r(i), l(i)>>)
  IN  Code(Ins(2 * par.keys),
        << Constant("pre_equal", 1, In(1)), Cmp("result", 1) >>
        \o Levels([h \in 1 .. par.keys - 1 |->
             << Let("eq", "_equal", <<l(h), r(h)>>),
                Let("pre_equal", "_and", <<"pre_equal", "eq">>),
                Cmp("current", h + 1), Let("current", "_and", <<"pre_equal", "current">>),
                Let("result", "_or", <<"result", "current">>) >>]),
        <<"result">>)

(* The places of a layer, from 1: those that are compared with the one     *)
(* step further on, inside blocks of twice the gap.                        *)
Layer(gap, step, n) ==
  {i \in 1 .. n - step :
     /\ i > step % gap
     /\ ((i - 1 - (step % gap)) % (2 * step)) < step
     /\ (i - 1) \div (2 * gap) = (i - 1 + step) \div (2 * gap)}
_cmp_swap(par, n, numel, lhs, step) ==
  LET left == SetToSortSeq(lhs, LAMBDA i, j : i < j)
      right == [i \in DOMAIN left |-> left[i] + step]
      fst(i) == "fst " \o ToString(i)
      sec(i) == "sec " \o ToString(i)
      greater == [i \in 1 .. numel |->
                    CASE \E j \in DOMAIN left : left[j] = i ->
                           numel + (CHOOSE j \in DOMAIN left : left[j] = i)
                      [] \E j \in DOMAIN left : right[j] = i ->
                           numel + Len(left) + (CHOOSE j \in DOMAIN left : right[j] = i)
                      [] OTHER -> i]
  IN  Levels([i \in 1 .. n |-> << Take(fst(i), left, In(i)), Take(sec(i), right, In(i)) >>])
      \o << Line(<<"predicate">>, "_get_cmp_func", par,
                 FlattenSeq([i \in 1 .. par.keys |-> <<fst(i), sec(i)>>])),
            Let("predicate", "_prefer_a", <<"predicate">>) >>
      \o Levels([i \in 1 .. n |->
           << Let("greater", "_mux", <<"predicate", fst(i), sec(i)>>),
              Let("both", "_add", <<fst(i), sec(i)>>), Let("less", "_sub", <<"both", "greater">>),
              Line(<<"all">>, "concatenate", NoPar, <<In(i), "greater", "less">>),
              Take(In(i), greater, "all") >>])
odd_even_merge_sort(par, t) ==
  LET n == Len(t)
      numel == t[1].numel
      stages == Log2Ceil(numel)
      Stage(s) == Levels([h \in 1 .. s |->
        _cmp_swap(par, n, numel, Layer(Pow2[s - 1], Pow2[s - h], numel), Pow2[s - h])])
  IN  Code(Ins(n),
        Levels([i \in 1 .. n |-> Append(_2s(In(i), t[i]), Let(In(i), "_prefer_a", <<In(i)>>))])
        \o Levels([s \in 1 .. stages |-> Stage(s)]),
        Ins(n))

-----------------------------------------------------------------------------
(* simple_sort1d: by public keys in the clear, else by the method of the   *)
(* configuration or the best that the protocol has the kernels for.  Quick *)
(* sort is left out: none of the protocols here takes it of its own.       *)
_check_method_require(program) ==
  \A k \in {"rand_perm_m", "perm_am", "perm_ap", "inv_perm_am", "inv_perm_ap"} :
    Has(program, k)
_has_efficient_shuffle(program) == program.protocol \in {"semi2k", "aby3"}
fallback_sort1d(par, t) ==
  LET n == Len(t)
      sorted(i) == "sorted " \o ToString(i)
  IN  IF \A i \in 1 .. par.keys : Vis(t[i]) = "p"
      THEN Code(Ins(n),
             [i \in 1 .. n |->
                Line(<<sorted(i)>>, "sort_public", par, <<In(i)>> \o Ins(par.keys))],
             [i \in 1 .. n |-> sorted(i)])
      ELSE Code(Ins(n), << Line(Ins(n), "odd_even_merge_sort", par, Ins(n)) >>, Ins(n))
simple_sort1d(par, t, program) ==
  LET n == Len(t)
      radix == /\ \E i \in 1 .. par.keys : Vis(t[i]) # "p"
               /\ _check_method_require(program)
               /\ \/ par.method = "default" /\ _has_efficient_shuffle(program)
                  \/ par.method = "radix"
  IN  Code(Ins(n),
        << Line(Ins(n), IF radix THEN "radix_sort" ELSE "fallback_sort1d", par, Ins(n)) >>,
        Ins(n))

(* permute: every row or every column of matrices on its own, by another   *)
(* operation; what the rows have in common comes after them.               *)
permute(par, t) ==
  LET m == par.outs
      along == par.dim = 1
      N == IF along THEN par.rows ELSE par.cols
      W == IF along THEN par.cols ELSE par.rows
      row(i, r) == "row " \o ToString(<<i, r>>)
      Turn(i, rows, cols) ==
        IF along THEN <<>> ELSE << Take(In(i), Transposed(rows, cols), In(i)) >>
  IN  IF W = 0 THEN Code(Ins(Len(t)), <<>>, Ins(m))
      ELSE Code(Ins(Len(t)),
             Levels([i \in 1 .. m |->
               Turn(i, par.rows, par.cols)
               \o [r \in 1 .. N |-> Take(row(i, r), Every((r - 1) * W + 1, 1, r * W), In(i))]])
             \o [r \in 1 .. N |->
                   LET all == [i \in 1 .. m |-> row(i, r)]
                   IN  Line(all, par.by, par.par, all \o SubSeq(Ins(Len(t)), m + 1, Len(t)))]
             \o Levels([i \in 1 .. m |->
                  << Line(<<In(i)>>, "concatenate", NoPar, [r \in 1 .. N |-> row(i, r)]) >>
                  \o Turn(i, par.cols, par.rows)]),
             Ins(m))

(* The first elements in the order, by the network.                        *)
topk_1d(par, t) ==
  Code(<<"x">>,
    << iota("i", t[1].numel), Shared("i"),
       Line(<<"x", "i">>, "odd_even_merge_sort", par, <<"x", "i">>),
       Take("x", Every(1, 1, par.k), "x"), Take("i", Every(1, 1, par.k), "i") >>,
    <<"x", "i">>)

-----------------------------------------------------------------------------
(* Sums of the payloads that have the same keys.  In the keys' order, the  *)
(* last of every group is marked; the marked ones come first then, and a   *)
(* group's sum is what the sum of all up to its end is more than that of   *)
(* the group before.                                                       *)
_group_mark(par, t) ==
  CASE \A i \in DOMAIN t : Vis(t[i]) = "p" -> Code(Ins(Len(t)),
         << Line(<<"r">>, "group_mark_p", par, Ins(Len(t))) >>, <<"r">>)
    [] \A i \in DOMAIN t : Vis(t[i]) = "v" /\ t[i].n = t[1].n -> Code(Ins(Len(t)),
         << Line(<<"r">>, "group_mark_v", par, Ins(Len(t))) >>, <<"r">>)
    [] OTHER -> NoCalls     \* throws
_circular_right_shift_1d(t) ==
  Code(<<"x">>,
    << Take("zero", <<1>>, "x"), Constant("zero", 0, "zero"),
       Line(<<"zero">>, "_cast_type", t[1], <<"zero">>),
       Take("rest", Every(1, 1, t[1].numel - 1), "x"),
       Line(<<"r">>, "concatenate", NoPar, <<"zero", "rest">>) >>,
    <<"r">>)
private_groupby_sum_1d(par, t) ==
  LET n == Len(t)
      keys == Ins(par.keys)
      payloads == SubSeq(Ins(n), par.keys + 1, n)
      Direction(ascending) == [ascending |-> ascending, bits |-> -1]
      Arranged(names, perm) ==
        Line(names, "_apply_inv_perm", NoPar, Append(names, perm))
  IN  Code(Ins(n),
        << Line(<<"private_perm">>, "gen_inv_perm", Direction(TRUE), keys),
           Arranged(keys, "private_perm"),
           Line(<<"group_marks">>, "_group_mark", [ends |-> TRUE], keys),
           Line(<<"group_mark_perm">>, "gen_inv_perm", Direction(FALSE), <<"group_marks">>),
           Arranged(keys, "group_mark_perm"), Arranged(payloads, "private_perm") >>
        \o Levels([i \in DOMAIN payloads |->
             << Let("y", "associative_scan", <<payloads[i]>>),
                Arranged(<<"y">>, "group_mark_perm"),
                Let("before", "_circular_right_shift_1d", <<"y">>),
                Let(payloads[i], "_sub", <<"y", "before">>) >>]),
        Ins(n))

-----------------------------------------------------------------------------
(* One of the results of an operation that has several.                    *)
OneOf(par, t) ==
  Code(Ins(Len(t)), << Line(Ins(par.outs), par.op, par.par, Ins(Len(t))) >>,
       <<In(par.show)>>)

HalSortExpand(c, t, program) ==
  CASE c.op = "one of" -> OneOf(c.par, t)
    [] c.op = "simple_sort1d" -> simple_sort1d(c.par, t, program)
    [] c.op = "fallback_sort1d" -> fallback_sort1d(c.par, t)
    [] c.op = "radix_sort" -> radix_sort(c.par, t)
    [] c.op = "odd_even_merge_sort" -> odd_even_merge_sort(c.par, t)
    [] c.op = "_get_cmp_func" -> _get_cmp_func(c.par)
    [] c.op = "hal permute" -> permute(c.par, t)
    [] c.op = "topk_1d" -> topk_1d(c.par, t)
    [] c.op = "private_groupby_sum_1d" -> private_groupby_sum_1d(c.par, t)
    [] c.op = "_group_mark" -> _group_mark(c.par, t)
    [] c.op = "_circular_right_shift_1d" -> _circular_right_shift_1d(t)
    [] c.op = "gen_inv_perm" -> gen_inv_perm(c.par, t)
    [] c.op = "apply_inv_perm" -> apply_inv_perm(t, program)
    [] c.op = "_apply_inv_perm" -> _apply("inv_perm", t)
    [] c.op = "_apply_perm" -> _apply("perm", t)
    [] c.op = "_apply_inv_perm_ss" -> _apply_inv_perm_ss(Len(t) - 1, t)
    [] c.op = "_apply_perm_ss" -> _apply_perm_ss(Len(t) - 1, t)
    [] c.op = "_apply_inv_perm_sv" -> _apply_inv_perm_sv(Len(t) - 1, program)
    [] c.op = "_apply_perm_sv" -> _apply_perm_sv(Len(t) - 1)
    [] c.op = "_opt_apply_inv_perm_ss" -> _opt_apply_inv_perm_ss(Len(t) - 2)
    [] c.op = "_opt_apply_perm_ss" -> _opt_apply_perm_ss
    [] c.op = "_inverse" -> _inverse(t)
    [] c.op = "_compose_perm" -> _compose_perm
    [] c.op = "_bit_decompose" -> _bit_decompose(c.par.nbits, t, program)
    [] c.op = "_gen_inv_perm_by_bv" -> _gen_inv_perm_by_bv(t)
    [] c.op = "_gen_inv_perm_s" -> _gen_inv_perm_s(c.par, t)
    [] c.op = "_gen_inv_perm" -> _gen_inv_perm(c.par, t)
    [] c.op = "_merge_keys" -> _merge_keys(c.par, t)
    [] c.op = "_merge_pub_pri_keys" -> _merge_pub_pri_keys(c.par, t)
    [] c.op = "associative_scan" -> associative_scan(t)
    [] OTHER -> HalExpand(c, t, program)
=============================================================================
