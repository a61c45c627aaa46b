------------------------------ MODULE Reference ------------------------------
(***************************************************************************)
(* What the kernels of every protocol promise: the values of ref2k, the    *)
(* protocol without secrets (mpc/ref2k/ref2k.cc), and of pv2k for public   *)
(* values.  A run appends the value of one operation after the other.  A   *)
(* truncation of a secret may be off, as far as its algorithm allows.      *)
(***************************************************************************)
EXTENDS Ring2k

CONSTANT Programs

VARIABLES
  program,   \* the operations, on the inputs and the results before
  vals       \* the inputs and the results

refVars == <<program, vals>>

Same == {"A2P", "P2A", "A2V", "V2A", "A2B", "B2A", "B2P", "P2B", "B2V",
         "B2A_Disassemble", "CastTypeB", "p2s", "s2p", "p2v", "v2p", "v2s",
         "s2v", "_cast_type", "_prefer_a", "_prefer_b"}
Sums == {"AddAA", "AddAP", "AddBB", "AddBP", "_add"}
Products == {"MulAA", "MulAP", "MulA1B", "MulVVS", "_mul"}
Squares == {"SquareA", "_square"}
Negations == {"NegateA", "_negate"}
Matrices == {"MatMulAP", "MatMulAA", "MatMulAA_simple", "_mmul"}
Signs == {"MsbA2B", "_msb"}
Equalities == {"EqualAA", "EqualAP", "_equal"}
Ands == {"AndBP", "AndBB", "_and"}
Xors == {"XorBP", "XorBB", "_xor"}
ShiftsLeft == {"LShiftA", "LShiftB", "_lshift"}
ShiftsRight == {"RShiftB", "_rshift"}
SignedShifts == {"ARShiftB", "_arshift"}
Reversals == {"BitrevB", "_bitrev"}
Rotations == {"PermAM", "PermAP", "perm_ss", "perm_sp", "perm_vv", "perm_pp"}
Backwards == {"InvPermAM", "InvPermAP", "InvPermAV", "inv_perm_ss", "inv_perm_sp",
              "inv_perm_sv", "inv_perm_vv", "inv_perm_pp"}

(* What a truncation says of itself, TruncAKernel::lsbRounding() and       *)
(* hasMsbError(): its lowest bit may be that of the next value up, or be   *)
(* off either way; the carry out of the highest bit may be missing.        *)
Near(r, x, tolerance) ==
  \A i \in DOMAIN x : (r[i] - x[i]) % Pow2[K] \in tolerance
Probabilistic == {0, 1}
Random == {0, 1, Ones}
WithMsbError(bits) == {(e + d) % Pow2[K] : e \in Random, d \in {0, Pow2[K - bits]}}

Nearest(x, bits) ==
  [i \in DOMAIN x |-> ((Signed(x[i]) + Pow2[bits - 1]) \div Pow2[bits]) % Pow2[K]]

IsPerm(r, n) == {r[i] : i \in DOMAIN r} = 0 .. n - 1 /\ Len(r) = n

(* The results r of operations on values a.  Values change hands,          *)
Transfer(c, a, r) == c.op \in Same /\ r = a[1]

(* are computed in the ring,                                               *)
Arithmetic(c, a, r) ==
  \/ c.op \in Sums /\ r = a[1] ++ a[2]
  \/ c.op = "_sub" /\ r = a[1] -- a[2]
  \/ c.op \in Products /\ r = a[1] ** a[2]
  \/ c.op \in Squares /\ r = a[1] ** a[1]
  \/ c.op \in Matrices /\ r = ring_mmul(a[1], a[2], c.par.m, c.par.k, c.par.n)
  \/ c.op \in Negations /\ r = ring_neg(a[1])

(* compared, as signed ones where their difference is one of K bits,       *)
Less(x, y) == Signed(x) < Signed(y)
Fits(x, y) == Signed(x) - Signed(y) \in -Pow2[K - 1] .. Pow2[K - 1] - 1
Compared(c, a, r) ==
  \/ c.op \in Signs /\ r = ring_rshift(a[1], K - 1)
  \/ c.op \in Equalities /\ r = ring_equal(a[1], a[2])
  \/ c.op = "BitLEBB" /\ r = ring_less(a[1], a[2]) ++ ring_equal(a[1], a[2])
  \/ c.op = "BitLTBB" /\ r = ring_less(a[1], a[2])
  \/ /\ c.op = "_less"
     /\ \A i \in DOMAIN r : Fits(a[1][i], a[2][i])
          => r[i] = IF Less(a[1][i], a[2][i]) THEN 1 ELSE 0
  \/ /\ c.op = "_sign"
     /\ \A i \in DOMAIN r : r[i] = IF Signed(a[1][i]) < 0 THEN Ones ELSE 1
  \/ c.op = "_mux" /\ r = ring_select(a[1], a[3], a[2])
  \/ /\ c.op = "_clamp"
     /\ \A i \in DOMAIN r :
          LET x == a[1][i]
              low == a[2][i]
              high == a[3][i]
          IN  /\ Fits(x, low) /\ Fits(x, high) /\ Fits(low, high)
              /\ ~Less(high, low)
              => r[i] = CASE Less(x, low) -> low [] Less(high, x) -> high [] OTHER -> x
  \/ /\ c.op \in {"_clamp_lower", "_clamp_upper"}
     /\ \A i \in DOMAIN r : Fits(a[1][i], a[2][i])
          => r[i] = IF Less(a[1][i], a[2][i]) = (c.op = "_clamp_lower")
                    THEN a[2][i] ELSE a[1][i]

(* bit by bit,                                                             *)
OnesOf(x, n) == Cardinality({i \in 0 .. n - 1 : Bit(x, i) = 1})
Bitwise(c, a, r) ==
  \/ c.op \in Ands /\ r = a[1] && a[2]
  \/ c.op \in Xors /\ r = a[1] ## a[2]
  \/ c.op = "_or" /\ r = ring_not(ring_not(a[1]) && ring_not(a[2]))
  \/ c.op = "NotB" /\ r = a[1] ## Fill(a[1], Pow2[c.par.nbits] - 1)
  \/ c.op = "_not" /\ r = ring_not(a[1])
  \/ c.op \in ShiftsLeft /\ r = ring_lshift(a[1], c.par.bits)
  \/ c.op \in ShiftsRight /\ r = ring_rshift(a[1], c.par.bits)
  \/ c.op \in SignedShifts /\ r = ring_arshift(a[1], c.par.bits)
  \/ c.op \in Reversals /\ r = ring_bitrev(a[1], c.par.start, c.par.end)
  \/ c.op = "BitIntlB" /\ r = BitIntl(a[1], c.par.stride, c.par.nbits)
  \/ c.op = "BitDeintlB" /\ r = BitDeintl(a[1], c.par.stride, c.par.nbits)
  \/ c.op = "_bitdeintl" /\ r = BitDeintl(a[1], 0, K)
  \/ c.op = "_popcount" /\ r = [i \in DOMAIN r |-> OnesOf(a[1][i], c.par.bits)]
  \/ c.op = "_bit_parity" /\ r = [i \in DOMAIN r |-> OnesOf(a[1][i], c.par.bits) % 2]
  \/ c.op = "_prefix_or" /\ r = [i \in DOMAIN r |-> Pow2[BitWidth[a[1][i]]] - 1]
  \/ c.op = "_eqz" /\ r = ring_equal(a[1], Fill(a[1], 0))

(* are put in another order, or say which,                                 *)
Sorted(x, r, ascending) ==
  \A i, j \in DOMAIN x :
    LET first == IF ascending THEN Less(x[i], x[j]) ELSE Less(x[j], x[i])
    IN  first \/ (x[i] = x[j] /\ i < j) => r[i] < r[j]
SameKeys(a, i, j) == \A h \in DOMAIN a : a[h][i] = a[h][j]
Reordered(c, a, r) ==
  \/ c.op \in Rotations /\ r = applyPerm(a[1], a[2])
  \/ c.op \in Backwards /\ r = applyInvPerm(a[1], a[2])
  \/ /\ c.op \in {"gen_inv_perm_p", "gen_inv_perm_v"}
     /\ IsPerm(r, Len(a[1])) /\ Sorted(a[1], r, c.par.ascending)
  \/ /\ c.op \in {"merge_keys_p", "merge_keys_v"}
     /\ \A i \in 1 .. Len(r) - 1 :
          IF SameKeys(a, i, i + 1) THEN r[i] = r[i + 1]
          ELSE Fits(r[i], r[i + 1]) =>
                 IF c.par.ascending THEN Less(r[i], r[i + 1]) ELSE Less(r[i + 1], r[i])
  \/ /\ c.op \in {"group_mark_p", "group_mark_v"}
     /\ \A i \in DOMAIN r :
          LET end == i = Len(r) \/ ~SameKeys(a, i, i + 1)
              start == i = 1 \/ ~SameKeys(a, i - 1, i)
          IN  r[i] = IF (IF c.par.ends THEN end ELSE ~start) THEN 1 ELSE 0

(* or sorted by keys, the first of which that differ tells: one of several *)
(* results.  A stable sort leaves equal keys in their order, the others    *)
(* any values of equal keys in the places of these keys.  Of groups the    *)
(* results are as many as there are, the rest is left open.                *)
Precedes(keys, ascending, i, j) ==
  \E h \in DOMAIN keys :
    /\ \A g \in 1 .. h - 1 : keys[g][i] = keys[g][j]
    /\ IF ascending THEN Less(keys[h][i], keys[h][j]) ELSE Less(keys[h][j], keys[h][i])
Rank(keys, ascending, i) ==
  Cardinality({j \in DOMAIN keys[1] : Precedes(keys, ascending, j, i)})
KeyOrder(keys, ascending) ==
  [i \in DOMAIN keys[1] |->
     Rank(keys, ascending, i) + Cardinality({j \in 1 .. i - 1 : SameKeys(keys, j, i)})]
SortedBy(keys, ascending, x, r) ==
  LET n == Len(x)
      place(i) == CHOOSE j \in 1 .. n : KeyOrder(keys, ascending)[j] = i - 1
      at(i) == Rank(keys, ascending, place(i))
  IN  \A v \in {x[i] : i \in 1 .. n} \cup {r[i] : i \in DOMAIN r}, c \in 0 .. n - 1 :
        LET there == {i \in DOMAIN r : r[i] = v /\ at(i) = c}
            given == {i \in 1 .. n : x[i] = v /\ Rank(keys, ascending, i) = c}
        IN  /\ Cardinality(there) <= Cardinality(given)
            /\ Len(r) = n => Cardinality(there) = Cardinality(given)
GroupSums(keys, x, r) ==
  LET firsts == {i \in DOMAIN x : \A j \in 1 .. i - 1 : ~SameKeys(keys, i, j)}
      before(i) == Cardinality({j \in firsts : Precedes(keys, TRUE, j, i)})
  IN  \A i \in firsts :
        r[before(i) + 1] =
          MapThenSumSet(LAMBDA j : x[j], {j \in DOMAIN x : SameKeys(keys, i, j)}) % Pow2[K]
GroupKeys(keys, x, r) ==
  \A i \in DOMAIN x :
    LET smaller == {[h \in DOMAIN keys |-> keys[h][j]] :
                      j \in {j \in DOMAIN x : Precedes(keys, TRUE, j, i)}}
    IN  r[Cardinality(smaller) + 1] = x[i]
KeysOf(par, a) == SubSeq(a, 1, par.keys)
IsStable(par) == par.method # "network" /\ program.protocol # "ref2k"
Sorts(par, a, x, r) ==
  IF IsStable(par) THEN r = applyInvPerm(x, KeyOrder(KeysOf(par, a), par.ascending))
  ELSE SortedBy(KeysOf(par, a), par.ascending, x, r)
OfList(op, par, a, show, r) ==
  LET x == a[show]
      n == Len(a)
  IN  CASE op = "simple_sort1d" -> Sorts(par, a, x, r)
        [] op = "_apply_inv_perm" -> r = applyInvPerm(x, a[n])
        [] op = "_apply_perm" -> r = applyPerm(x, a[n])
        [] op = "topk_1d" -> SortedBy(<<a[1]>>, par.ascending, x, r)
        [] op = "private_groupby_sum_1d" ->
             IF show <= par.keys THEN GroupKeys(KeysOf(par, a), x, r)
             ELSE GroupSums(KeysOf(par, a), x, r)
(* The places of a row or a column of a matrix.                            *)
Places(par, i) ==
  IF par.dim = 1 THEN [j \in 1 .. par.cols |-> (i - 1) * par.cols + j]
  ELSE [j \in 1 .. par.rows |-> (j - 1) * par.cols + i]
At(x, places) == [j \in DOMAIN places |-> x[places[j]]]
Listed(c, a, r) ==
  \/ c.op = "gen_inv_perm" /\ r = KeyOrder(a, c.par.ascending)
  \/ c.op = "associative_scan" /\ r = [i \in DOMAIN r |->
       FoldLeft(LAMBDA s, v : (s + v) % Pow2[K], 0, SubSeq(a[1], 1, i))]
  \/ /\ c.op = "one of" /\ c.par.op \notin {"hal permute", "topk_1d"}
     /\ OfList(c.par.op, c.par.par, a, c.par.show, r)
  \/ /\ c.op = "one of" /\ c.par.op = "topk_1d"
     /\ OfList("topk_1d", c.par.par, <<a[1], [i \in DOMAIN a[1] |-> i - 1]>>, c.par.show, r)
  \/ /\ c.op = "one of" /\ c.par.op = "hal permute"
     /\ LET par == c.par.par
            row(x, i) == IF Len(x) = par.rows * par.cols THEN At(x, Places(par, i)) ELSE x
        IN  \A i \in 1 .. (IF par.dim = 1 THEN par.rows ELSE par.cols) :
              OfList(par.by, par.par, [h \in DOMAIN a |-> row(a[h], i)], c.par.show, row(r, i))

(* truncated with a bit of error                                           *)
Truncated(c, a, r) ==
  LET Off(tolerance) == Near(r, ring_arshift(a[1], c.par.bits), tolerance)
  IN  \/ c.op = "TruncA" /\ Off(WithMsbError(c.par.bits))
      \/ c.op \in {"TruncAPr", "TruncAPr2"} /\ Off(Probabilistic)
      \/ c.op = "TruncPrWithMsbKnown" /\ Off(Random)
      \/ /\ c.op = "_trunc"
         /\ CASE program.protocol = "ref2k" -> r = Nearest(a[1], c.par.bits)
              [] program.protocol = "semi2k" -> Off(Probabilistic)
              [] program.protocol = "aby3" -> Off(WithMsbError(c.par.bits))

(* or drawn.                                                               *)
Drawn(c, r) ==
  \/ c.op \in {"RandA", "RandB", "rand_s", "rand_p"} /\ Len(r) = c.par.numel
  \/ c.op = "RandPermM" /\ IsPerm(r, c.par.numel)

Meets(c, a, r) ==
  \/ Transfer(c, a, r) \/ Arithmetic(c, a, r) \/ Compared(c, a, r) \/ Bitwise(c, a, r)
  \/ Reordered(c, a, r) \/ Listed(c, a, r) \/ Truncated(c, a, r) \/ Drawn(c, r)

RefInit ==
  /\ program \in Programs
  /\ vals = [i \in DOMAIN program.inputs |-> program.inputs[i].x]

RefStep ==
  LET j == Len(vals) + 1
      c == program.calls[j - Len(program.inputs)]
  IN  /\ j <= Len(program.inputs) + Len(program.calls)
      /\ Len(vals') = j
      /\ SubSeq(vals', 1, j - 1) = vals
      /\ Meets(c, [i \in DOMAIN c.args |-> vals[c.args[i]]], vals'[j])
      /\ UNCHANGED program

RefSpec == RefInit /\ [][RefStep]_refVars
=============================================================================
