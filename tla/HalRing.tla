------------------------------ MODULE HalRing ------------------------------
(***************************************************************************)
(* The ring operations that all of the layers above the protocols compute  *)
(* with, on values of any kind: kernel/hal/ring.cc.  Their names begin     *)
(* with an underscore.                                                     *)
(***************************************************************************)
EXTENDS MpcApi

(* The kind of a value as the operations tell it: public, private, secret. *)
Vis(t) == CASE t.k = "P" -> "p" [] t.k = "V" -> "v" [] OTHER -> "s"
IsSecret(t) == Vis(t) = "s"

(* IMPL_UNARY_OP, IMPL_SHIFT_OP, _trunc and _bitrev.                       *)
Unary(f, par, t) == Do(f \o "_" \o Vis(t[1]), par, t)

(* IMPL_COMMUTATIVE_BINARY_OP: the operands of two secrets change places   *)
(* as well.                                                                *)
Commutative(f, t) ==
  LET kinds == Vis(t[1]) \o Vis(t[2])
  IN  CASE kinds \in {"pp", "vv", "sp", "vp", "sv"} -> Do(f \o "_" \o kinds, NoPar, t)
        [] kinds = "ss" -> Swap(f \o "_ss", NoPar)
        [] kinds = "ps" -> Swap(f \o "_sp", NoPar)
        [] kinds = "pv" -> Swap(f \o "_vp", NoPar)
        [] kinds = "vs" -> Swap(f \o "_sv", NoPar)

-----------------------------------------------------------------------------
(* Matrix products.  The places of the transposed matrix of m rows and n   *)
(* columns, and of a block of one of n columns.                            *)
Transposed(m, n) ==
  [i \in 1 .. m * n |-> ((i - 1) % m) * n + ((i - 1) \div m) + 1]
Block(rows, cols, n) ==
  LET w == Cardinality(cols)
      first == (Min(rows)) * n + Min(cols) + 1
  IN  [i \in 1 .. Cardinality(rows) * w |->
         first + ((i - 1) \div w) * n + ((i - 1) % w)]
Take(to, places, of) == Line(<<to>>, "gather", [places |-> places], <<of>>)

_mmul_impl(par, t) ==
  LET kinds == Vis(t[1]) \o Vis(t[2])
      Turned(op) ==
        Code(<<"x", "y">>,
          << Take("yt", Transposed(par.k, par.n), "y"),
             Take("xt", Transposed(par.m, par.k), "x"),
             Line(<<"zt">>, op, [m |-> par.n, k |-> par.k, n |-> par.m], <<"yt", "xt">>),
             Take("z", Transposed(par.n, par.m), "zt") >>,
          <<"z">>)
  IN  CASE kinds \in {"pp", "ss", "vv", "sp", "vp", "sv"} -> Do("mmul_" \o kinds, par, t)
        [] kinds = "ps" -> Turned("mmul_sp")
        [] kinds = "pv" -> Turned("mmul_vp")
        [] kinds = "vs" -> Turned("mmul_sv")

(* _mmul: matrices beyond a limit of memory are multiplied block by block, *)
(* of step[1] rows, step[2] columns and step[3] elements of each; the      *)
(* products of the same rows and columns are added up, and all are put in  *)
(* their places at the end.                                                *)
Steps(size, step) == (size + step - 1) \div step
Span(i, step, size) == (i - 1) * step .. Min({size, i * step}) - 1
Tile(r, c) == "part " \o ToString(<<r, c>>)
_mmul(par, t) ==
  LET rows(r) == Span(r, par.step[1], par.m)
      cols(c) == Span(c, par.step[2], par.n)
      ks(i) == Span(i, par.step[3], par.k)
      Product(r, c, i) ==
        << Take("x_block", Block(rows(r), ks(i), par.k), "x"),
           Take("y_block", Block(ks(i), cols(c), par.n), "y"),
           Line(<<"mmul_ret">>, "_mmul_impl",
                [m |-> Cardinality(rows(r)), k |-> Cardinality(ks(i)),
                 n |-> Cardinality(cols(c))], <<"x_block", "y_block">>),
           IF i = 1 THEN Take(Tile(r, c), [j \in 1 .. Cardinality(rows(r)) * Cardinality(cols(c)) |-> j],
                              "mmul_ret")
           ELSE Let(Tile(r, c), "_add", <<Tile(r, c), "mmul_ret">>) >>
      rc == [j \in 1 .. Steps(par.m, par.step[1]) * Steps(par.n, par.step[2]) |->
               <<1 + ((j - 1) \div Steps(par.n, par.step[2])),
                 1 + ((j - 1) % Steps(par.n, par.step[2]))>>]
      (* Where an element of the product is, in the blocks one after another. *)
      before(j) == FoldLeft(LAMBDA s, b : s + Cardinality(rows(b[1])) * Cardinality(cols(b[2])),
                            0, SubSeq(rc, 1, j - 1))
      place(row, col) ==
        LET j == CHOOSE j \in DOMAIN rc : row \in rows(rc[j][1]) /\ col \in cols(rc[j][2])
            r == rows(rc[j][1])
            c == cols(rc[j][2])
        IN  before(j) + (row - Min(r)) * Cardinality(c) + col - Min(c) + 1
  IN  IF par.step = <<par.m, par.n, par.k>> THEN Do("_mmul_impl", par, t)
      ELSE Code(<<"x", "y">>,
             Levels([j \in DOMAIN rc |-> Levels([i \in 1 .. Steps(par.k, par.step[3]) |->
                       Product(rc[j][1], rc[j][2], i)])])
             \o << Line(<<"all">>, "concatenate", NoPar,
                        [j \in DOMAIN rc |-> Tile(rc[j][1], rc[j][2])]),
                   Take("ret", [i \in 1 .. par.m * par.n |->
                                  place((i - 1) \div par.n, (i - 1) % par.n)], "all") >>,
             <<"ret">>)

-----------------------------------------------------------------------------
(* Arithmetic and comparisons: _less is of signed values.                  *)
_sub == Code(<<"x", "y">>, << Let("n", "_negate", <<"y">>), Let("r", "_add", <<"x", "n">>) >>,
             <<"r">>)
_or ==
  Code(<<"x", "y">>,
    << Let("a", "_and", <<"x", "y">>), Let("b", "_xor", <<"y", "a">>),
       Let("r", "_xor", <<"x", "b">>) >>,
    <<"r">>)
_less == Code(<<"x", "y">>, << Let("d", "_sub", <<"x", "y">>), Let("r", "_msb", <<"d">>) >>,
              <<"r">>)

(* By the protocol's own, or neither is less than the other.               *)
_equal(t, program) ==
  LET kinds == Vis(t[1]) \o Vis(t[2])
  IN  CASE kinds = "pp" -> Do("equal_pp", NoPar, t)
        [] kinds = "sp" /\ HasEqual(t, program) -> Do("equal_sp", NoPar, t)
        [] kinds = "ps" /\ HasEqual(<<t[2], t[1]>>, program) -> Swap("equal_sp", NoPar)
        [] kinds = "ss" /\ HasEqual(t, program) -> Swap("equal_ss", NoPar)
        [] OTHER ->
             Code(<<"x", "y">>,
               << Constant("k1", 1, "x"),
                  Let("a", "_less", <<"x", "y">>), Let("a", "_xor", <<"a", "k1">>),
                  Let("b", "_less", <<"y", "x">>), Let("b", "_xor", <<"b", "k1">>),
                  Let("r", "_and", <<"a", "b">>) >>,
               <<"r">>)
_sign ==
  Code(<<"x">>,
    << Let("neg", "_msb", <<"x">>), Constant("one", 1, "x"), Constant("two", 2, "x"),
       Let("twice", "_mul", <<"two", "neg">>), Let("r", "_sub", <<"one", "twice">>) >>,
    <<"r">>)
_mux ==
  Code(<<"x", "y", "z">>,      \* x ? y : z
    << Let("d", "_sub", <<"y", "z">>), Let("m", "_mul", <<"x", "d">>),
       Let("r", "_add", <<"z", "m">>) >>,
    <<"r">>)
_clamp_lower ==
  Code(<<"x", "y">>,
    << Let("l", "_less", <<"x", "y">>), Let("r", "_mux", <<"l", "y", "x">>) >>, <<"r">>)
_clamp_upper ==
  Code(<<"x", "y">>,
    << Let("l", "_less", <<"x", "y">>), Let("r", "_mux", <<"l", "x", "y">>) >>, <<"r">>)
_clamp ==
  Code(<<"x", "y", "z">>,
    << Let("r", "_clamp_lower", <<"x", "y">>), Let("r", "_clamp_upper", <<"r", "z">>) >>,
    <<"r">>)

-----------------------------------------------------------------------------
(* To the other kind of share, by an operation that does nothing else.     *)
_prefer_a(t) ==
  IF IsB(t[1]) THEN Code(<<"x">>, << Constant("k0", 0, "x"), Let("r", "_add", <<"x", "k0">>) >>,
                         <<"r">>)
  ELSE Code(<<"x">>, <<>>, <<"x">>)
_prefer_b(t) ==
  IF IsA(t[1]) THEN Code(<<"x">>, << Constant("k0", 0, "x"), Let("r", "_xor", <<"x", "k0">>) >>,
                         <<"r">>)
  ELSE Code(<<"x">>, <<>>, <<"x">>)

(* The type said to have one bit, if it is one that has bits: Boolean.     *)
HintBits(x, n, t) ==
  IF IsSecret(t) /\ t.k # "S" THEN << Line(<<x>>, "setNbits", [nbits |-> n], <<x>>) >> ELSE <<>>

(* Bit by bit.                                                             *)
_bit_parity(par) ==
  Code(<<"x">>,
    << Let("r", "_prefer_b", <<"x">>) >>
    \o Levels([i \in 1 .. Log2Ceil(par.bits) |->
         << LetBy("s", "_rshift", par.bits \div Pow2[i], <<"r">>),
            Let("r", "_xor", <<"r", "s">>) >>])
    \o << Constant("k1", 1, "x"), Let("r", "_and", <<"r", "k1">>) >>,
    <<"r">>)

(* vreduce: the first half of the bits and the second as one addition.     *)
_popcount(par, t) ==
  LET b(i) == "bit " \o ToString(i)
      numel == t[1].numel
      OneOf(i) ==
        << LetBy(b(i), "_rshift", i - 1, <<"xb">>), Constant("k1", 1, "x"),
           Let(b(i), "_and", <<b(i), "k1">>) >> \o HintBits(b(i), 1, t[1])
      Halve(n) ==
        LET half == n \div 2
        IN  << Line(<<"lower">>, "concatenate", NoPar, [i \in 1 .. half |-> b(i)]),
               Line(<<"upper">>, "concatenate", NoPar, [i \in 1 .. half |-> b(half + i)]),
               Let("sums", "_add", <<"lower", "upper">>) >>
            \o [i \in 1 .. half |->
                  Take(b(i), [j \in 1 .. numel |-> (i - 1) * numel + j], "sums")]
  IN  Code(<<"x">>,
        << Let("xb", "_prefer_b", <<"x">>) >>
        \o Levels([i \in 1 .. par.bits |-> OneOf(i)])
        \o Levels([i \in 1 .. Log2Ceil(par.bits) |-> Halve(par.bits \div Pow2[i - 1])]),
        <<b(1)>>)

(* All bits below the highest that is set.                                 *)
_prefix_or ==
  Code(<<"x">>,
    << Let("b0", "_prefer_b", <<"x">>) >>
    \o Levels([i \in 1 .. Log2Ceil(K) |->
         << LetBy("b1", "_rshift", Pow2[i - 1], <<"b0">>), Let("b0", "_or", <<"b0", "b1">>) >>]),
    <<"b0">>)
_eqz(t) ==
  Code(<<"x">>,
    << Constant("k1", 1, "x"), Let("r", "_prefix_or", <<"x">>),
       Let("r", "_and", <<"r", "k1">>), Let("r", "_xor", <<"r", "k1">>) >>
    \o HintBits("r", 1, t[1]),
    <<"r">>)
_bitdeintl ==
  LET Level(i) ==
        << Constant("keep", KeepMask(i), "r"), Constant("move", SwapMask(i), "r"),
           Let("kept", "_and", <<"r", "keep">>),
           LetBy("down", "_rshift", Pow2[i], <<"r">>), Let("down", "_and", <<"down", "move">>),
           Let("up", "_and", <<"r", "move">>), LetBy("up", "_lshift", Pow2[i], <<"up">>),
           Let("r", "_xor", <<"kept", "down">>), Let("r", "_xor", <<"r", "up">>) >>
  IN  Code(<<"r">>, Levels([i \in 1 .. Log2Ceil(K) - 1 |-> Level(i - 1)]), <<"r">>)

(* To the type `to`; what is public can become anything.                   *)
_cast_type(to, t) ==
  CASE t[1].k = to.k /\ t[1].n = to.n -> Code(<<"x">>, <<>>, <<"x">>)
    [] Vis(t[1]) = "p" /\ Vis(to) = "p" -> Code(<<"x">>, <<>>, <<"x">>)
    [] Vis(t[1]) = "p" /\ Vis(to) = "s" -> Do("p2s", [bool |-> FALSE], t)
    [] Vis(t[1]) = "p" /\ Vis(to) = "v" -> Do("p2v", [owner |-> to.n], t)
    [] Vis(t[1]) = "v" /\ Vis(to) = "s" -> Do("v2s", NoPar, t)
    [] Vis(t[1]) = "s" /\ Vis(to) = "s" -> Do("cast_type_s", to, t)

HalExpand(c, t, program) ==
  CASE c.op \in {"_not", "_negate", "_msb", "_square", "_lshift", "_rshift", "_arshift",
                 "_trunc", "_bitrev"} ->
         Unary(SubSeq(c.op, 2, Len(c.op)), c.par, t)
    [] c.op \in {"_add", "_mul", "_and", "_xor"} ->
         Commutative(SubSeq(c.op, 2, Len(c.op)), t)
    [] c.op = "_mmul" -> _mmul(c.par, t)
    [] c.op = "_mmul_impl" -> _mmul_impl(c.par, t)
    [] c.op = "_sub" -> _sub
    [] c.op = "_or" -> _or
    [] c.op = "_less" -> _less
    [] c.op = "_equal" -> _equal(t, program)
    [] c.op = "_sign" -> _sign
    [] c.op = "_mux" -> _mux
    [] c.op = "_clamp" -> _clamp
    [] c.op = "_clamp_lower" -> _clamp_lower
    [] c.op = "_clamp_upper" -> _clamp_upper
    [] c.op = "_prefer_a" -> _prefer_a(t)
    [] c.op = "_prefer_b" -> _prefer_b(t)
    [] c.op = "_bit_parity" -> _bit_parity(c.par)
    [] c.op = "_popcount" -> _popcount(c.par, t)
    [] c.op = "_prefix_or" -> _prefix_or
    [] c.op = "_eqz" -> _eqz(t)
    [] c.op = "_bitdeintl" -> _bitdeintl
    [] c.op = "_cast_type" -> _cast_type(c.par, t)
    [] OTHER -> Expand(c, t, program)
=============================================================================
