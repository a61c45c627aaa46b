------------------------------- MODULE Semi2k -------------------------------
(***************************************************************************)
(* The kernels of the protocol semi2k, mpc/semi2k, for any number of       *)
(* parties.  A secret is the sum or the exclusive or of one share of each; *)
(* products take correlated words, which BeaverTfpUnsafe deals.  The       *)
(* openings that products keep are in BeaverCache.                         *)
(***************************************************************************)
EXTENDS AdditiveShares

-----------------------------------------------------------------------------
(* beaver_impl: every party draws its arrays from its own seed and its own *)
(* counter; the first party, who knows all seeds, replays the arrays of    *)
(* all with its counter (TrustedParty) and adjusts its last one for all to *)
(* fit together.                                                           *)

(* A party's array like x, of words of w bits, after as many blocks; the   *)
(* arrays of all parties together.                                         *)
Dealt(p, before, x, w) == Words(BeaverSeed(p), drawn[p].beaver + before, x, w)
Replayed(p, before, x, w, Add(_, _)) ==
  LET of(q) == Words(BeaverSeed(q), drawn[p].beaver + before, x, w)
  IN  FoldSet(LAMBDA q, t : Add(t, of(q)), of(p), Others(p))
Whole(p, before, x) == Replayed(p, before, x, K, Plus)

-----------------------------------------------------------------------------
(* trusted_party.cc: what the first party adds, for masks that were drawn  *)
(* one after the other.                                                    *)
adjustMul(p, x, y, z) ==
  Times(p, Whole(p, 0, x), Whole(p, Blocks(x, K), y))
    -- Whole(p, Blocks(x, K) + Blocks(y, K), z)

adjustSquare(p, x) ==
  LET a == Whole(p, 0, x) IN a ** a -- Whole(p, Blocks(x, K), x)

adjustMulPriv(p, x, w) ==
  Cast(Replayed(p, 0, x, w, LAMBDA s, t : Cast(s ** t, w))
         -- Replayed(p, Blocks(x, w), x, w, Plus), w)

adjustAnd(p, x, w) ==
  LET All(k) == Replayed(p, k * Blocks(x, w), x, w, XorAll)
  IN  (All(0) && All(1)) ## All(2)

adjustTrunc(p, x, bits) ==
  ring_arshift(Whole(p, 0, x), bits) -- Whole(p, Blocks(x, K), x)

adjustTruncPr(p, x, bits) ==
  LET n == Blocks(x, K)
      r == Whole(p, 0, x)
  IN  << ring_rshift(ring_lshift(r, 1), bits + 1) -- Whole(p, n, x),
         ring_rshift(r, K - 1) -- Whole(p, 2 * n, x) >>

(* ring_randbit: bits of the first party's own generator.                  *)
adjustRandBit(p, x) ==
  ring_cast_boolean(Words(PrivSeed(p), drawn[p].beaver, x, K)) -- Whole(p, 0, x)

adjustEqz(p, x) ==
  Whole(p, 0, x) ## Replayed(p, Blocks(x, K), x, K, XorAll)

adjustPerm(p, x, perm) ==
  applyInvPerm(Whole(p, 0, x), perm) -- Whole(p, Blocks(x, K), x)

-----------------------------------------------------------------------------
(* beaver_tfp.cc: the arrays of a party, and the n blocks they take.       *)

(* Mul, and Dot for products of matrices: two masks and their product.     *)
Mul(p, x, y) ==
  LET nx == Blocks(x, K)
      nxy == nx + Blocks(y, K)
      z == Times(p, x, y)
      c == Dealt(p, nxy, z, K)
  IN  [a |-> Dealt(p, 0, x, K), b |-> Dealt(p, nx, y, K), n |-> nxy + Blocks(z, K),
       c |-> IfFirst(p, c ++ adjustMul(p, x, y, z), c)]

Square(p, x) ==
  LET n == Blocks(x, K)
      b == Dealt(p, n, x, K)
  IN  [a |-> Dealt(p, 0, x, K), n |-> 2 * n,
       b |-> IfFirst(p, b ++ adjustSquare(p, x), b)]

(* Two parties: each has one factor.                                       *)
MulPriv(p, x, w) ==
  LET n == Blocks(x, w)
      c == Dealt(p, n, x, w)
  IN  [a |-> Dealt(p, 0, x, w), n |-> 2 * n,
       c |-> IfFirst(p, c ++ adjustMulPriv(p, x, w), c)]

(* And, in storage of w bits.                                              *)
AndTriple(p, x, w) ==
  LET n == Blocks(x, w)
      m(i) == Dealt(p, i * n, x, w)
  IN  [a |-> m(0), b |-> m(1), n |-> 3 * n,
       c |-> IfFirst(p, m(2) ## adjustAnd(p, x, w), m(2))]

Trunc(p, x, bits) ==
  LET n == Blocks(x, K)
      b == Dealt(p, n, x, K)
  IN  [a |-> Dealt(p, 0, x, K), n |-> 2 * n,
       b |-> IfFirst(p, b ++ adjustTrunc(p, x, bits), b)]

TruncPr(p, x, bits) ==
  LET n == Blocks(x, K)
      m(i) == LET r == Dealt(p, i * n, x, K)
              IN  IfFirst(p, r ++ adjustTruncPr(p, x, bits)[i], r)
  IN  [a |-> Dealt(p, 0, x, K), b |-> m(1), c |-> m(2), n |-> 3 * n]

RandBit(p, x) ==
  LET r == Dealt(p, 0, x, K) IN IfFirst(p, r ++ adjustRandBit(p, x), r)

(* An array before and after the inverse of a permutation that its owner   *)
(* and the first party draw, with one block more than the others.          *)
PermPair(p, x, owner) ==
  LET n == Blocks(x, K)
      perm == Order(BeaverSeed(owner), drawn[p].beaver + 2 * n, x)
      b == Dealt(p, n, x, K)
  IN  [a |-> Dealt(p, 0, x, K), perm |-> perm,
       b |-> IfFirst(p, b ++ adjustPerm(p, x, perm), b),
       n |-> 2 * n + (IF p \in {0, owner} THEN 1 ELSE 0)]

Eqz(p, x) ==
  LET n == Blocks(x, K)
      b == Dealt(p, n, x, K)
  IN  [a |-> Dealt(p, 0, x, K), n |-> 2 * n,
       b |-> IfFirst(p, b ## adjustEqz(p, x), b)]

-----------------------------------------------------------------------------
(* Semi2kIo: party p's share of an input, split by words of a given seed.  *)
toShares(p, seed, v) ==
  LET r(q) == Words(seed, q, v.x, K)
      split(Less(_, _)) == IF p # 0 THEN r(p) ELSE
                             FoldSet(LAMBDA q, x : Less(x, r(q)), v.x, Others(0))
  IN  CASE v.type = "P" -> Pub(v.x)
        [] v.type = "V" -> Priv(v.owner, IF p = v.owner THEN <<v.x>> ELSE <<>>)
        [] v.type = "A" -> AShr(<<split(LAMBDA x, y : x -- y)>>)
        [] v.type = "B" -> BShr(v.nbits, split(LAMBDA x, y : x ## y))

-----------------------------------------------------------------------------
(* arithmetic.cc                                                           *)
P2A(p) ==
  LET x == Mine(p, 1)
      zero == ZeroA(p, 0, x)
  IN  Alone(p, "P2A", Both(Blocks(x, K)), AShr(<<IfFirst(p, zero ++ x, zero)>>))

(* Nobody sends anything: the owner adds its value to its share of zero.   *)
V2A(p) ==
  LET zero == ZeroA(p, 0, [i \in 1 .. Par(p).numel |-> 0])
  IN  Alone(p, "V2A", Both(Blocks(zero, K)),
            AShr(<<IF p = Arg(p, 1).owner THEN zero ++ Mine(p, 1) ELSE zero>>))

(* MulOpen and its callers: x - a and y - b are opened as one message; the *)
(* first party's share has the product of the two.                         *)
Product(p, op, x, y, Finish(_)) ==
  LET m == Mul(p, x, y)
      Share(k, opened) ==
        LET xa == SubSeq(opened, 1, Len(k.a))
            yb == SubSeq(opened, Len(k.a) + 1, Len(opened))
            z == Times(p, xa, k.b) ++ Times(p, k.a, yb) ++ k.c
        IN  <<AShr(<<Finish(IfFirst(p, z ++ Times(p, xa, yb), z))>>)>>
  IN  AllReduce(p, op, "open(x-a,y-b)", Beaver(m.n), (x -- m.a) \o (y -- m.b),
                m, Plus, Share)

MulAA(p) ==
  Product(p, "MulAA", Mine(p, 1), Mine(p, 2), LAMBDA z : z)

MatMulAA(p) ==
  Product(p, "MatMulAA", Mine(p, 1), Mine(p, 2), LAMBDA z : z)

SquareA(p) ==
  LET x == Mine(p, 1)
      m == Square(p, x)
      Share(k, xa) ==
        LET z == k.a ** xa ** Fill(xa, 2) ++ k.b
        IN  <<AShr(<<IfFirst(p, z ++ xa ** xa, z)>>)>>
  IN  AllReduce(p, "SquareA", "open(x-a)", Beaver(m.n), x -- m.a, m,
                Plus, Share)

(* Two parties: (x0 + x1) (y0 ^ y1) is the product of (1 - 2 y) x and y,   *)
(* each party's own terms apart.                                           *)
MulA1B(p) ==
  LET x == Mine(p, 1)
      yy == ring_cast_boolean(Mine(p, 2))
      xx == (Fill(x, 1) -- ring_lshift(yy, 1)) ** x
  IN  Product(p, "MulA1B", xx, yy,
              LAMBDA z : (z -- xx ** yy) ++ x ** yy)

(* Two parties, each with one factor, in a ring of w bits.                 *)
MulVVS(p) ==
  LET in == Mine(p, 1 + (IF p = Arg(p, 1).owner THEN 0 ELSE 1))
      w == Par(p).width
      m == MulPriv(p, in, w)
  IN  \/ /\ Turn(p, "MulVVS", 0)
         /\ Pass(p, Beaver(m.n), Nothing,
                 To(NextRank(p), <<Msg("a0+x_or_a1+y", Cast(m.a ++ in, w))>>), m)
      \/ /\ Turn(p, "MulVVS", 1)
         /\ Arrived(p, From(PrevRank(p), <<"a0+x_or_a1+y">>))
         /\ LET k == kept[p]
                t == Took(p, PrevRank(p), 1)
            IN  Return(p, NoDraw, From(PrevRank(p), <<"a0+x_or_a1+y">>), Nothing,
                       <<AShr(<<Cast(k.c ++ IfFirst(p, t ** in,
                                                    t ** ring_neg(k.a)), w)>>)>>)

(* Two parties: each truncates its share.  More: a dealt pair r, r >> bits. *)
TruncA(p) ==
  LET x == Mine(p, 1)
      bits == Par(p).bits
      m == Trunc(p, x, bits)
  IN  \/ /\ job.world = 2
         /\ Local(p, "TruncA", AShr(<<ring_arshift(x, bits)>>))
      \/ /\ job.world # 2
         /\ AllReduce(p, "TruncA", "trunc_a", Beaver(m.n), x -- m.a, m.b, Plus,
              LAMBDA k, xr :
                <<AShr(<<IfFirst(p, k ++ ring_arshift(xr, bits), k)>>)>>)

TruncAPr(p) ==
  LET x == Mine(p, 1)
      m == TruncPr(p, x, Par(p).bits)
  IN  AllReduce(p, "TruncAPr", "trunc_a", Beaver(m.n), Lifted(p, x) ++ m.a, m, Plus,
                LAMBDA k, c : <<AShr(<<TruncPrShare(p, c, k.b, k.c, Par(p).bits)>>)>>)

(* Two parties.  computeMW: each finds its factor, MulVVS multiplies them, *)
(* and the truncated shares are corrected by the wraps.                    *)
L_4 == Pow2[K - 2]
AtLeast(x, v) == [i \in DOMAIN x |-> IF x[i] >= v THEN 1 ELSE 0]
MWFactors(p) ==
  LET x == Mine(p, 1)
      f == IfFirst(p, AtLeast(x -- Fill(x, L_4), 2 * L_4), AtLeast(x, 2 * L_4))
      own(o) == Priv(o, IF p = o THEN <<f>> ELSE <<>>)
  IN  /\ Turn(p, "MWFactors", 0)
      /\ Return(p, NoDraw, Nothing, Nothing, [o \in 1 .. 2 |-> own(o - 1)])
TruncAPr2(p) ==
  LET x == Mine(p, 1)
      w == Width(Par(p).bits)
      mw == Cast(IfFirst(p, Mine(p, 2) ++ AtLeast(x, L_4), Mine(p, 2)), w)
  IN  Local(p, "TruncAPr2",
            AShr(<<(ring_rshift(x, Par(p).bits)
                      -- ring_lshift(mw, K - Par(p).bits)) ++ Fill(x, p)>>))

-----------------------------------------------------------------------------
(* permute.cc                                                              *)
RandPermM(p) ==
  LET x == [i \in 1 .. Par(p).numel |-> 0]
  IN  Alone(p, "RandPermM", Own(1),
            [type |-> "invM", s |-> <<Order(PrivSeed(p), drawn[p].priv, x)>>])

(* x through the inverse of the permutation of one party: it masks its     *)
(* permutation by one that was dealt with shares a and b of the same       *)
(* array before and after, and is given x - a.  Only it and the dealer     *)
(* know how many words the permutation took: it tells the others.          *)
SecureInvPerm(p) ==
  LET rank == Par(p).rank
      x == Mine(p, 1)
      perm == Mine(p, 2)
      m == PermPair(p, x, rank)
      xa == x -- m.a
      told == <<"BEAVER_TFP:PERM", "perm_open_perm">>
      po == applyInvPerm(perm, m.perm)
  IN
  \/ /\ Turn(p, "SecureInvPerm", 0) /\ p = rank
     /\ Pass(p, Beaver(m.n), Nothing,
             ToAll(p, <<Msg(told[1], drawn[p].beaver + m.n), Msg(told[2], po)>>),
             [xa |-> xa, b |-> applyInvPerm(m.b, po)])
  \/ /\ Turn(p, "SecureInvPerm", 1) /\ p = rank
     /\ Arrived(p, FromAll(p, <<"a2v">>))
     /\ Return(p, NoDraw, FromAll(p, <<"a2v">>), Nothing,
               <<AShr(<<kept[p].b ++ applyInvPerm(Reduced(p, kept[p].xa, Plus),
                                                  perm)>>)>>)
  \/ /\ Turn(p, "SecureInvPerm", 0) /\ p # rank
     /\ Pass(p, Beaver(m.n), Nothing, Nothing, [xa |-> xa, b |-> m.b])
  \/ /\ Turn(p, "SecureInvPerm", 1) /\ p # rank
     /\ Arrived(p, From(rank, told))
     /\ Return(p, Beaver(Took(p, rank, 1) - drawn[p].beaver), From(rank, told),
               To(rank, <<Msg("a2v", kept[p].xa)>>),
               <<AShr(<<applyInvPerm(kept[p].b, Took(p, rank, 2))>>)>>)

genInversePerm(p) ==
  Local(p, "genInversePerm", [type |-> "M", s |-> <<InversePerm(Mine(p, 1))>>])

PermAP(p) == Local(p, "PermAP", AShr(<<applyPerm(Mine(p, 1), Mine(p, 2))>>))
InvPermAP(p) ==
  Local(p, "InvPermAP", AShr(<<applyInvPerm(Mine(p, 1), Mine(p, 2))>>))

Arithmetic(p) ==
  \/ P2A(p) \/ V2A(p) \/ MulAA(p) \/ MatMulAA(p) \/ SquareA(p)
  \/ MulA1B(p) \/ MulVVS(p) \/ TruncA(p) \/ TruncAPr(p) \/ MWFactors(p)
  \/ TruncAPr2(p) \/ RandPermM(p) \/ SecureInvPerm(p) \/ genInversePerm(p)
  \/ PermAP(p) \/ InvPermAP(p)

-----------------------------------------------------------------------------
(* As a product, with storage for the bits there are.                      *)
AndBB(p) ==
  LET n == Least(nbits(p, 1), nbits(p, Pairs(p) + 1))
      w == Width(n)
      x == Cast(Joined(p, 0, 1), w)
      y == Cast(Joined(p, Pairs(p), 1), w)
      m == AndTriple(p, x, w)
      Share(k, opened) ==
        LET xa == SubSeq(opened, 1, Len(k.a))
            yb == SubSeq(opened, Len(k.a) + 1, Len(opened))
            z == k.c ## (xa && k.b) ## (yb && k.a)
            mine == IfFirst(p, z ## (xa && yb), z)
        IN  [i \in 1 .. Pairs(p) |-> BShr(n, Part(p, mine, i))]
  IN  /\ Calls(p, "AndBB") /\ SameTypes(p, LAMBDA i : nbits(p, i))
      /\ AllReduce(p, "AndBB", "open(x^a,y^b)", Beaver(m.n),
                   (x ## m.a) \o (y ## m.b), m, XorAll, Share)

-----------------------------------------------------------------------------
(* conversion.cc                                                           *)

(* Bit by bit: x is opened up to random bits that were dealt as arithmetic *)
(* shares.  B2A_Randbit puts the bits together, B2A_Disassemble does not.  *)
BitByBit(p, op, n, Results(_)) ==
  LET x == Mine(p, 1)
      bits == RandBit(p, [i \in 1 .. Len(x) * n |-> 0])
  IN  AllReduce(p, op, "open(x^r)", Beaver(Blocks(bits, K)),
                BitMasked(x, bits, n), bits, XorAll,
                LAMBDA r, c : Results(BitShares(p, c, r, n)))

B2A_Randbit(p) ==
  LET n == nbits(p, 1)
  IN  \/ /\ Turn(p, "B2A_Randbit", 0) /\ n = 0
         /\ Return(p, NoDraw, Nothing, Nothing, <<AShr(<<Fill(Mine(p, 1), 0)>>)>>)
      \/ /\ Calls(p, "B2A_Randbit") /\ n # 0
         /\ BitByBit(p, "B2A_Randbit", n, LAMBDA b : <<AShr(<<Assemble(b)>>)>>)
B2A_Disassemble(p) ==
  /\ Calls(p, "B2A_Disassemble")
  /\ BitByBit(p, "B2A_Disassemble", nbits(p, 1),
              LAMBDA b : [j \in 1 .. nbits(p, 1) |-> AShr(<<b[j - 1]>>)])

(* eqz: x is zero iff x + r is r; a pivot flips its bits where they differ *)
(* and the bits are folded with AndBB.                                     *)
EqzFlags(p) ==
  LET x == Mine(p, 1)
      m == Eqz(p, x)
      pivot == Word(PublSeed, drawn[p].publ, 1, 2 * K) % job.world
  IN  AllReduce(p, "EqzFlags", "reveal c ", Publ(1) \uplus Beaver(m.n),
                x ++ m.a, [pivot |-> pivot, b |-> m.b],
                Plus, LAMBDA k, c :
                  <<BShr(K, IF p = k.pivot THEN ring_not(k.b ## c) ELSE k.b)>>)
EqzShift(p) ==
  Local(p, "EqzShift", BShr(nbits(p, 1), ring_rshift(Mine(p, 1), Par(p).bits)))
EqzLast(p) == Local(p, "EqzLast", BShr(K, ring_cast_boolean(Mine(p, 1))))

EqualAA(p) == Local(p, "EqualAA", AShr(<<Mine(p, 1) -- Mine(p, 2)>>))
EqualAP(p) ==
  Local(p, "EqualAP", AShr(<<IfFirst(p, Mine(p, 1) -- Mine(p, 2), Mine(p, 1))>>))

Boolean(p) ==
  \/ AndBB(p) \/ B2A_Randbit(p) \/ B2A_Disassemble(p) \/ EqzFlags(p)
  \/ EqzShift(p) \/ EqzLast(p) \/ EqualAA(p) \/ EqualAP(p)

Kernel(p) == OnShares(p) \/ Arithmetic(p) \/ Boolean(p)

-----------------------------------------------------------------------------
(* The kernels that call others.                                           *)
TruncByMW(bits) ==
  Code(<<"x">>,
    << Line(<<"m", "w">>, "MWFactors", NoPar, <<"x">>),
       Line(<<"mw">>, "MulVVS", [width |-> Width(bits)], <<"m", "w">>),
       Itself(<<"r">>, "TruncAPr2", By(bits), <<"x", "mw">>) >>,
    <<"r">>)

MsbA2B ==
  Code(<<"x">>,
    << Line(<<"m", "n">>, "A2BSummands", NoPar, <<"x">>),
       Let("r", "msb_of_sum", <<"m", "n">>) >>,
    <<"r">>)

(* The shares of n bits, put together.                                     *)
Assembled(n) ==
  LET bit(j) == "bit " \o ToString(j)
  IN  Code(<<"x">>,
        << Itself([j \in 1 .. n |-> bit(j - 1)], "B2A_Disassemble", NoPar, <<"x">>),
           LetBy("r", "LShiftA", 0, <<bit(0)>>) >>
        \o Levels([j \in 1 .. n - 1 |->
             << LetBy("up", "LShiftA", j, <<bit(j)>>), Let("r", "AddAA", <<"r", "up">>) >>]),
        <<"r">>)

Equal(op) ==
  LET Fold(bits) ==
        << LetBy("half", "EqzShift", bits, <<"f">>), Let("f", "AndBB", <<"f", "half">>) >>
  IN  Code(<<"x", "y">>,
        << Itself(<<"d">>, op, NoPar, <<"x", "y">>), Let("f", "EqzFlags", <<"d">>) >>
        \o Levels([i \in 1 .. Log2Ceil(K) |-> Fold(K \div Pow2[i])])
        \o << Let("f", "EqzLast", <<"f">>) >>,
        <<"f">>)

PermBy(first, perm, ranks) ==
  Code(<<"x", "perm">>,
    first \o [i \in DOMAIN ranks |->
      Line(<<"x">>, "SecureInvPerm", [rank |-> ranks[i]], <<"x", perm>>)],
    <<"x">>)

Expand(c, world) ==
  LET up == [i \in 1 .. world |-> i - 1]
  IN  CASE c.op = "A2B" -> A2B(world)
        [] c.op = "MsbA2B" -> MsbA2B
        [] c.op = "B2A" -> Code(<<"x">>, << Let("z", "B2A_Randbit", <<"x">>) >>, <<"z">>)
        [] c.op = "B2A_Disassemble" -> Assembled(c.par.nbits)
        [] c.op = "AddBB" -> add_bb(c.par.circuit)
        [] c.op \in {"EqualAA", "EqualAP"} -> Equal(c.op)
        [] c.op = "TruncAPr2" -> TruncByMW(c.par.bits)
        [] c.op = "PermAM" -> PermBy(<<>>, "perm", up)
        [] c.op = "InvPermAM" ->
             PermBy(<< Let("inv", "genInversePerm", <<"perm">>) >>, "inv", Reverse(up))
        [] c.op = "InvPermAV" -> PermBy(<<>>, "perm", <<c.par.owner>>)
        [] OTHER -> Circuit(c)
=============================================================================
