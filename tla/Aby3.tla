-------------------------------- MODULE Aby3 --------------------------------
(***************************************************************************)
(* The kernels of ABY3 on Boolean shares and between the two kinds of      *)
(* shares: mpc/aby3/boolean.cc and conversion.cc.  A Boolean share has a   *)
(* number of bits, in the smallest storage that has so many; the bits of   *)
(* the storage above it are random in the shares and cancel out.           *)
(***************************************************************************)
EXTENDS Aby3Arithmetic, Circuits

nbits(p, i) == Arg(p, i).nbits
Width(n) == calcBShareBacktype(n)
BHalves(p, n, F(_)) == BShr(n, Halves(p, F))
Least(m, n) == Min({m, n})
Most(m, n) == Max({m, n})

RandB(p) ==
  LET x == [i \in 1 .. Par(p).numel |-> 0]
  IN  Alone(p, "RandB", Both(Blocks(x, K)),
            BShr(1, <<ring_cast_boolean(FillSelf(p, 0, x, K)),
                      ring_cast_boolean(FillNext(p, 0, x, K))>>))

B2P(p) ==
  Rotate(p, "B2P", "b2p", NoDraw, Right(p, 1),
         LAMBDA x2, x3 : Pub(Left(p, 1) ## x2 ## x3))

P2B(p) ==
  LET x == Public(p, 1)
      zero == Fill(x, 0)
  IN  Local(p, "P2B", BShr(maxBitWidth(x), <<IF p = 0 THEN x ELSE zero,
                                             IF p = 2 THEN x ELSE zero>>))

B2V(p) ==
  LET owner == Par(p).owner
      next == NextRank(owner)
      x == Left(p, 1) ## Right(p, 1)
  IN  /\ Turn(p, "B2V", 0)
      /\ CASE p = owner ->
                Return(p, NoDraw, From(next, <<"b2v">>), Nothing,
                       <<Priv(owner, <<x ## Took(p, next, 1)>>)>>)
           [] p = next ->
                Return(p, NoDraw, Nothing,
                       To(PrevRank(p), <<Msg("b2v", Right(p, 1))>>),
                       <<Priv(owner, <<>>)>>)
           [] OTHER ->
                Return(p, NoDraw, Nothing, Nothing, <<Priv(owner, <<>>)>>)

AndBP(p) ==
  LET y == Public(p, 2)
  IN  Local(p, "AndBP", BHalves(p, Least(nbits(p, 1), maxBitWidth(y)),
                                LAMBDA h : h && y))
XorBP(p) ==
  LET y == Public(p, 2)
  IN  Local(p, "XorBP", BHalves(p, Most(nbits(p, 1), maxBitWidth(y)),
                                LAMBDA h : h ## y))
XorBB(p) ==
  Local(p, "XorBB", BShr(Most(nbits(p, 1), nbits(p, 2)),
                         <<Left(p, 1) ## Left(p, 2),
                           Right(p, 1) ## Right(p, 2)>>))

(* As the product of arithmetic shares.                                    *)
Ands(x, y, w, r) ==
  Cast((x[1] && y[1]) ## (x[1] && y[2]) ## (x[2] && y[1]), w) ## r
AndMask(p, x, w) == FillSelf(p, 0, x, w) ## FillNext(p, 0, x, w)
AndBB(p) ==
  LET x == <<Joined(p, 0, 1), Joined(p, 0, 2)>>
      y == <<Joined(p, Pairs(p), 1), Joined(p, Pairs(p), 2)>>
      n == Least(nbits(p, 1), nbits(p, Pairs(p) + 1))
      w == Width(n)
      z == Ands(x, y, w, AndMask(p, x[1], w))
      next == NextRank(p)
  IN  \/ /\ Turn(p, "AndBB", 0)
         /\ SameTypes(p, LAMBDA i : nbits(p, i))
         /\ Pass(p, Both(Blocks(x[1], w)), Nothing,
                 To(PrevRank(p), <<Msg("andbb", z)>>), z)
      \/ /\ Turn(p, "AndBB", 1)
         /\ Arrived(p, From(next, <<"andbb">>))
         /\ Return(p, NoDraw, From(next, <<"andbb">>), Nothing,
                   [i \in 1 .. Pairs(p) |->
                      BShr(n, <<Part(p, kept[p], i), Part(p, Took(p, next, 1), i)>>)])

LShiftB(p) ==
  Local(p, "LShiftB", BHalves(p, Least(nbits(p, 1) + Par(p).bits, K),
                              LAMBDA h : ring_lshift(h, Par(p).bits)))
RShiftB(p) ==
  LET n == nbits(p, 1)
  IN  Local(p, "RShiftB", BHalves(p, n - Least(n, Par(p).bits),
                                  LAMBDA h : ring_rshift(h, Par(p).bits)))
ARShiftB(p) ==
  Local(p, "ARShiftB",
        BHalves(p, K, LAMBDA h : ring_arshift(h, Par(p).bits)))
BitrevB(p) ==
  Local(p, "BitrevB",
        BHalves(p, Most(nbits(p, 1), Par(p).end),
                LAMBDA h : ring_bitrev(h, Par(p).start, Par(p).end)))
BitIntlB(p) ==
  Local(p, "BitIntlB", BHalves(p, nbits(p, 1), LAMBDA h :
                                 BitIntl(h, Par(p).stride, nbits(p, 1))))
BitDeintlB(p) ==
  Local(p, "BitDeintlB", BHalves(p, nbits(p, 1), LAMBDA h :
                                   BitDeintl(h, Par(p).stride, nbits(p, 1))))
CastTypeB(p) ==
  Local(p, "CastTypeB", BHalves(p, Par(p).nbits, LAMBDA h : h))

-----------------------------------------------------------------------------
(* conversion.cc                                                           *)

(* Two Boolean shares with the arithmetic share as their sum: of the sum   *)
(* of the shares of party 0, masked, and of the share it does not have.    *)
(* A2B and MsbA2B go on with the circuits add_bb and carry_a2b.            *)
A2BSummands(p) ==
  LET x == Left(p, 1)
      z == AndMask(p, x, K) ## (IF p = 0 THEN Open(p, 1) ELSE Fill(x, 0))
      n == <<IF p = 2 THEN Left(p, 1) ELSE Fill(x, 0),
             IF p = 1 THEN Right(p, 1) ELSE Fill(x, 0)>>
      next == NextRank(p)
  IN  \/ /\ Turn(p, "A2BSummands", 0)
         /\ Pass(p, Both(Blocks(x, K)), Nothing,
                 To(PrevRank(p), <<Msg(Par(p).tag, z)>>), z)
      \/ /\ Turn(p, "A2BSummands", 1)
         /\ Arrived(p, From(next, <<Par(p).tag>>))
         /\ Return(p, NoDraw, From(next, <<Par(p).tag>>), Nothing,
                   <<BShr(K, <<kept[p], Took(p, next, 1)>>), BShr(K, n)>>)

(* B2AByPPA: the parties 1 and 2 take words ra, whose sum, masked, all add *)
(* as Boolean shares to x with the circuit add_bb between the two turns;   *)
(* party 0 opens x + r, its share, and the others' shares are -ra.         *)
B2APPARand(p) ==
  LET x == Left(p, 1)
      n == Blocks(x, K)
      ra == FillSelf(p, 0, x, K)
      zb == FillSelf(p, n, x, K) ## FillNext(p, n, x, K)
      rb == IF p = 1 THEN zb ## (ra ++ FillNext(p, 0, x, K)) ELSE zb
      next == NextRank(p)
  IN  \/ /\ Turn(p, "B2APPARand", 0)
         /\ Pass(p, Both(2 * n), Nothing,
                 To(PrevRank(p), <<Msg("b2a.rand", rb)>>),
                 [ra |-> ra, rb |-> rb])
      \/ /\ Turn(p, "B2APPARand", 1)
         /\ Arrived(p, From(next, <<"b2a.rand">>))
         /\ Return(p, NoDraw, From(next, <<"b2a.rand">>), Nothing,
                   <<BShr(K, Arg(p, 1).s),
                     BShr(K, <<kept[p].rb, Took(p, next, 1)>>),
                     [type |-> "local", s |-> <<kept[p].ra>>]>>)
B2APPAOpen(p) ==
  LET tag == "reveal.x_plus_r.to.P0"
      ra == Arg(p, 2).s[1]
      next == NextRank(p)
      hand(waits, mine, also) ==
        Pass(p, NoDraw, waits, (PrevRank(p) :> <<Msg("b2a.rotate", mine)>>) @@ also,
             mine)
  IN  \/ /\ Turn(p, "B2APPAOpen", 0)
         /\ CASE p = 0 ->
                   /\ Arrived(p, From(2, <<tag>>))
                   /\ hand(From(2, <<tag>>),
                           Left(p, 1) ## Right(p, 1) ## Took(p, 2, 1), Nothing)
              [] p = 2 ->
                   hand(Nothing, ring_neg(ra), To(0, <<Msg(tag, Left(p, 1))>>))
              [] OTHER -> hand(Nothing, ring_neg(ra), Nothing)
      \/ /\ Turn(p, "B2APPAOpen", 1)
         /\ Arrived(p, From(next, <<"b2a.rotate">>))
         /\ Return(p, NoDraw, From(next, <<"b2a.rotate">>), Nothing,
                   <<AShr(<<kept[p], Took(p, next, 1)>>)>>)

(* B2AByOT: every bit is a transfer from P2, for the choice of P1, with    *)
(* the help of P0, to P1, who tells P0; the words of the bits are put      *)
(* together in the ring.                                                   *)
B2AByOT(p) ==
  LET n == nbits(p, 1)
      x == Left(p, 1)
      like == [i \in 1 .. Len(x) * n |-> 0]
      bitDecompose(v) ==
        [i \in DOMAIN like |-> Bit(v[(i - 1) \div n + 1], (i - 1) % n)]
      bitCompose(b) == [i \in DOMAIN x |->
        MapThenSumSet(LAMBDA j : b[(i - 1) * n + j + 1] * Pow2[j], 0 .. n - 1)
          % Pow2[K]]
      size == Blocks(like, K)
      r0 == FillSelf(p, 0, like, K)
      r1 == FillNext(p, 0, like, K)
      before == PrevRank(p)
      after == NextRank(p)
  IN
  \/ /\ Turn(p, "B2AByOT", 0) /\ n = 0
     /\ Return(p, NoDraw, Nothing, Nothing, <<AShr(<<Fill(x, 0), Fill(x, 0)>>)>>)
  \/ Turn(p, "B2AByOT", 0) /\ n # 0 /\
     CASE Role(p) = 0 ->
            LET m(i) == FillSelf(p, i * size, like, K)
                mc == ring_select(bitDecompose(Right(p, 1)), m(1), m(2))
            IN  Pass(p, Publ(1) \uplus First(3 * size) \uplus Second(size), Nothing,
                     To(after, <<Msg("mc", mc)>>),
                     [role |-> 0, c |-> bitCompose(r0)])
       [] Role(p) = 1 ->
            Pass(p, Publ(1) \uplus Both(size), Nothing, Nothing,
                 [role |-> 1, c |-> bitCompose(r1)])
       [] OTHER ->
            LET b == bitDecompose(x ## Right(p, 1))
                m(i) == ((b ## Fill(b, i)) -- (r0 ++ r1))
                          ## FillNext(p, (i + 1) * size, like, K)
            IN  Return(p, Publ(1) \uplus First(size) \uplus Second(3 * size), Nothing,
                       To(before, <<Msg("m0", m(0)), Msg("m1", m(1))>>),
                       <<AShr(<<bitCompose(r0), bitCompose(r1)>>)>>)
  \/ /\ Turn(p, "B2AByOT", 1) /\ kept[p].role = 1
     /\ LET waits == (before :> <<"mc">>) @@ (after :> <<"m0", "m1">>)
        IN  /\ Arrived(p, waits)
            /\ LET mc == ring_select(bitDecompose(x), Took(p, after, 1),
                                     Took(p, after, 2)) ## Took(p, before, 1)
                   c2 == bitCompose(mc)
               IN  Return(p, NoDraw, waits, To(before, <<Msg("c2", c2)>>),
                          <<AShr(<<c2, kept[p].c>>)>>)
  \/ /\ Turn(p, "B2AByOT", 1) /\ kept[p].role = 0
     /\ Return(p, NoDraw, From(after, <<"c2">>), Nothing,
               <<AShr(<<kept[p].c, Took(p, after, 1)>>)>>)

(* eqz: x is zero iff x + r is r, bit by bit, for a word r of P0, who      *)
(* deals shares of its value and of its bits; P1 opens x + r.  The bits    *)
(* that agree are then folded with AndBB, first half by half of the        *)
(* storage, then by shifts inside of its smallest unit.                    *)
Byte == Min(Widths)
EqzFlags(p) ==
  LET before == PrevRank(p)
      after == NextRank(p)
      like == Left(p, 1)
      n == Blocks(like, K)
      flags(a, b) == <<BShr(K, <<a, b>>)>>
  IN
  \/ Turn(p, "EqzFlags", 0) /\
     CASE Role(p) = 0 ->
            LET r == FillPriv(p, 0, like, K)
                arith == r -- FillNext(p, 0, like, K)
                bool == r ## FillNext(p, n, like, K)
            IN  Return(p, Publ(1) \uplus Own(n) \uplus Second(3 * n), Nothing,
                       To(before, <<Msg("r_arith", arith), Msg("r_bool", bool)>>),
                       flags(bool, FillNext(p, 2 * n, like, K)))
       [] Role(p) = 1 ->
            Pass(p, Publ(1) \uplus First(3 * n), Nothing, Nothing,
                 [role |-> 1,
                  c |-> Open(p, 1) ++ FillSelf(p, 0, like, K),
                  r |-> FillSelf(p, n, like, K),
                  z |-> FillSelf(p, 2 * n, like, K)])
       [] OTHER ->
            Pass(p, Publ(1), Nothing, Nothing, [role |-> 2])
  \/ /\ Turn(p, "EqzFlags", 1) /\ kept[p].role = 2
     /\ Arrived(p, From(after, <<"r_arith", "r_bool">>))
     /\ Pass(p, NoDraw, From(after, <<"r_arith", "r_bool">>),
             To(before, <<Msg("c_s", Right(p, 1) ++ Took(p, after, 1))>>),
             [role |-> 2, r |-> Took(p, after, 2)])
  \/ /\ Turn(p, "EqzFlags", 1) /\ kept[p].role = 1
     /\ Arrived(p, From(after, <<"c_s">>))
     /\ LET k == kept[p]
            flag == ring_not((k.c ++ Took(p, after, 1)) ## k.r) ## k.z
        IN  Return(p, NoDraw, From(after, <<"c_s">>),
                   To(after, <<Msg("flag_split", flag)>>), flags(k.z, flag))
  \/ /\ Turn(p, "EqzFlags", 2)
     /\ Return(p, NoDraw, From(before, <<"flag_split">>), Nothing,
               flags(Took(p, before, 1), kept[p].r))

(* One round: the width of the storage and the shift that folds it.        *)
EqzFold(p) ==
  LET w == Par(p).width        \* the bits there are before the round
      half == w \div 2
      unit == Most(half, Byte)
      low(x) == Cast(x, unit)
      left(x) == IF w > Byte THEN low(x) ELSE ring_rshift(x, half)
      right(x) == IF w > Byte THEN ring_rshift(x, half) ELSE x
      s == Arg(p, 1).s
      z == Ands(<<left(s[1]), left(s[2])>>, <<right(s[1]), right(s[2])>>, unit,
                AndMask(p, s[1], unit))
  IN  Rotate(p, "EqzFold", "andbb", Both(Blocks(s[1], unit)), z,
             LAMBDA z1, z2 : BShr(unit, <<z1, z2>>))

(* The differences that are compared with zero.                            *)
EqualAA(p) ==
  Local(p, "EqualAA", AShr(<<Left(p, 1) -- Left(p, 2),
                             Right(p, 1) -- Right(p, 2)>>))
EqualAP(p) == Local(p, "EqualAP", AShr(Adjusted(p, ring_neg(Public(p, 2)))))

Boolean(p) ==
  \/ RandB(p) \/ B2P(p) \/ P2B(p) \/ B2V(p) \/ AndBP(p) \/ AndBB(p)
  \/ XorBP(p) \/ XorBB(p) \/ LShiftB(p) \/ RShiftB(p) \/ ARShiftB(p)
  \/ BitrevB(p) \/ BitIntlB(p) \/ BitDeintlB(p) \/ CastTypeB(p)
  \/ A2BSummands(p) \/ B2APPARand(p) \/ B2APPAOpen(p) \/ B2AByOT(p)
  \/ EqzFlags(p) \/ EqzFold(p) \/ EqualAA(p) \/ EqualAP(p)

Kernel(p) == Arithmetic(p) \/ Boolean(p)

-----------------------------------------------------------------------------
(* The kernels that call others.                                           *)
A2B ==
  Code(<<"x">>,
    << Line(<<"m", "n">>, "A2BSummands", [tag |-> "a2b"], <<"x">>),
       AddBits("r", <<"m", "n">>) >>,
    <<"r">>)
MsbA2B ==
  Code(<<"x">>,
    << Line(<<"m", "n">>, "A2BSummands", [tag |-> "m"], <<"x">>),
       Let("r", "msb_of_sum", <<"m", "n">>) >>,
    <<"r">>)
B2AByPPA ==
  Code(<<"x">>,
    << Line(<<"b", "r", "a">>, "B2APPARand", NoPar, <<"x">>),
       AddBits("sum", <<"b", "r">>), Let("z", "B2APPAOpen", <<"sum", "a">>) >>,
    <<"z">>)

(* B2ASelector: by transfers if the share has a byte at most.              *)
B2A(n) ==
  IF n <= Byte THEN Code(<<"x">>, << Let("z", "B2AByOT", <<"x">>) >>, <<"z">>)
               ELSE B2AByPPA

(* eqz of the differences: the flags of the bits, folded.                  *)
Equal(op) ==
  Code(<<"x", "y">>,
    << Itself(<<"d">>, op, NoPar, <<"x", "y">>), Let("f", "EqzFlags", <<"d">>) >>
    \o [i \in 1 .. Log2Ceil(K) |->
         Line(<<"f">>, "EqzFold", [width |-> K \div Pow2[i - 1]], <<"f">>)],
    <<"f">>)

Expand(c) ==
  CASE c.op = "A2B" -> A2B
    [] c.op = "MsbA2B" -> MsbA2B
    [] c.op = "B2A" -> B2A(c.par.nbits)
    [] c.op = "AddBB" -> add_bb(c.par.circuit)
    [] c.op \in {"EqualAA", "EqualAP"} -> Equal(c.op)
    [] OTHER -> Circuit(c)
=============================================================================
