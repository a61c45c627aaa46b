------------------------------- MODULE Spdz2k -------------------------------
(***************************************************************************)
(* The kernels of the protocol spdz2k, mpc/spdz2k, for any number of       *)
(* parties.  A secret of K bits is the sum of shares of twice as many; a   *)
(* Boolean secret has such shares of every bit, of which the lowest bit    *)
(* counts.  All are authenticated (AuthBeaver), what is opened is checked. *)
(* A kernel that opens and checks is the sequence of the calls it makes.   *)
(***************************************************************************)
EXTENDS AuthBeaver, Circuits

Least(m, n) == Min({m, n})
Most(m, n) == Max({m, n})
IfFirst(p, x, y) == IF p = 0 THEN x ELSE y
ToFirst(p, x, y) == IfFirst(p, ring_add(x, y), x)

(* Spdz2kIo: inputs have no shares of their products by the key, and none  *)
(* is private.                                                             *)
toShares(p, seed, v) ==
  LET r(q) == Words(seed, q, v.x, Long)
  IN  CASE v.type = "P" -> Pub(v.x)
        [] v.type = "A" -> Unauthed(IF p # 0 THEN r(p) ELSE
             FoldSet(LAMBDA q, x : ring_sub(x, r(q)), v.x, Others(0)))

-----------------------------------------------------------------------------
(* arithmetic.cc                                                           *)

(* zero_a_impl: shares of zero, and of zero again for its product.         *)
ZeroBlocks(x) == Both(2 * N(x))
ZeroPair(p, x) ==
  LET zero(before) == ring_sub(FillSelf(p, before, x, Long),
                               FillNext(p, before, x, Long))
  IN  Pair(zero(0), zero(N(x)))

(* GetMacShare.                                                            *)
GetMac(p) ==
  /\ Calls(p, "GetMac")
  /\ \/ Arg(p, 1).auth /\ Local(p, "GetMac", Arg(p, 1))
     \/ /\ ~Arg(p, 1).auth
        /\ AuthArrayRef(p, "GetMac", Val(p, 1), LAMBDA m : AuthShr(Val(p, 1), m))
AddMac(p) ==
  AuthArrayRef(p, "AddMac", Val(p, 1),
               LAMBDA m : AuthShr(Val(p, 1), ring_add(Mac(p, 1), m)))

Open(p) ==
  /\ Calls(p, "BatchOpen") /\ Arg(p, 1).type # "Bits"
  /\ BatchOpen(p, Val(p, 1), Mac(p, 1), Par(p).bits)
ToPublic(p) == Local(p, "ToPublic", Pub(Cast(Val(p, 1), Par(p).bits)))

RandShare(p) ==
  LET x == [i \in 1 .. Par(p).numel |-> 0]
  IN  Alone(p, "RandShare", Own(N(x)),
            Unauthed(ring_rshift(FillPriv(p, 0, x, Long), 2)))

P2A(p) ==
  LET x == Val(p, 1)
      zero == ZeroPair(p, x)
  IN  Alone(p, "P2A", ZeroBlocks(x),
            AuthShr(ToFirst(p, zero.s[1], x), ring_add(zero.mac, TimesKey(x, Key(p)))))

(* A2V: the owner hides the secret from the others under a word r.         *)
OwnRandom(p, x) == Words(PrivSeed(p), at[p], x, Long)
A2VMask(p) ==
  LET x == Val(p, 1)
      owner == Par(p).owner
      zero == ZeroPair(p, x)
      mine == p = owner
  IN  /\ Turn(p, "A2VMask", 0)
      /\ Return(p, ZeroBlocks(x), Nothing, Nothing,
           << Priv(owner, IF mine THEN <<OwnRandom(p, x)>> ELSE <<>>),
              IF mine THEN Pair(ring_add(zero.s[1], OwnRandom(p, x)), zero.mac)
                      ELSE zero >>)
A2VHide(p) ==
  Local(p, "A2VHide", Pair(ring_add(Val(p, 1), Val(p, 2)),
                           ring_add(Mac(p, 1), Mac(p, 2))))
A2VShow(p) ==
  LET owner == Par(p).owner
  IN  Local(p, "A2VShow", Priv(owner,
        IF p = owner THEN <<Cast(ring_sub(Val(p, 1), Val(p, 2)), K)>> ELSE <<>>))
V2AShare(p) ==
  LET x == [i \in 1 .. Par(p).numel |-> 0]
      zero == ZeroPair(p, x)
  IN  Alone(p, "V2AShare", ZeroBlocks(x),
            IF p # Arg(p, 1).owner THEN zero
            ELSE Pair(ring_add(zero.s[1], Val(p, 1)), zero.mac))

(* What is linear is done to the shares of the product by the key as well. *)
Linear(p, op, F(_)) == Local(p, op, AuthShr(F(Val(p, 1)), F(Mac(p, 1))))
NegateA(p) == Linear(p, "NegateA", LAMBDA x : ring_sub(Fill(x, 0), x))
MulAP(p) == Linear(p, "MulAP", LAMBDA x : ring_mul(x, Val(p, 2)))
LShiftA(p) == Linear(p, "LShiftA", LAMBDA x : ShiftUp(x, Par(p).bits))
MatMulAP(p) == Linear(p, "MatMulAP", LAMBDA x : Mmul(p, x, Val(p, 2)))

(* Mutant: what is added in public is left out of the product.             *)
AddAPUnkeyed(p) ==
  Local(p, "AddAP", AuthShr(ToFirst(p, Val(p, 1), Val(p, 2)), Mac(p, 1)))

AddAP(p) ==
  Local(p, "AddAP", AuthShr(ToFirst(p, Val(p, 1), Val(p, 2)),
                            ring_add(Mac(p, 1), TimesKey(Val(p, 2), Key(p)))))
AddAA(p) ==
  Local(p, "AddAA", AuthShr(ring_add(Val(p, 1), Val(p, 2)),
                            ring_add(Mac(p, 1), Mac(p, 2))))

(* The product of what was masked by a and b, from the opened e and f; the *)
(* first party's share has the product of these.                           *)
Triple(m, n, pairs) == [type |-> "Triple", s |-> <<>>, m |-> m, nbits |-> n,
                        pairs |-> pairs]
Product(p, m, e, f) ==
  LET ef == Times(p, e, f)
      Sum3(a, b, c) == ring_add(ring_add(Times(p, e, b), Times(p, a, f)), c)
  IN  AuthShr(ToFirst(p, Sum3(m.a.s[1], m.b.s[1], m.c.s[1]), ef),
              ring_add(Sum3(m.a.mac, m.b.mac, m.c.mac), TimesKey(ef, Key(p))))
FirstOf(x, y) == SubSeq(x, 1, Len(y))
RestOf(x, y) == SubSeq(x, Len(y) + 1, Len(x))

(* MulAA: x - a and y - b are opened as one message, without a mask.       *)
MulOpen(p) ==
  LET x == Val(p, 1)
      y == Val(p, 2)
      m == AuthTriple(p, x, y)
  IN  AllReduce(p, "MulOpen", "mul_aa", Beaver(m.n),
        ring_sub(x, m.a.s[1]) \o ring_sub(y, m.b.s[1]),
        [m |-> m, e |-> ring_sub(Mac(p, 1), m.a.mac), f |-> ring_sub(Mac(p, 2), m.b.mac)],
        ring_add, LAMBDA k, ef :
          << Triple(k.m, 0, 1), Opened(FirstOf(ef, k.e), k.e),
             Opened(RestOf(ef, k.e), k.f) >>)
MulShare(p) ==
  Local(p, "MulShare", Product(p, Arg(p, 1).m, Val(p, 2), Val(p, 3)))

(* MatMulAA does not check what it opens.                                  *)
MatMulAA(p) ==
  LET m == AuthTriple(p, Val(p, 1), Val(p, 2))
      e == ring_sub(Val(p, 1), m.a.s[1])
  IN  AllReduce(p, "MatMulAA", "mmul_aa", Beaver(m.n),
        e \o ring_sub(Val(p, 2), m.b.s[1]), m, ring_add,
        LAMBDA k, ef : << Product(p, k, FirstOf(ef, k.a.s[1]), RestOf(ef, k.a.s[1])) >>)

(* TruncA: x - r is opened, of which the parties have r truncated.         *)
TruncMask(p) ==
  LET m == AuthTrunc(p, Val(p, 1), Par(p).bits)
  IN  /\ Turn(p, "TruncMask", 0)
      /\ Return(p, Beaver(m.n), Nothing, Nothing,
           << m.rb, Pair(ring_sub(Val(p, 1), m.r.s[1]), ring_sub(Mac(p, 1), m.r.mac)) >>)
TruncShare(p) ==
  LET xr == TruncOf(Val(p, 2), Par(p).bits)
  IN  Local(p, "TruncShare", AuthShr(ToFirst(p, Val(p, 1), xr),
                               ring_add(Mac(p, 1), TimesKey(xr, Key(p)))))

Arithmetic(p) ==
  \/ GetMac(p) \/ AddMac(p) \/ Open(p) \/ BatchMacCheck(p) \/ ToPublic(p)
  \/ RandShare(p) \/ P2A(p) \/ A2VMask(p) \/ A2VHide(p) \/ A2VShow(p)
  \/ V2AShare(p) \/ NegateA(p) \/ MulAP(p) \/ LShiftA(p) \/ MatMulAP(p)
  \/ AddAP(p) \/ AddAA(p) \/ MulOpen(p) \/ MulShare(p) \/ MatMulAA(p)
  \/ TruncMask(p) \/ TruncShare(p)

-----------------------------------------------------------------------------
(* boolean.cc: an element is the sequence of its bits' shares, of which    *)
(* nbits count and the others are zero (makeBShare).                       *)
Slots(n, x) ==
  [i \in DOMAIN x |-> [j \in Bits |-> IF j < n THEN x[i][j] ELSE 0]]
BitShr(n, x, mac) ==
  [type |-> "Bits", nbits |-> n, s |-> <<Slots(n, x)>>, mac |-> Slots(n, mac)]
nbits(p, i) == Arg(p, i).nbits
PubBits(x) == [i \in DOMAIN x |-> [j \in Bits |-> Bit(x[i], j)]]
Rows(x, y, Op(_, _)) == [i \in DOMAIN x |-> Op(x[i], y[i])]
AddRows(x, y) == Rows(x, y, ring_add)
KeyRows(p, x) == [i \in DOMAIN x |-> TimesKey(x[i], Key(p))]

(* getValueShare: the n bits of every element one after the other; back.   *)
Flat(x, n) == [f \in 1 .. Len(x) * n |-> x[(f - 1) \div n + 1][(f - 1) % n]]
Grouped(f, n) ==
  [i \in 1 .. Len(f) \div n |->
     [j \in Bits |-> IF j < n THEN f[(i - 1) * n + j + 1] ELSE 0]]

(* One change to the bits' shares and those of their products; Switch is   *)
(* BShareSwitch2Nbits.                                                     *)
Each(p, op, n, F(_)) == Local(p, op, BitShr(n, F(Val(p, 1)), F(Mac(p, 1))))
Switch(p) == Each(p, "Switch", Par(p).nbits, LAMBDA x : x)
SetNbits(p) == Local(p, "SetNbits", [Arg(p, 1) EXCEPT !.nbits = Par(p).nbits])
Moved(x, Src(_)) ==
  [i \in DOMAIN x |-> [j \in Bits |-> IF Src(j) \in Bits THEN x[i][Src(j)] ELSE 0]]

P2B(p) ==
  LET n == maxBitWidth(Val(p, 1))
      x == Flat(PubBits(Val(p, 1)), n)
      zero == ZeroPair(p, x)
  IN  /\ Calls(p, "P2B") /\ n > 0
      /\ Alone(p, "P2B", ZeroBlocks(x),
           BitShr(n, Grouped(ToFirst(p, zero.s[1], x), n),
                  Grouped(ring_add(zero.mac, TimesKey(x, Key(p))), n)))
OpenBits(p) ==
  /\ Calls(p, "BatchOpen") /\ Arg(p, 1).type = "Bits"
  /\ BatchOpen(p, Flat(Val(p, 1), nbits(p, 1)), Flat(Mac(p, 1), nbits(p, 1)),
               Par(p).bits)
B2PShow(p) ==
  LET rows == Grouped(Cast(Val(p, 1), 1), nbits(p, 2))
  IN  Local(p, "B2PShow", Pub([i \in DOMAIN rows |-> FromBits(rows[i])]))

(* What is public is added by the first party, and its product by all.     *)
WithPublic(p, op, n, y) ==
  Local(p, op, BitShr(n, IfFirst(p, AddRows(Val(p, 1), y), Val(p, 1)),
                      AddRows(Mac(p, 1), KeyRows(p, y))))
NotB(p) ==
  WithPublic(p, "NotB", nbits(p, 1), PubBits(Fill(Val(p, 1), Ones)))
XorBP(p) ==
  WithPublic(p, "XorBP", Most(nbits(p, 1), maxBitWidth(Val(p, 2))), PubBits(Val(p, 2)))
XorBB(p) ==
  Local(p, "XorBB", BitShr(Most(nbits(p, 1), nbits(p, 2)),
                           AddRows(Val(p, 1), Val(p, 2)), AddRows(Mac(p, 1), Mac(p, 2))))
AndBP(p) ==
  LET n == Least(nbits(p, 1), maxBitWidth(Val(p, 2)))
  IN  /\ Calls(p, "AndBP") /\ n > 0
      /\ Each(p, "AndBP", n, LAMBDA x : Rows(x, PubBits(Val(p, 2)), ring_mul))

LShiftB(p) ==
  LET by == Par(p).bits
      n == IF by >= K THEN 1 ELSE Least(nbits(p, 1) + by, K)
  IN  Each(p, "LShiftB", n, LAMBDA x : Moved(x, LAMBDA j : j - by))
RShifted(p, op) ==
  Each(p, op, Most(nbits(p, 1) - Par(p).bits, 1),
       LAMBDA x : Moved(Slots(nbits(p, 1), x), LAMBDA j : j + Par(p).bits))
RShiftB(p) == RShifted(p, "RShiftB")
ARShiftB(p) ==
  /\ Calls(p, "ARShiftB")
  /\ \/ nbits(p, 1) # K /\ RShifted(p, "ARShiftB")
     \/ /\ nbits(p, 1) = K
        /\ Each(p, "ARShiftB", K,
                LAMBDA x : Moved(x, LAMBDA j : Least(j + Par(p).bits, K - 1)))
BitrevB(p) ==
  LET start == Par(p).start
      end == Par(p).end
  IN  /\ Calls(p, "BitrevB") /\ end <= nbits(p, 1)
      /\ Each(p, "BitrevB", nbits(p, 1), LAMBDA x : Moved(x, LAMBDA j :
              IF start <= j /\ j < end THEN end + start - j - 1 ELSE j))

(* Groups of bits from both halves in turn, and back.                      *)
Interleaved(j, stride) ==
  LET size == Pow2[stride]
      half == (((K + size - 1) \div size) + 1) \div 2
      group == j \div size
  IN  (IF j < (K + 1) \div 2 THEN 2 * group ELSE 2 * (group - half) + 1) * size
        + (j % size)
BitIntlB(p) ==
  Each(p, "BitIntlB", nbits(p, 1), LAMBDA x : Moved(x, LAMBDA j :
    CHOOSE src \in Bits : Interleaved(src, Par(p).stride) = j))
BitDeintlB(p) ==
  Each(p, "BitDeintlB", nbits(p, 1), LAMBDA x :
    Moved(x, LAMBDA j : Interleaved(j, Par(p).stride)))

(* AndBB: as a product, of which the lowest bits are opened under masks.   *)
AndMasks(p) ==
  LET pairs == Pairs(p)
      n == Least(nbits(p, 1), nbits(p, pairs + 1))
      All(first, Of(_, _)) ==
        Flat(FlattenSeq([i \in 1 .. pairs |-> Of(p, first + i)]), n)
      x == All(0, Val)
      y == All(pairs, Val)
      m == AuthTriple(p, x, y)
  IN  /\ Turn(p, "AndMasks", 0) /\ SameTypes(p, LAMBDA i : nbits(p, i))
      /\ Return(p, Beaver(m.n), Nothing, Nothing,
           << Triple(m, n, pairs),
              Pair(ring_sub(x, m.a.s[1]), ring_sub(All(0, Mac), m.a.mac)),
              Pair(ring_sub(y, m.b.s[1]), ring_sub(All(pairs, Mac), m.b.mac)) >>)
AndShare(p) ==
  LET m == Arg(p, 1)
      z == Product(p, m.m, Cast(Val(p, 2), 1), Cast(Val(p, 3), 1))
      of(x, i) == LET rows == Grouped(x, m.nbits)
                      size == Len(rows) \div m.pairs
                  IN  SubSeq(rows, (i - 1) * size + 1, i * size)
  IN  /\ Turn(p, "AndShare", 0)
      /\ Return(p, NoDraw, Nothing, Nothing, [i \in 1 .. m.pairs |->
           BitShr(m.nbits, of(z.s[1], i), of(z.mac, i))])

Boolean(p) ==
  \/ Switch(p) \/ SetNbits(p) \/ P2B(p) \/ OpenBits(p) \/ B2PShow(p) \/ NotB(p)
  \/ XorBP(p) \/ XorBB(p) \/ AndBP(p) \/ LShiftB(p) \/ RShiftB(p) \/ ARShiftB(p)
  \/ BitrevB(p) \/ BitIntlB(p) \/ BitDeintlB(p) \/ AndMasks(p) \/ AndShare(p)

-----------------------------------------------------------------------------
(* conversion.cc                                                           *)

(* AuthRandBit, for so many bits of each element; A2Bit: what is left of a *)
(* bit's shares; a Boolean secret's bits as elements of as many bits.      *)
RandBits(p) ==
  LET r == AuthRandBit(p, [i \in 1 .. Len(Val(p, 1)) * Par(p).per |-> 0])
  IN  Alone(p, "RandBits", Beaver(2 * N(r.mac)), AuthShr(r.s[1], r.mac))
A2Bit(p) ==
  LET low(x) == Grouped(Cast(x, S + 1), 1)
  IN  Local(p, "A2Bit", BitShr(1, low(Val(p, 1)), low(Mac(p, 1))))
Regroup(p) ==
  Each(p, "Regroup", Par(p).nbits,
       LAMBDA x : Grouped(Flat(x, nbits(p, 1)), Par(p).nbits))

(* c + r - 2 c r for every bit c of x under a random bit r, and together.  *)
BitsToA(p) ==
  LET c == Cast(Val(p, 1), 1)
      n == nbits(p, 3)
      less(r) == ring_sub(r, ShiftUp(ring_mul(c, r), 1))
      Join(e) == [i \in 1 .. Len(e) \div n |->
                    MapThenSumSet(LAMBDA j : e[(i - 1) * n + j + 1] * Pow2[j],
                                  0 .. n - 1) % Pow2[Long]]
  IN  Local(p, "BitsToA", AuthShr(Join(ToFirst(p, less(Val(p, 2)), c)),
        Join(ring_add(less(Mac(p, 2)), TimesKey(c, Key(p))))))

(* A2B: a less the random bits r.  MSB: a and K random bits; the bits of r *)
(* that count; a less what is left of c = a + r when those are taken away, *)
(* with au for the borrow; that under another random bit; and its bit.     *)
Less(p) ==
  Local(p, "Less", Pair(ring_sub(Val(p, 1), Val(p, 2)), ring_sub(Mac(p, 1), Mac(p, 2))))
Weighted(p, Of(_, _), first, n) ==
  FoldSet(LAMBDA j, t : ring_add(t, ShiftUp(Of(p, first + j), j)),
          Fill(Of(p, first), 0), 0 .. n - 1)
MsbMask(p) ==
  LET mask(Of(_, _)) == ring_add(Of(p, 1), Weighted(p, Of, 2, K))
  IN  Local(p, "MsbMask", Pair(mask(Val), mask(Mac)))
JoinBits(p) ==
  LET bits(Of(_, _)) == [i \in DOMAIN Val(p, 1) |-> [j \in Bits |->
                           IF j < K - 1 THEN Of(p, j + 1)[i][0] ELSE 0]]
  IN  Local(p, "JoinBits", BitShr(K - 1, bits(Val), bits(Mac)))
MsbRest(p) ==
  LET c == Val(p, 2)
      lower(Of(_, _)) == ring_sub(ShiftUp(Of(p, 3), K - 1), Weighted(p, Of, 4, K - 1))
  IN  Local(p, "MsbRest",
        Pair(ring_sub(Val(p, 1), ToFirst(p, lower(Val), c)),
             ring_sub(Mac(p, 1), ring_add(lower(Mac), TimesKey(c, Key(p))))))
MsbHide(p) ==
  LET e(Of(_, _)) == ring_add(Of(p, 1), ShiftUp(Of(p, 2), K - 1))
  IN  Local(p, "MsbHide", Pair(e(Val), e(Mac)))
MsbShare(p) ==
  LET e == Cast(ring_rshift(Val(p, 1), K - 1), 1)
      less(b) == ring_sub(b, ShiftUp(ring_mul(b, e), 1))
  IN  Local(p, "MsbShare", BitShr(1, Grouped(ToFirst(p, less(Val(p, 2)), e), 1),
        Grouped(ring_add(less(Mac(p, 2)), TimesKey(e, Key(p))), 1)))

Conversion(p) ==
  \/ RandBits(p) \/ A2Bit(p) \/ Regroup(p) \/ BitsToA(p) \/ Less(p) \/ MsbMask(p)
  \/ JoinBits(p) \/ MsbRest(p) \/ MsbHide(p) \/ MsbShare(p)

Kernel(p) == Arithmetic(p) \/ Boolean(p) \/ Conversion(p)

-----------------------------------------------------------------------------
(* The kernels that call others.                                           *)
Macs(to, x) == Let(to, "GetMac", <<x>>)
Check(x, bits) == Line(<<>>, "BatchMacCheck", By(bits), <<x>>)
Checked(to, x, bits) == << LetBy(to, "BatchOpen", bits, <<x>>), Check(to, bits) >>

(* A kernel that gets the authentication of its first operand first.       *)
OneMac(c) ==
  LET of == SubSeq(<<"x", "y">>, 1, Len(c.of))
  IN  Code(of, << Macs("m", "x"), Itself(<<"z">>, c.op, c.par, <<"m">> \o Tail(of)) >>,
           <<"z">>)
TwoMacs == << Macs("mx", "x"), Macs("my", "y") >>

AddOfMacs ==
  Code(<<"x", "y">>, TwoMacs \o << Itself(<<"z">>, "AddAA", NoPar, <<"mx", "my">>) >>, <<"z">>)
MulAA ==
  Code(<<"x", "y">>,
    TwoMacs
    \o << Line(<<"t", "e", "f">>, "MulOpen", NoPar, <<"mx", "my">>), Check("e", K),
          Check("f", K), Let("z", "MulShare", <<"t", "e", "f">>) >>,
    <<"z">>)
A2P == Code(<<"x">>, Checked("o", "x", K) \o << LetBy("p", "ToPublic", K, <<"o">>) >>, <<"p">>)
A2V(par) ==
  Code(<<"x">>,
    << Line(<<"r", "z">>, "A2VMask", par, <<"x">>), Let("z", "AddMac", <<"z">>),
       Let("h", "A2VHide", <<"x", "z">>) >>
    \o Checked("o", "h", K)
    \o << Line(<<"v">>, "A2VShow", par, <<"o", "r">>) >>,
    <<"v">>)
V2A(par) ==
  Code(<<"v">>,
    << Line(<<"z">>, "V2AShare", par, <<"v">>), Let("x", "AddMac", <<"z">>) >>, <<"x">>)
TruncA(par) ==
  Code(<<"x">>,
    << Line(<<"r", "m">>, "TruncMask", par, <<"x">>) >>
    \o Checked("o", "m", K)
    \o << Line(<<"z">>, "TruncShare", par, <<"r", "o">>) >>,
    <<"z">>)
RandA(par) == Code(<<>>, << Line(<<"r">>, "RandShare", par, <<>>), Macs("z", "r") >>, <<"z">>)
B2P == Code(<<"x">>, Checked("o", "x", 1) \o << Let("p", "B2PShow", <<"o", "x">>) >>, <<"p">>)

(* AndBB, for the operands of one call or of two (spu::vmap).              *)
AndBB(c) ==
  LET of == IF Len(c.of) = 2 THEN <<"x", "y">> ELSE <<"x", "x2", "y", "y2">>
      out == SubSeq(<<"z", "z2">>, 1, Len(c.to))
  IN  Code(of,
        << Line(<<"m", "a", "b">>, "AndMasks", NoPar, of),
           LetBy("e", "BatchOpen", 1, <<"a">>), LetBy("f", "BatchOpen", 1, <<"b">>),
           Check("e", 1), Check("f", 1),
           Line(out, "AndShare", NoPar, <<"m", "e", "f">>) >>,
        out)

(* The carry out of the sum of two values of n bits, half as many bits at  *)
(* every level.                                                            *)
carry_out(n) ==
  LET Halve(k) ==
        << Line(<<"Pl", "Ph">>, "bit_split", [k |-> k], <<"P">>),
           Line(<<"Gl", "Gh">>, "bit_split", [k |-> k], <<"G">>),
           Line(<<"P", "G">>, "AndBB", NoPar, <<"Pl", "Gl", "Ph", "Ph">>),
           Let("G", "XorBB", <<"G", "Gh">>) >>
      Level(s, i) ==
        IF s.k = 1 THEN s
        ELSE LET k == s.k + (s.k % 2)
             IN  [lines |-> s.lines \o ShiftUneven(s.k) \o Halve(k), k |-> k \div 2]
  IN  Code(<<"x", "y">>,
        << Let("P", "XorBB", <<"x", "y">>), Let("G", "AndBB", <<"x", "y">>) >>
        \o (IF n = 1 THEN MaskBits("G", "G", 1)
            ELSE FoldLeft(Level, [lines |-> <<>>, k |-> n], [i \in 1 .. Log2Ceil(n) |-> i]).lines),
        <<"G">>)

SwitchTo(to, x, n) == Line(<<to>>, "Switch", [nbits |-> n], <<x>>)
PlusBits(to, x, y, n, public) ==
  Line(<<to>>, "ppa_kogge_stone", [k |-> n, public |-> public], <<x, y>>)
AddBB(n) ==
  Code(<<"x", "y">>,
    << SwitchTo("x", "x", n), SwitchTo("y", "y", n), PlusBits("z", "x", "y", n, FALSE) >>, <<"z">>)
AddBP(n) ==
  Code(<<"x", "y">>, << SwitchTo("x", "x", n), PlusBits("z", "x", "y", n, TRUE) >>, <<"z">>)
Not(to, x) == Let(to, "NotB", <<x>>)
BitLEBB(n) ==
  Code(<<"x", "y">>,
    << SwitchTo("x", "x", n), SwitchTo("y", "y", n), Not("y", "y"),
       Line(<<"c">>, "carry_out", [n |-> n], <<"x", "y">>), Not("c", "c") >>,
    <<"c">>)
BitLTBB(n) ==
  LET LE(to, x, y) == Line(<<to>>, "BitLEBB", [nbits |-> n], <<x, y>>)
  IN  Code(<<"x", "y">>,
        << LE("le", "x", "y"), LE("ge", "y", "x"), Let("neq", "AndBB", <<"le", "ge">>),
           Not("neq", "neq"), Let("lt", "AndBB", <<"neq", "le">>) >>,
        <<"lt">>)

(* Every bit of x is opened under a random bit, which is known both ways.  *)
B2A ==
  Code(<<"x">>,
    << Line(<<"one">>, "Regroup", [nbits |-> 1], <<"x">>),
       Line(<<"r">>, "RandBits", [per |-> 1], <<"one">>), Let("br", "A2Bit", <<"r">>),
       PlusBits("bc", "one", "br", 1, FALSE), SwitchTo("bc", "bc", 1) >>
    \o Checked("c", "bc", 1)
    \o << Let("z", "BitsToA", <<"c", "r", "x">>) >>,
    <<"z">>)

PublicBits(to, public, c, bits) ==
  << LetBy(public, "ToPublic", bits, <<c>>), Let(to, "P2B", <<public>>) >>
A2B ==
  Code(<<"x">>,
    << Line(<<"r">>, "RandBits", [per |-> K], <<"x">>), Let("br", "A2Bit", <<"r">>),
       Line(<<"br">>, "Regroup", [nbits |-> K], <<"br">>), Let("ar", "B2A", <<"br">>),
       Macs("a", "x"), Let("d", "Less", <<"a", "ar">>) >>
    \o Checked("c", "d", K) \o PublicBits("bc", "cp", "c", K)
    \o << Line(<<"z">>, "AddBB", [nbits |-> K], <<"br", "bc">>) >>,
    <<"z">>)
MSB ==
  LET r == [i \in 1 .. K |-> "r" \o ToString(i)]
      bit(i) == "bit" \o ToString(i)
      low == 1 .. K - 1
      RandBit(to) == Line(<<to>>, "RandBits", [per |-> 1], <<"x">>)
  IN  Code(<<"x">>,
        << Macs("a", "x") >> \o Checked("o", "a", K)
        \o [i \in 1 .. K |-> RandBit(r[i])]
        \o << Let("m", "MsbMask", <<"a">> \o r) >> \o Checked("c", "m", K)
        \o [i \in low |-> Let(bit(i), "A2Bit", <<r[i]>>)]
        \o << Let("br", "JoinBits", [i \in low |-> bit(i)]) >>
        \o PublicBits("bc", "cp", "c", K - 1)
        \o << Line(<<"u">>, "BitLEBB", [nbits |-> K - 1], <<"br", "bc">>), Not("u", "u"),
              SwitchTo("u", "u", 1), Let("au", "B2A", <<"u">>),
              Let("d", "MsbRest", <<"a", "cp", "au">> \o Front(r)), RandBit("bit"),
              Let("h", "MsbHide", <<"d", "bit">>) >>
        \o Checked("e", "h", K)
        \o << Let("z", "MsbShare", <<"e", "bit">>) >>,
        <<"z">>)

Expand(c) ==
  CASE c.op = "RandA" -> RandA(c.par)
    [] c.op = "A2P" -> A2P
    [] c.op = "A2V" -> A2V(c.par)
    [] c.op = "V2A" -> V2A(c.par)
    [] c.op \in {"NegateA", "AddAP", "MulAP", "LShiftA", "MatMulAP"} -> OneMac(c)
    [] c.op = "AddAA" -> AddOfMacs
    [] c.op = "MulAA" -> MulAA
    [] c.op = "TruncA" -> TruncA(c.par)
    [] c.op = "B2P" -> B2P
    [] c.op = "AndBB" -> AndBB(c)
    [] c.op = "AddBB" -> AddBB(c.par.nbits)
    [] c.op = "AddBP" -> AddBP(c.par.nbits)
    [] c.op = "BitLEBB" -> BitLEBB(c.par.nbits)
    [] c.op = "BitLTBB" -> BitLTBB(c.par.nbits)
    [] c.op = "carry_out" -> carry_out(c.par.n)
    [] c.op = "A2B" -> A2B
    [] c.op = "B2A" -> B2A
    [] c.op = "MsbA2B" -> MSB
    [] OTHER -> Circuit(c)
=============================================================================
