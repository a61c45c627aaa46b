--------------------------- MODULE AdditiveShares ---------------------------
(***************************************************************************)
(* Secrets that are the sum, or the exclusive or, of one share of each     *)
(* party, and the kernels that every party computes on its own share or    *)
(* with one exchange.  The protocols semi2k and securenn have these line   *)
(* by line alike (mpc/semi2k and mpc/securenn, arithmetic.cc, boolean.cc). *)
(***************************************************************************)
EXTENDS Parties, Circuits

IfFirst(p, x, y) == IF p = 0 THEN x ELSE y
Mine(p, i) == Arg(p, i).s[1]
nbits(p, i) == Arg(p, i).nbits
BShr(n, x) == BShrIn(K, n, <<x>>)
Width(n) == calcBShareBacktype(n)         \* getBacktype, getTruncField
Least(m, n) == Min({m, n})
Most(m, n) == Max({m, n})

(* A share of zero: the word in common with the party before less that     *)
(* with the party after.                                                   *)
ZeroA(p, before, x) == FillSelf(p, before, x, K) -- FillNext(p, before, x, K)
ZeroB(p, before, x) == FillSelf(p, before, x, K) ## FillNext(p, before, x, K)

-----------------------------------------------------------------------------
(* arithmetic.cc                                                           *)
RandA(p) ==
  LET x == [i \in 1 .. Par(p).numel |-> 0]
  IN  Alone(p, "RandA", Own(Blocks(x, K)),
            AShr(<<ring_rshift(FillPriv(p, 0, x, K), 2)>>))

A2P(p) ==
  AllReduce(p, "A2P", "a2p", NoDraw, Mine(p, 1), Nothing, Plus,
            LAMBDA k, x : <<Pub(x)>>)

A2V(p) ==
  LET owner == Par(p).owner
  IN  Gather(p, "A2V", "a2v", owner, Mine(p, 1),
             LAMBDA x : Priv(owner, IF p = owner THEN <<x>> ELSE <<>>))

NegateA(p) == Local(p, "NegateA", AShr(<<ring_neg(Mine(p, 1))>>))
AddAP(p) ==
  Local(p, "AddAP", AShr(<<IfFirst(p, Mine(p, 1) ++ Mine(p, 2), Mine(p, 1))>>))
AddAA(p) == Local(p, "AddAA", AShr(<<Mine(p, 1) ++ Mine(p, 2)>>))
MulAP(p) == Local(p, "MulAP", AShr(<<Mine(p, 1) ** Mine(p, 2)>>))
LShiftA(p) ==
  Local(p, "LShiftA", AShr(<<ring_lshift(Mine(p, 1), Par(p).bits)>>))
Mmul(p, x, y) == ring_mmul(x, y, Par(p).m, Par(p).k, Par(p).n)
(* What a triple is of: arrays, or matrices.                              *)
Times(p, x, y) == IF "k" \in DOMAIN Par(p) THEN Mmul(p, x, y) ELSE x ** y
MatMulAP(p) == Local(p, "MatMulAP", AShr(<<Mmul(p, Mine(p, 1), Mine(p, 2))>>))

(* TruncAPr: 2^(K-2) more makes the secret positive; what is left of it    *)
(* after the opening of c = x + r, with shares rc and rb of the truncated  *)
(* mask and its highest bit.                                               *)
Lifted(p, x) == IfFirst(p, x ++ Fill(x, Pow2[K - 2]), x)
TruncPrShare(p, c, rc, rb, bits) ==
  LET top == ring_rshift(c, K - 1)
      b == (rb ++ IfFirst(p, top, Fill(c, 0))) -- Fill(c, 2) ** top ** rb
      y == ring_lshift(b, K - 1 - bits) -- rc
  IN  IfFirst(p, (ring_rshift(ring_lshift(c, 1), bits + 1) ++ y)
                   -- Fill(c, Pow2[K - 2 - bits]), y)

-----------------------------------------------------------------------------
(* boolean.cc and conversion.cc                                            *)
RandB(p) ==
  LET x == [i \in 1 .. Par(p).numel |-> 0]
  IN  Alone(p, "RandB", Own(Blocks(x, K)),
            BShr(1, ring_cast_boolean(FillPriv(p, 0, x, K))))

B2P(p) ==
  AllReduce(p, "B2P", "b2p", NoDraw, Mine(p, 1), Nothing, XorAll,
            LAMBDA k, x : <<Pub(x)>>)
P2B(p) ==
  LET x == Mine(p, 1)
      zero == ZeroB(p, 0, x)
  IN  Alone(p, "P2B", Both(Blocks(x, K)),
            BShr(maxBitWidth(x), IfFirst(p, zero ## x, zero)))

AndBP(p) ==
  LET y == Mine(p, 2)
  IN  Local(p, "AndBP", BShr(Least(nbits(p, 1), maxBitWidth(y)), Mine(p, 1) && y))
XorBP(p) ==
  LET y == Mine(p, 2)
  IN  Local(p, "XorBP", BShr(Most(nbits(p, 1), maxBitWidth(y)),
                             IfFirst(p, Mine(p, 1) ## y, Mine(p, 1))))
XorBB(p) ==
  Local(p, "XorBB", BShr(Most(nbits(p, 1), nbits(p, 2)), Mine(p, 1) ## Mine(p, 2)))
LShiftB(p) ==
  Local(p, "LShiftB", BShr(Least(nbits(p, 1) + Par(p).bits, K),
                           ring_lshift(Mine(p, 1), Par(p).bits)))
RShiftB(p) ==
  Local(p, "RShiftB", BShr(nbits(p, 1) - Least(nbits(p, 1), Par(p).bits),
                           ring_rshift(Mine(p, 1), Par(p).bits)))
ARShiftB(p) ==
  Local(p, "ARShiftB", BShr(K, ring_arshift(Mine(p, 1), Par(p).bits)))
BitrevB(p) ==
  Local(p, "BitrevB", BShr(Most(nbits(p, 1), Par(p).end),
                           ring_bitrev(Mine(p, 1), Par(p).start, Par(p).end)))
BitIntlB(p) ==
  Local(p, "BitIntlB", BShr(nbits(p, 1),
                            BitIntl(Mine(p, 1), Par(p).stride, nbits(p, 1))))
BitDeintlB(p) ==
  Local(p, "BitDeintlB", BShr(nbits(p, 1),
                              BitDeintl(Mine(p, 1), Par(p).stride, nbits(p, 1))))
CastTypeB(p) == Local(p, "CastTypeB", BShr(Par(p).nbits, Mine(p, 1)))

(* Every party's arithmetic share as a Boolean secret of all.              *)
A2BSummands(p) ==
  LET x == Mine(p, 1)
      n == Blocks(x, K)
      zero(i) == ZeroB(p, i * n, x)
  IN  /\ Turn(p, "A2BSummands", 0)
      /\ Return(p, Both(job.world * n), Nothing, Nothing,
                [i \in 1 .. job.world |->
                   BShr(K, IF p = i - 1 THEN zero(i - 1) ## x ELSE zero(i - 1))])

(* B2A_Randbit: x under n random bits of each element, of which everyone   *)
(* has arithmetic shares; the shares of its bits once c = x ^ r is open.   *)
BitMasked(x, bits, n) ==
  LET mask == [i \in DOMAIN x |-> MapThenSumSet(
                 LAMBDA j : (bits[(i - 1) * n + j + 1] % 2) * Pow2[j], 0 .. n - 1)]
  IN  Cast(x ## mask, Width(n))
BitShares(p, c, bits, n) ==
  [j \in 0 .. n - 1 |-> [i \in DOMAIN c |->
     LET ci == Bit(c[i], j)
     IN  (IfFirst(p, ci, 0) + (1 - 2 * ci) * bits[(i - 1) * n + j + 1]) % Pow2[K]]]
Assemble(b) ==
  FoldSet(LAMBDA j, x : x ++ ring_lshift(b[j], j), Fill(b[0], 0), DOMAIN b)

(* vreduce: the first half of the summands with the second, two parties or *)
(* three here.                                                             *)
A2B(world) ==
  Code(<<"x">>,
    IF world = 2
    THEN << Line(<<"a", "b">>, "A2BSummands", NoPar, <<"x">>), AddBits("r", <<"a", "b">>) >>
    ELSE << Line(<<"a", "b", "c">>, "A2BSummands", NoPar, <<"x">>),
            AddBits("r", <<"a", "b">>), AddBits("r", <<"r", "c">>) >>,
    <<"r">>)

OnShares(p) ==
  \/ RandA(p) \/ A2P(p) \/ A2V(p) \/ NegateA(p) \/ AddAP(p) \/ AddAA(p)
  \/ MulAP(p) \/ LShiftA(p) \/ MatMulAP(p)
  \/ RandB(p) \/ B2P(p) \/ P2B(p) \/ AndBP(p) \/ XorBP(p) \/ XorBB(p)
  \/ LShiftB(p) \/ RShiftB(p) \/ ARShiftB(p) \/ BitrevB(p) \/ BitIntlB(p)
  \/ BitDeintlB(p) \/ CastTypeB(p) \/ A2BSummands(p)
=============================================================================
