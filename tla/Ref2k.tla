------------------------------- MODULE Ref2k -------------------------------
(***************************************************************************)
(* The protocol ref2k, whose secrets are no secrets: every party has them  *)
(* (mpc/ref2k/ref2k.cc).  Its other values are those of Plain.  A kernel   *)
(* has the name it is bound to.                                            *)
(***************************************************************************)
EXTENDS Parties

Ref2kSecrTy(x) == [type |-> "S", s |-> <<x>>]

(* Ref2kIo: an input is the same at every party.                           *)
toShares(p, v) == IF v.type = "P" THEN Pub(v.x) ELSE Ref2kSecrTy(v.x)

Secretly(p, op, z) == Local(p, op, Ref2kSecrTy(z))
Either(p, ss, sp, z) == Secretly(p, ss, z) \/ Secretly(p, sp, z)

P2S(p) == Secretly(p, "p2s", Left(p, 1))
S2P(p) == Local(p, "s2p", Pub(Left(p, 1)))
S2V(p) == For(p, "s2v")
V2S(p) == Broadcast(p, "v2s", Ref2kSecrTy)
RandS(p) ==
  LET x == Shape(Par(p).numel)
  IN  Alone(p, "rand_s", Publ(Blocks(x, K)),
            Ref2kSecrTy(ring_rshift(FillPubl(p, 0, x, K), 2)))

NegateS(p) == Secretly(p, "negate_s", ring_neg(Left(p, 1)))
Add(p) == Either(p, "add_ss", "add_sp", Left(p, 1) ++ Left(p, 2))
Mul(p) == Either(p, "mul_ss", "mul_sp", Left(p, 1) ** Left(p, 2))
MatMul(p) ==
  Either(p, "mmul_ss", "mmul_sp",
         ring_mmul(Left(p, 1), Left(p, 2), Par(p).m, Par(p).k, Par(p).n))
AndS(p) == Either(p, "and_ss", "and_sp", Left(p, 1) && Left(p, 2))
XorS(p) == Either(p, "xor_ss", "xor_sp", Left(p, 1) ## Left(p, 2))
LShiftS(p) == Secretly(p, "lshift_s", ring_lshift(Left(p, 1), Par(p).bits))
RShiftS(p) == Secretly(p, "rshift_s", ring_rshift(Left(p, 1), Par(p).bits))
ARShiftS(p) == Secretly(p, "arshift_s", ring_arshift(Left(p, 1), Par(p).bits))
BitrevS(p) ==
  Secretly(p, "bitrev_s", ring_bitrev(Left(p, 1), Par(p).start, Par(p).end))
MsbS(p) == Secretly(p, "msb_s", ring_rshift(Left(p, 1), K - 1))

(* To the nearest: the highest bit that is cut off is added.               *)
TruncS(p) ==
  LET cut(bits) == ring_arshift(Left(p, 1), bits)
  IN  Secretly(p, "trunc_s",
        cut(Par(p).bits) ++ (cut(Par(p).bits - 1) && Fill(Left(p, 1), 1)))

Kernel(p) ==
  \/ P2S(p) \/ S2P(p) \/ S2V(p) \/ V2S(p) \/ RandS(p) \/ NegateS(p) \/ Add(p)
  \/ Mul(p) \/ MatMul(p) \/ AndS(p) \/ XorS(p) \/ LShiftS(p) \/ RShiftS(p)
  \/ ARShiftS(p) \/ BitrevS(p) \/ MsbS(p) \/ TruncS(p)
=============================================================================
