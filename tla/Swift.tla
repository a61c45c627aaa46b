-------------------------------- MODULE Swift --------------------------------
(***************************************************************************)
(* The kernels of the protocol swift, mpc/experimental/swift, for three    *)
(* parties.  A secret is beta - alpha1 - alpha2 (beta, alpha1 and alpha2   *)
(* xored), hidden from who has the alphas by gamma:                        *)
(*    P0   alpha1  alpha2  beta + gamma                                    *)
(*    P1   alpha1  beta    gamma                                           *)
(*    P2   alpha2  beta    gamma                                           *)
(* What two parties know the third gets from both, who compares the two    *)
(* (JointMessagePassing).  A product is one of a triple made beforehand    *)
(* with replicated shares (rss), which is checked before it is used.  A    *)
(* kernel that communicates is the sequence of the calls it makes.         *)
(***************************************************************************)
EXTENDS Parties, Circuits

Third(p, i) == Arg(p, i).s[3]     \* getThirdShare
nbits(p, i) == Arg(p, i).nbits
BShr(n, s) == BShrIn(K, n, s)
Zeros(n) == [i \in 1 .. n |-> 0]

(* What a party has between two calls of a kernel: words of its own, zeros *)
(* where it has none, replicated shares, and what all have opened.         *)
Loc(x) == [type |-> "local", s |-> <<x>>]
Rss(x, y) == [type |-> "rss", s |-> <<x, y>>]
Opened(x) == [type |-> "Opened", s |-> <<x>>]
Has(p, ranks, x) == IF p \in ranks THEN x ELSE Fill(x, 0)

(* SwiftIo::toShares, fromShares; what the parties' shares have in common. *)
toShares(p, seed, v) ==
  LET r(i) == Words(seed, i, v.x, K)
      beta == v.x ++ r(0) ++ r(1)
  IN  CASE v.type = "P" -> Pub(v.x)
        [] v.type = "V" -> Priv(v.owner, IF p = v.owner THEN <<v.x>> ELSE <<>>)
        [] v.type = "A" -> AShr(CASE p = 0 -> <<r(0), r(1), beta ++ r(2)>>
                                  [] p = 1 -> <<r(0), beta, r(2)>>
                                  [] p = 2 -> <<r(1), beta, r(2)>>)
fromShares(s0, s1) ==
  IF s0.type = "A" THEN s1.s[2] -- s0.s[1] -- s0.s[2]
  ELSE s1.s[2] ## s0.s[1] ## s0.s[2]
Agreed(r0, r1, r2, hidden) ==
  LET plus(x, y) == IF r0.type = "A" THEN x ++ y ELSE x ## y
  IN  r0.type \in {"A", "B"} =>
        /\ r0.s[1] = r1.s[1] /\ r0.s[2] = r2.s[1] /\ r1.s[2] = r2.s[2]
        /\ hidden => r1.s[3] = r2.s[3] /\ r0.s[3] = plus(r1.s[2], r1.s[3])

-----------------------------------------------------------------------------
(* JointMessagePassing: send and hash give recv what both have, the second *)
(* its hash if that is shorter.  recv tells both whether the two differ,   *)
(* they tell each other; if so, all give each other what they have, to log *)
(* who was wrong, and go on with what send sent.                           *)
Jmp(x, send, hash, recv, tag) ==
  Line(<<x>>, "Jmp", [send |-> send, hash |-> hash, recv |-> recv, tag |-> tag], <<x>>)

(* A party's part ends: it has the word x, or all gather everyone's.       *)
Gathered(p) == Par(p).tag \o ":ALLGATHER"
JmpEnd(p, differ, waits, sends, x) ==
  LET Told(q) == IF q \in DOMAIN sends THEN sends[q] ELSE <<>>
  IN  \/ ~differ /\ Return(p, NoDraw, waits, sends, <<Loc(x)>>)
      \/ /\ differ
         /\ Pass(p, NoDraw, waits,
                 [q \in Others(p) |-> Told(q) \o <<Msg(Gathered(p), x)>>], x)
JmpSend(p) ==
  /\ Turn(p, "Jmp", 0) /\ p # Par(p).recv
  /\ Pass(p, NoDraw, Nothing, To(Par(p).recv, <<Msg(Par(p).tag, Left(p, 1))>>), Nothing)
JmpCompare(p) ==
  LET send == Par(p).send
      hash == Par(p).hash
      one == <<Par(p).tag>>
      differ == Took(p, send, 1) # Took(p, hash, 1)
  IN  /\ Turn(p, "Jmp", 0) /\ p = Par(p).recv /\ Arrived(p, FromAll(p, one))
      /\ JmpEnd(p, differ, FromAll(p, one), ToAll(p, <<Msg(Par(p).tag, differ)>>),
                Took(p, send, 1))
JmpTold(p) ==
  LET recv == Par(p).recv
      one == <<Par(p).tag>>
      differ == Took(p, recv, 1) \/ Took(p, Par(p).hash, 1)
  IN  \/ /\ Turn(p, "Jmp", 1) /\ p = Par(p).send /\ Arrived(p, FromAll(p, one))
         /\ JmpEnd(p, differ, FromAll(p, one),
                   To(Par(p).hash, <<Msg(Par(p).tag, Took(p, recv, 1))>>), Left(p, 1))
      \/ /\ Turn(p, "Jmp", 1) /\ p = Par(p).hash /\ Arrived(p, From(recv, one))
         /\ Pass(p, NoDraw, From(recv, one),
                 To(Par(p).send, <<Msg(Par(p).tag, Took(p, recv, 1))>>), Took(p, recv, 1))
JmpExchanged(p) ==
  LET send == Par(p).send
      one == <<Par(p).tag>>
  IN  /\ Turn(p, "Jmp", 2) /\ p = Par(p).hash /\ Arrived(p, From(send, one))
      /\ JmpEnd(p, kept[p] \/ Took(p, send, 1), From(send, one), Nothing, Left(p, 1))
JmpGather(p) ==
  LET n == CASE p = Par(p).recv -> 1 [] p = Par(p).send -> 2 [] p = Par(p).hash -> 3
  IN  /\ Calls(p, "Jmp") /\ turn[p] = n
      /\ Return(p, NoDraw, FromAll(p, <<Gathered(p)>>), Nothing, <<Loc(kept[p])>>)

JointMessagePassing(p) ==
  \/ JmpSend(p) \/ JmpCompare(p) \/ JmpTold(p) \/ JmpExchanged(p) \/ JmpGather(p)

-----------------------------------------------------------------------------
(* Sharing, of what owner has, and RandA: from the streams in common.      *)
Alphas(p, first, second) ==
  [alpha1 |-> IF p = 0 THEN second ELSE Has(p, {1}, first),
   alpha2 |-> IF p = 0 THEN first ELSE Has(p, {2}, second),
   gamma |-> IF p = 1 THEN second ELSE Has(p, {2}, first)]
Masks(a) == [type |-> "local", s |-> <<a.alpha1, a.alpha2, a.gamma>>]
SharingDraw(p) ==
  LET owner == Par(p).owner
      x == Zeros(Par(p).numel)
      publ == FillPubl(p, 0, x, K)
      a == Alphas(p, FillSelf(p, 0, x, K), FillNext(p, 0, x, K))
      of == CASE owner = 0 -> "gamma" [] owner = 1 -> "alpha2" [] owner = 2 -> "alpha1"
  IN  Alone(p, "SharingDraw", Both(Blocks(x, K)) \uplus Publ(Blocks(x, K)),
            Masks([a EXCEPT ![of] = publ]))
SharingBeta(p) ==
  LET from == Par(p).owner
      to == Par(p).to
      beta == Left(p, 2) ++ Left(p, 1) ++ Right(p, 1)
  IN  /\ Turn(p, "SharingBeta", 0)
      /\ \/ /\ p = from
            /\ Return(p, NoDraw, Nothing, To(to, <<Msg(Par(p).tag, beta)>>), <<Loc(beta)>>)
         \/ /\ p = to /\ Arrived(p, From(from, <<Par(p).tag>>))
            /\ Return(p, NoDraw, From(from, <<Par(p).tag>>), Nothing, <<Loc(Took(p, from, 1))>>)
         \/ p \notin {from, to} /\ Return(p, NoDraw, Nothing, Nothing, <<Loc(Fill(Left(p, 1), 0))>>)
SharingSum(p) == Local(p, "SharingSum", Loc(Left(p, 2) ++ Third(p, 1)))
SharingJoin(p) ==
  Local(p, "SharingJoin", AShr(
    CASE p = 0 -> <<Left(p, 1), Right(p, 1), Left(p, 3)>>
      [] p = 1 -> <<Left(p, 1), Left(p, 2), Third(p, 1)>>
      [] p = 2 -> <<Right(p, 1), Left(p, 2), Third(p, 1)>>))

(* The gamma of P2 is the word of another stream than that of P1.          *)
RandDraw(p) ==
  LET x == Zeros(Par(p).numel)
      b == Blocks(x, K)
      a == Alphas(p, FillSelf(p, 0, x, K), FillNext(p, 0, x, K))
      beta == IF p = 1 THEN FillNext(p, 0, x, K) ELSE Has(p, {2}, FillSelf(p, 0, x, K))
      gamma == Has(p, {1, 2}, FillNext(p, b, x, K))
  IN  /\ Turn(p, "RandDraw", 0)
      /\ Return(p, Both(2 * b), Nothing, Nothing,
                << Masks([a EXCEPT !.gamma = gamma]), Loc(beta) >>)

(* JointSharing: what two parties have, under a public word.               *)
JointSharing(p) ==
  LET v == Left(p, 1)
      r == FillPubl(p, 0, v, K)
      zero == Fill(v, 0)
      s == CASE Par(p).by = {1, 2} -> IF p = 0 THEN <<zero, zero, r>> ELSE <<zero, v, r -- v>>
             [] Par(p).by = {0, 1} -> <<IF p = 2 THEN zero ELSE ring_neg(v), zero, r>>
             [] Par(p).by = {0, 2} -> << IF p = 2 THEN ring_neg(v) ELSE zero,
                                         IF p = 0 THEN ring_neg(v) ELSE zero, r >>
  IN  Alone(p, "JointSharing", Publ(Blocks(v, K)), AShr(s))

-----------------------------------------------------------------------------
(* arithmetic.cc and boolean.cc: kernels without messages.                 *)
PubAt(p, x) == IF p = 0 THEN <<Fill(x, 0), Fill(x, 0), x>> ELSE <<Fill(x, 0), x, Fill(x, 0)>>
Parts(p, F(_, _)) == [h \in 1 .. 3 |-> F(Arg(p, 1).s[h], h)]
Least(p) == Min({nbits(p, 1), nbits(p, 2)})
Most(p) == Max({nbits(p, 1), nbits(p, 2)})
PubBits(p) == maxBitWidth(Left(p, 2))

P2A(p) == Local(p, "P2A", AShr(PubAt(p, Left(p, 1))))
NegateA(p) == Local(p, "NegateA", AShr(Parts(p, LAMBDA x, h : ring_neg(x))))
AddAP(p) ==
  LET y == PubAt(p, Left(p, 2))
  IN  Local(p, "AddAP", AShr(Parts(p, LAMBDA x, h : x ++ y[h])))
AddAA(p) == Local(p, "AddAA", AShr(Parts(p, LAMBDA x, h : x ++ Arg(p, 2).s[h])))
MulAP(p) == Local(p, "MulAP", AShr(Parts(p, LAMBDA x, h : x ** Left(p, 2))))
LShiftA(p) ==
  Local(p, "LShiftA", AShr(Parts(p, LAMBDA x, h : ring_lshift(x, Par(p).bits))))
MatMulAP(p) ==
  Local(p, "MatMulAP", AShr(Parts(p, LAMBDA x, h :
    ring_mmul(x, Left(p, 2), Par(p).m, Par(p).k, Par(p).n))))

P2B(p) ==
  Local(p, "P2B", BShr(maxBitWidth(Left(p, 1)), PubAt(p, Left(p, 1))))
XorBP(p) ==
  LET y == PubAt(p, Left(p, 2))
  IN  Local(p, "XorBP", BShr(Max({nbits(p, 1), PubBits(p)}), Parts(p, LAMBDA x, h : x ## y[h])))
XorBB(p) == Local(p, "XorBB", BShr(Most(p), Parts(p, LAMBDA x, h : x ## Arg(p, 2).s[h])))
AndBP(p) ==
  Local(p, "AndBP", BShr(Min({nbits(p, 1), PubBits(p)}), Parts(p, LAMBDA x, h : x && Left(p, 2))))
LShiftB(p) ==
  Local(p, "LShiftB", BShr(Min({nbits(p, 1) + Par(p).bits, K}),
                           Parts(p, LAMBDA x, h : ring_lshift(x, Par(p).bits))))
RShiftB(p) ==
  Local(p, "RShiftB", BShr(nbits(p, 1) - Min({nbits(p, 1), Par(p).bits}),
                           Parts(p, LAMBDA x, h : ring_rshift(x, Par(p).bits))))
ARShiftB(p) ==
  Local(p, "ARShiftB", BShr(K, Parts(p, LAMBDA x, h : ring_arshift(x, Par(p).bits))))
BitrevB(p) ==
  Local(p, "BitrevB", BShr(Max({nbits(p, 1), Par(p).end}),
                           Parts(p, LAMBDA x, h : ring_bitrev(x, Par(p).start, Par(p).end))))
BitIntlB(p) ==
  Local(p, "BitIntlB", BShr(nbits(p, 1),
    Parts(p, LAMBDA x, h : BitIntl(x, Par(p).stride, nbits(p, 1)))))
BitDeintlB(p) ==
  Local(p, "BitDeintlB", BShr(nbits(p, 1),
    Parts(p, LAMBDA x, h : BitDeintl(x, Par(p).stride, nbits(p, 1)))))
CastTypeB(p) == Local(p, "CastTypeB", [Arg(p, 1) EXCEPT !.nbits = Par(p).nbits])

(* A2P, B2P and A2V, from the three pieces of a secret.                    *)
Shown(p, type) ==
  IF type = "A" THEN Left(p, 1) -- Left(p, 2) -- Left(p, 3)
  ELSE Left(p, 1) ## Left(p, 2) ## Left(p, 3)
Show(p) == Local(p, "Show", Pub(Shown(p, Par(p).type)))
ShowTo(p) ==
  Local(p, "ShowTo",
        Priv(Par(p).owner, IF p = Par(p).owner THEN <<Shown(p, "A")>> ELSE <<>>))
Held(p) ==
  LET x == Arg(p, 1)
  IN  /\ Turn(p, "Held", 0)
      /\ Return(p, NoDraw, Nothing, Nothing,
                << Loc(Has(p, {1, 2}, x.s[2])), Loc(Has(p, {0, 1}, x.s[1])),
                   Loc(IF p = 0 THEN x.s[2] ELSE Has(p, {2}, x.s[1])) >>)

Alones(p) ==
  \/ SharingDraw(p) \/ SharingSum(p) \/ SharingJoin(p) \/ RandDraw(p) \/ JointSharing(p)
  \/ P2A(p) \/ NegateA(p) \/ AddAP(p) \/ AddAA(p) \/ MulAP(p) \/ LShiftA(p) \/ MatMulAP(p)
  \/ P2B(p) \/ XorBP(p) \/ XorBB(p) \/ AndBP(p) \/ LShiftB(p) \/ RShiftB(p) \/ ARShiftB(p)
  \/ BitrevB(p) \/ BitIntlB(p) \/ BitDeintlB(p) \/ CastTypeB(p) \/ Show(p) \/ ShowTo(p)
  \/ Held(p)

-----------------------------------------------------------------------------
(* The products: of elements, bit by bit, of matrices, of vectors of n     *)
(* elements each; sums and differences to go with them; all of w bits.     *)
Each == [of |-> "each", tags |-> <<"mul: a * b", "mul: a_ * b">>]
ByBits == [of |-> "and", tags |-> <<"and: a & b">>]
OfMatrices(par) == [of |-> "matrix", m |-> par.m, k |-> par.k, n |-> par.n,
                    tags |-> <<"matmul: a * b", "matmul: a_ * b">>]
OfVectors(n) == [of |-> "dot", n |-> n, tags |-> <<"dot product a.b", "dot product a.b">>]

Times(kind, w, x, y) ==
  CASE kind.of = "each" -> [i \in DOMAIN x |-> (x[i] * y[i]) % Pow2[w]]
    [] kind.of = "and" -> x && y
    [] kind.of = "matrix" -> Matrix(x, y, kind.m, kind.k, kind.n, w)
    [] kind.of = "dot" -> [v \in 1 .. Len(x) \div kind.n |->
         MapThenSumSet(LAMBDA j : x[(v - 1) * kind.n + j] * y[(v - 1) * kind.n + j],
                       1 .. kind.n) % Pow2[w]]
Sum2(kind, w, x, y) ==
  IF kind.of = "and" THEN x ## y ELSE [i \in DOMAIN x |-> (x[i] + y[i]) % Pow2[w]]
Diff(kind, w, x, y) ==
  IF kind.of = "and" THEN x ## y ELSE [i \in DOMAIN x |-> (x[i] - y[i]) % Pow2[w]]
Size(kind, x) ==
  CASE kind.of \in {"each", "and"} -> Len(x)
    [] kind.of = "matrix" -> kind.m * kind.n
    [] kind.of = "dot" -> Len(x) \div kind.n
Kind(p) == Par(p).kind

(* What is opened is added by the two who have the second share.           *)
AddOpened(p, kind, w, s, x) ==
  << IF p = 1 THEN Sum2(kind, w, s[1], x) ELSE s[1],
     IF p = 0 THEN Sum2(kind, w, s[2], x) ELSE s[2] >>
RssOf(s) == Rss(s[1], s[2])

(* RandA_RSS and RandB_RSS, one for each argument and in its shape; of the *)
(* triples for a product bit by bit, three for each bit and three more.    *)
BUCKET_SIZE == 3
OPEN_SIZE == 3
RssRand(p) ==
  LET w == Par(p).w
      n(i) == IF Kind(p).of = "and" THEN Len(Left(p, i)) * BUCKET_SIZE + OPEN_SIZE
              ELSE Len(Left(p, i))
      before(i) == MapThenSumSet(LAMBDA j : Blocks(Zeros(n(j)), w), 1 .. i - 1)
  IN  /\ Turn(p, "RssRand", 0)
      /\ Return(p, Both(before(Len(Call(p).args) + 1)), Nothing, Nothing,
           [i \in DOMAIN Call(p).args |->
              Rss(FillSelf(p, before(i), Zeros(n(i)), w),
                  FillNext(p, before(i), Zeros(n(i)), w))])

(* RssMul_semi, RssAnd_semi, MatRssMul_semi and DotProductRSS_semi.        *)
RssMul(p) ==
  LET w == Par(p).w
      kind == Kind(p)
      T(x, y) == Times(kind, w, x, y)
      zero == Zeros(Size(kind, Left(p, 1)))
      mask == Diff(kind, w, FillSelf(p, 0, zero, w), FillNext(p, 0, zero, w))
      all == << T(Left(p, 1), Right(p, 2)), T(Right(p, 1), Left(p, 2)), mask >>
  IN  Rotate(p, "RssMul", Par(p).tag, Both(Blocks(zero, w)),
        FoldLeft(LAMBDA x, y : Sum2(kind, w, x, y), T(Left(p, 1), Left(p, 2)), all), Rss)

(* RSS_A2P and RSS_B2P.                                                    *)
RssOpen(p) ==
  LET plus(x, y) == Sum2(Kind(p), Par(p).w, x, y)
  IN  Rotate(p, "RssOpen", Par(p).tag, NoDraw, Right(p, 1),
             LAMBDA z, next : Opened(plus(plus(Left(p, 1), z), next)))

(* Everyone has opened the same, or an rss of zero: the next one's second  *)
(* share is the sum of the own two.                                        *)
RssCheck(p) ==
  LET x == Arg(p, 1)
      z == IF x.type = "rss" THEN x.s[2] ELSE x.s[1]
      expected == IF x.type = "rss" THEN x.s[1] ## x.s[2] ELSE x.s[1]
      from == From(NextRank(p), <<Par(p).tag>>)
  IN  \/ /\ Turn(p, "RssCheck", 0)
         /\ Pass(p, NoDraw, Nothing, To(PrevRank(p), <<Msg(Par(p).tag, z)>>), Nothing)
      \/ /\ Turn(p, "RssCheck", 1) /\ Arrived(p, from)
         /\ Took(p, NextRank(p), 1) = expected
         /\ Return(p, NoDraw, from, Nothing, <<>>)

(* v = r a - a_ for a public r, one for every element or one for all, and  *)
(* w = v b - r c + c_, which is zero for triples as they should be.        *)
TripleV(p) ==
  LET w == 2 * K
      each == Kind(p).of = "each"
      x == IF each THEN Left(p, 1) ELSE Zeros(1)
      r == FillPubl(p, 0, x, K)
      ra(s) == [i \in DOMAIN s |-> s[i] * (IF each THEN r[i] ELSE r[1])]
      v(h) == Diff(Kind(p), w, ra(Arg(p, 1).s[h]), Arg(p, 2).s[h])
  IN  /\ Turn(p, "TripleV", 0)
      /\ Return(p, Publ(Blocks(x, K)), Nothing, Nothing, << Rss(v(1), v(2)), Opened(r) >>)
TripleW(p) ==
  LET w == 2 * K
      r == Left(p, 3)
      rc(s) == [i \in DOMAIN s |-> s[i] * (IF Kind(p).of = "each" THEN r[i] ELSE r[1])]
      x(h) == Sum2(Kind(p), w, Arg(p, 5).s[h],
                   Diff(Kind(p), w, Times(Kind(p), w, Left(p, 1), Arg(p, 2).s[h]),
                        rc(Arg(p, 4).s[h])))
  IN  Local(p, "TripleW", Rss(x(1), x(2)))

(* x - a and y - b, for a and b of a checked triple, and x y from these:   *)
(* c + (x - a) b + a (y - b) + (x - a) (y - b).                            *)
TripleLess(p) ==
  LET less(i) == Rss(Diff(Kind(p), K, Left(p, i), Left(p, i + 2)),
                     Diff(Kind(p), K, Right(p, i), Right(p, i + 2)))
  IN  /\ Turn(p, "TripleLess", 0)
      /\ \A i \in 5 .. Len(Call(p).args) : Left(p, i) = Fill(Left(p, i), 0)
      /\ Return(p, NoDraw, Nothing, Nothing, << less(1), less(2) >>)
TripleUse(p) ==
  LET kind == Kind(p)
      T(x, y) == Times(kind, K, x, y)
      f(h) == Sum2(kind, K, Sum2(kind, K, Arg(p, 1).s[h], T(Left(p, 4), Arg(p, 2).s[h])),
                   T(Arg(p, 3).s[h], Left(p, 5)))
  IN  Local(p, "TripleUse",
            RssOf(AddOpened(p, kind, K, <<f(1), f(2)>>, T(Left(p, 4), Left(p, 5)))))

(* permute: everyone swaps each triple with a later one, as public words   *)
(* say; three are opened and the others go to buckets of three.            *)
Swapped(perm, r) ==
  FoldLeft(LAMBDA t, j :
      LET i == (r[j] % (Len(perm) - j + 1)) + j
      IN  [t EXCEPT ![j] = t[i], ![i] = t[j]],
    perm, [j \in DOMAIN perm |-> j])
permute(p) ==
  LET x == Left(p, 1)
      order == Swapped([i \in DOMAIN x |-> i], FillPubl(p, 0, x, K))
      of(i, places) == Rss([j \in DOMAIN places |-> Left(p, i)[places[j]]],
                           [j \in DOMAIN places |-> Right(p, i)[places[j]]])
      bucket(k) == [j \in 1 .. (Len(x) - OPEN_SIZE) \div BUCKET_SIZE |->
                      order[OPEN_SIZE + (j - 1) * BUCKET_SIZE + k]]
      places == << SubSeq(order, 1, OPEN_SIZE), bucket(1), bucket(2), bucket(3) >>
  IN  /\ Turn(p, "permute", 0)
      /\ order # <<>>
      /\ Return(p, Publ(Blocks(x, K)), Nothing, Nothing,
                [t \in 1 .. 12 |-> of(((t - 1) % 3) + 1, places[((t - 1) \div 3) + 1])])
verifyByOpen(p) ==
  /\ Turn(p, "verifyByOpen", 0)
  /\ Left(p, 3) = Left(p, 1) && Left(p, 2)
  /\ Return(p, NoDraw, Nothing, Nothing, <<>>)

(* verifyByOther: z + c + sigma a + rho b + sigma rho is zero.             *)
BucketRest(p) ==
  LET rho == Left(p, 5)
      sigma == Left(p, 6)
      f(h) == Arg(p, 1).s[h] ## Arg(p, 2).s[h] ## (Arg(p, 3).s[h] && sigma)
                ## (Arg(p, 4).s[h] && rho)
  IN  Local(p, "BucketRest", RssOf(AddOpened(p, ByBits, K, <<f(1), f(2)>>, rho && sigma)))

Triples(p) ==
  \/ RssRand(p) \/ RssMul(p) \/ RssOpen(p) \/ RssCheck(p) \/ TripleV(p) \/ TripleW(p)
  \/ TripleLess(p) \/ TripleUse(p) \/ permute(p) \/ verifyByOpen(p) \/ BucketRest(p)

-----------------------------------------------------------------------------
(* MulAA, AndBB, MatMulAA and DotProductAA: the alphas and gamma of the    *)
(* product; those of the operands as replicated shares.                    *)
MulMasks(p) ==
  LET x == Zeros(Size(Kind(p), Left(p, 1)))
      operand(i) == CASE p = 0 -> Rss(Right(p, i), Left(p, i))
                      [] p = 1 -> Rss(Left(p, i), Third(p, i))
                      [] p = 2 -> Rss(Third(p, i), Left(p, i))
  IN  /\ Turn(p, "MulMasks", 0)
      /\ Return(p, Both(Blocks(x, K)), Nothing, Nothing,
           << Masks(Alphas(p, FillSelf(p, 0, x, K), FillNext(p, 0, x, K))),
              operand(1), operand(2) >>)

(* beta less what P1 and P2 know of it, in two parts which P0 and P1, and  *)
(* P0 and P2 have; f is the product of the operands' masks.                *)
MulStar(p) ==
  LET kind == Kind(p)
      plus(x, y) == Sum2(kind, K, x, y)
      both(i) == IF p = 0 THEN Third(p, i) ELSE plus(Right(p, i), Third(p, i))
      cross(h) == plus(Times(kind, K, both(3), Arg(p, 4).s[h]),
                       Times(kind, K, Arg(p, 3).s[h], both(4)))
      star(h, mask, chi) == Diff(kind, K, plus(mask, chi), cross(h))
      none == Fill(Left(p, 1), 0)
  IN  /\ Turn(p, "MulStar", 0)
      /\ Return(p, NoDraw, Nothing, Nothing,
           CASE p = 0 -> << Loc(star(1, Left(p, 1), Right(p, 2))),
                            Loc(star(2, Right(p, 1), Left(p, 2))) >>
             [] p = 1 -> << Loc(star(1, Left(p, 1), Left(p, 2))), Loc(none) >>
             [] p = 2 -> << Loc(none), Loc(star(1, Right(p, 1), Right(p, 2))) >>)
MulJoin(p) ==
  LET kind == Kind(p)
      plus(x, y) == Sum2(kind, K, x, y)
      T(x, y) == Times(kind, K, x, y)
      Phi == Diff(kind, K, IF p = 1 THEN Right(p, 2) ELSE Left(p, 2), T(Third(p, 5), Third(p, 6)))
      beta == plus(plus(plus(Left(p, 3), Left(p, 4)), T(Right(p, 5), Right(p, 6))), Phi)
  IN  /\ Turn(p, "MulJoin", 0)
      /\ Return(p, NoDraw, Nothing, Nothing,
           IF p = 0 THEN << Loc(Fill(Left(p, 3), 0)), Loc(Fill(Left(p, 3), 0)) >>
           ELSE << Loc(beta), Loc(plus(beta, Third(p, 1))) >>)
MulShare(p) ==
  LET s == CASE p = 0 -> <<Left(p, 1), Right(p, 1), Left(p, 3)>>
             [] p = 1 -> <<Left(p, 1), Left(p, 2), Third(p, 1)>>
             [] p = 2 -> <<Right(p, 1), Left(p, 2), Third(p, 1)>>
  IN  Local(p, "MulShare",
            IF Kind(p).of = "and" THEN BShr(Min({nbits(p, 4), nbits(p, 5)}), s) ELSE AShr(s))

(* spu::vmap around AndBB.                                                 *)
VmapJoin(p) ==
  LET joined(first) ==
        BShr(nbits(p, first + 1), [h \in 1 .. 3 |-> Joined(p, first, h)])
  IN  /\ Turn(p, "VmapJoin", 0) /\ SameTypes(p, LAMBDA i : nbits(p, i))
      /\ Return(p, NoDraw, Nothing, Nothing, << joined(0), joined(Pairs(p)) >>)
VmapSplit(p) ==
  LET half == Len(Left(p, 1)) \div 2
      of(i) == BShr(nbits(p, 1), [h \in 1 .. 3 |->
                 SubSeq(Arg(p, 1).s[h], (i - 1) * half + 1, i * half)])
  IN  /\ Turn(p, "VmapSplit", 0)
      /\ Return(p, NoDraw, Nothing, Nothing, << of(1), of(2) >>)

Products(p) ==
  \/ MulMasks(p) \/ MulStar(p) \/ MulJoin(p) \/ MulShare(p) \/ VmapJoin(p) \/ VmapSplit(p)

-----------------------------------------------------------------------------
(* A2B: beta and the negated alphas as Boolean shares.  B2A: the bits of a *)
(* Boolean secret's beta and alphas, and the sum of those of a secret.     *)
A2BSummands(p) ==
  LET zero == Fill(Left(p, 1), 0)
      neg(h) == ring_neg(Arg(p, 1).s[h])
      v0 == IF p = 0 THEN <<zero, zero, zero>> ELSE <<zero, Right(p, 1), Right(p, 1)>>
      v1 == <<IF p = 2 THEN zero ELSE neg(1), zero, zero>>
      v2 == << IF p = 2 THEN neg(1) ELSE zero, IF p = 0 THEN neg(2) ELSE zero, zero >>
  IN  /\ Turn(p, "A2BSummands", 0)
      /\ Return(p, NoDraw, Nothing, Nothing, << BShr(K, v0), BShr(K, v1), BShr(K, v2) >>)
BitsOfEach(x, n) ==
  [f \in 1 .. Len(x) * n |-> Bit(x[((f - 1) \div n) + 1], (f - 1) % n)]
Decompose(p) ==
  LET n == Par(p).nbits
      of(i) == Loc(BitsOfEach(Left(p, i), n))
  IN  /\ Turn(p, "Decompose", 0)
      /\ Return(p, NoDraw, Nothing, Nothing, [i \in DOMAIN Call(p).args |-> of(i)])
Weighted(x, n, weight) ==
  [i \in 1 .. Len(x) \div n |->
     MapThenSumSet(LAMBDA j : x[(i - 1) * n + j] * weight[j], 1 .. n) % Pow2[K]]
Compose(p) ==
  LET n == Par(p).nbits
  IN  Local(p, "Compose", AShr(Parts(p, LAMBDA x, h :
            Weighted(x, n, [j \in 1 .. n |-> Pow2[j - 1]]))))
ZeroA(p) == Local(p, "ZeroA", AShr([h \in 1 .. 3 |-> Fill(Left(p, 1), 0)]))

(* TruncA: words r1 of P0 and P1 and r2 of P0 and P2, whose bits r1 xor r2 *)
(* are the random r and, shifted with its sign, rd; bit by bit the sum     *)
(* less twice the product.                                                 *)
TruncWords(p) ==
  LET x == Left(p, 1)
      a == Alphas(p, FillSelf(p, 0, x, K), FillNext(p, 0, x, K))
  IN  /\ Turn(p, "TruncWords", 0)
      /\ Return(p, Both(Blocks(x, K)), Nothing, Nothing, << Loc(a.alpha1), Loc(a.alpha2) >>)

(* The last weight is that of the sign; 1 << k, in the code's weights of P *)
(* at i = k - 1, may be anything: zero or one.                             *)
HighBits(bits) == Pow2[K] - Pow2[K - bits]
ShiftedWeight(bits) ==
  [j \in 1 .. K - bits + 1 |-> IF j <= K - bits THEN Pow2[j - 1] ELSE HighBits(bits)]
Doubled(weight) == [j \in DOMAIN weight |-> 2 * weight[j]]
Undefined(weight) == [weight EXCEPT ![K] = job.tape - 1]
Shifted(x, bits) ==   \* the bits from this one on, and once more the last
  LET n == K - bits + 1
  IN  [f \in 1 .. (Len(x) \div K) * n |->
         x[((f - 1) \div n) * K + Min({bits + ((f - 1) % n) + 1, K})]]
Scaled(x, weight) == [f \in DOMAIN x |-> (x[f] * weight[((f - 1) % Len(weight)) + 1]) % Pow2[K]]
PowersOf2 == [j \in 1 .. K |-> Pow2[j - 1]]
TruncFactors(p) ==
  LET bits == Par(p).bits
      every(i, F(_)) == AShr([h \in 1 .. 3 |-> F(Arg(p, i).s[h])])
  IN  /\ Turn(p, "TruncFactors", 0)
      /\ Return(p, NoDraw, Nothing, Nothing,
           << every(1, LAMBDA x : Scaled(Shifted(x, bits), Doubled(ShiftedWeight(bits)))),
              every(2, LAMBDA x : Shifted(x, bits)),
              every(1, LAMBDA x : Scaled(x, Undefined(Doubled(PowersOf2)))), Arg(p, 2) >>)
TruncPair(p) ==
  LET bits == Par(p).bits
      both(h) == Arg(p, 1).s[h] ++ Arg(p, 2).s[h]
      less(F(_), i) == AShr([h \in 1 .. 3 |-> F(both(h)) -- Arg(p, i).s[h]])
      n == K - bits + 1
  IN  /\ Turn(p, "TruncPair", 0)
      /\ Return(p, NoDraw, Nothing, Nothing,
           << less(LAMBDA x : Weighted(x, K, PowersOf2), 4),
              less(LAMBDA x : Weighted(Shifted(x, bits), n, ShiftedWeight(bits)), 3) >>)
TruncShift(p) == Local(p, "TruncShift", Pub(ring_arshift(Left(p, 1), Par(p).bits)))

Conversions(p) ==
  \/ A2BSummands(p) \/ Decompose(p) \/ Compose(p) \/ ZeroA(p) \/ TruncWords(p)
  \/ TruncFactors(p) \/ TruncPair(p) \/ TruncShift(p)

Kernel(p) ==
  JointMessagePassing(p) \/ SharingBeta(p) \/ Alones(p) \/ Triples(p) \/ Products(p)
    \/ Conversions(p)

-----------------------------------------------------------------------------
(* The kernels that call others.                                           *)
With(kind, w, tag) == [kind |-> kind, w |-> w, tag |-> tag]
RssOpened(x, kind, w, tag) == Line(<<x>>, "RssOpen", With(kind, w, tag), <<x>>)
ForKind(to, op, kind, of) == Line(to, op, [kind |-> kind], of)

(* MulPre, MatMulPre and DotProductPre: two triples with the same b, of    *)
(* which one is checked by the other.                                      *)
UseTriple(kind, tags, of) ==
  << RssOpened("xa", kind, K, tags[1]), RssOpened("yb", kind, K, tags[2]),
     ForKind(<<"f">>, "TripleUse", kind, of \o <<"xa", "yb">>) >>
MulPre(kind) ==
  LET w == 2 * K
  IN  << Line(<<"a", "a_", "b">>, "RssRand", With(kind, w, ""), <<"d", "d", "e">>),
         Line(<<"c">>, "RssMul", With(kind, w, kind.tags[1]), <<"a", "b">>),
         Line(<<"c_">>, "RssMul", With(kind, w, kind.tags[2]), <<"a_", "b">>),
         ForKind(<<"v", "r">>, "TripleV", kind, <<"a", "a_">>),
         RssOpened("v", kind, w, "reconstruct v"),
         ForKind(<<"w">>, "TripleW", kind, <<"v", "b", "r", "c", "c_">>),
         RssOpened("w", kind, w, "reconstruct w"),
         ForKind(<<"xa", "yb">>, "TripleLess", kind, <<"d", "e", "a", "b", "w">>) >>
      \o UseTriple(kind, <<"reconstruct x-a", "reconstruct y-b">>, <<"c", "b", "a">>)

(* AndPre: the first triple of every bucket is checked by each other.      *)
OpenBits(x, tag) == RssOpened(x, ByBits, K, tag)
RssSame(x, tag) == Line(<<>>, "RssCheck", [tag |-> tag], <<x>>)
verifyByOther(a, b, c) ==
  << ForKind(<<"rho", "sigma">>, "TripleLess", ByBits, <<"a0", "b0", a, b>>),
     OpenBits("rho", "reconstruct rho"), OpenBits("sigma", "reconstruct sigma"),
     RssSame("rho", "rotate rho"), RssSame("sigma", "rotate sigma"),
     Let("rest", "BucketRest", <<"c0", c, a, b, "rho", "sigma">>),
     RssSame("rest", "rotate s_{j}") >>
AndPre ==
  << Line(<<"a", "b">>, "RssRand", With(ByBits, K, ""), <<"d", "e">>),
     Line(<<"c">>, "RssMul", With(ByBits, K, ByBits.tags[1]), <<"a", "b">>),
     Line(<<"oa", "ob", "oc", "a0", "b0", "c0", "a1", "b1", "c1", "a2", "b2", "c2">>,
          "permute", NoPar, <<"a", "b", "c">>),
     OpenBits("oa", "reconstruct a"), OpenBits("ob", "reconstruct b"),
     OpenBits("oc", "reconstruct c"),
     Line(<<>>, "verifyByOpen", NoPar, <<"oa", "ob", "oc">>) >>
  \o verifyByOther("a1", "b1", "c1") \o verifyByOther("a2", "b2", "c2")
  \o << ForKind(<<"xa", "yb">>, "TripleLess", ByBits, <<"d", "e", "a0", "b0">>) >>
  \o UseTriple(ByBits, <<"reconstruct x ^ a", "reconstruct y ^ b">>, <<"c0", "e", "d">>)

Mul(kind) ==
  Code(<<"x", "y">>,
    << ForKind(<<"m", "d", "e">>, "MulMasks", kind, <<"x", "y">>) >>
    \o (IF kind.of = "and" THEN AndPre ELSE MulPre(kind))
    \o << ForKind(<<"h1", "h2">>, "MulStar", kind, <<"m", "f", "x", "y">>),
          Jmp("h1", 0, 1, 2, "beta_z1_star"), Jmp("h2", 0, 2, 1, "beta_z2_star"),
          ForKind(<<"beta", "sum">>, "MulJoin", kind, <<"m", "f", "h1", "h2", "x", "y">>),
          Jmp("sum", 1, 2, 0, "beta_plus_gamma_z"),
          ForKind(<<"z">>, "MulShare", kind, <<"m", "beta", "sum", "x", "y">>) >>,
    <<"z">>)
AndBB(c) ==
  IF Len(c.of) = 2 THEN Mul(ByBits)
  ELSE Code(<<"x", "x2", "y", "y2">>,
         << Line(<<"x", "y">>, "VmapJoin", NoPar, <<"x", "x2", "y", "y2">>),
            Let("z", "AndBB", <<"x", "y">>),
            Line(<<"z", "z2">>, "VmapSplit", NoPar, <<"z">>) >>,
         <<"z", "z2">>)

MulAA == Mul(Each)
MatMulAA(par) == Mul(OfMatrices(par))
DotProductAA(par) == Mul(OfVectors(par.n))

JmpOf(piece) ==
  CASE piece = "beta" -> Jmp("beta", 1, 2, 0, "beta")
    [] piece = "alpha1" -> Jmp("alpha1", 0, 1, 2, "alpha1")
    [] piece = "alpha2" -> Jmp("alpha2", 2, 0, 1, "alpha2")
Pieces == <<"beta", "alpha1", "alpha2">>
HeldLine == Line(Pieces, "Held", NoPar, <<"x">>)
ToP(type) ==
  Code(<<"x">>,
    << HeldLine, JmpOf("beta"), JmpOf("alpha1"), JmpOf("alpha2"),
       Line(<<"z">>, "Show", [type |-> type], Pieces) >>,
    <<"z">>)
A2V(par) ==
  Code(<<"x">>,
    << HeldLine,
       JmpOf(CASE par.owner = 0 -> "beta" [] par.owner = 1 -> "alpha2"
               [] par.owner = 2 -> "alpha1"),
       Line(<<"z">>, "ShowTo", par, Pieces) >>,
    <<"z">>)

(* Sharing: P0's beta goes to both others before gamma is added, the other *)
(* owner's beta to the one who shares it, and both give P0 the sum.        *)
SharingOf(par, to, tag) ==
  << Line(<<"m">>, "SharingDraw", par, <<>>),
     Line(<<"beta">>, "SharingBeta", [owner |-> par.owner, to |-> to, tag |-> tag], <<"m", "v">>) >>
SumBeta == Let("sum", "SharingSum", <<"m", "beta">>)
V2A(par) ==
  Code(<<"v">>,
    (CASE par.owner = 0 ->
            SharingOf(par, 1, "beta_01") \o << Jmp("beta", 0, 1, 2, "beta_012"), SumBeta >>
       [] par.owner = 1 ->
            SharingOf(par, 2, "beta_12") \o << SumBeta, Jmp("sum", 1, 2, 0, "beta_plus_gamma_120") >>
       [] par.owner = 2 ->
            SharingOf(par, 1, "beta_12") \o << SumBeta, Jmp("sum", 2, 1, 0, "beta_plus_gamma_210") >>)
    \o << Let("z", "SharingJoin", <<"m", "beta", "sum">>) >>,
    <<"z">>)
RandA(par) ==
  Code(<<>>,
    << Line(<<"m", "beta">>, "RandDraw", par, <<>>), SumBeta,
       Jmp("sum", 1, 2, 0, "beta_plus_gamma_120"), Let("z", "SharingJoin", <<"m", "beta", "sum">>) >>,
    <<"z">>)

A2B ==
  Code(<<"x">>,
    << Line(<<"v0", "v1", "v2">>, "A2BSummands", NoPar, <<"x">>),
       AddBits("z", <<"v0", "v1">>), AddBits("z", <<"z", "v2">>),
       Line(<<"z">>, "CastTypeB", [nbits |-> K], <<"z">>) >>,
    <<"z">>)
MsbA2B ==
  Code(<<"x">>,
    << Let("z", "A2B", <<"x">>), LetBy("z", "RShiftB", K - 1, <<"z">>),
       Line(<<"z">>, "CastTypeB", [nbits |-> K], <<"z">>) >>,
    <<"z">>)
JointOf(x, by) == Line(<<x>>, "JointSharing", [by |-> by], <<x>>)
XorA(to, x, y) ==
  << Let("t", "MulAA", <<x, y>>), Let("t", "NegateA", <<"t">>), Let("s", "AddAA", <<x, y>>),
     Let("s", "AddAA", <<"s", "t">>), Let(to, "AddAA", <<"s", "t">>) >>
B2A(par) ==
  IF par.nbits = 0 THEN Code(<<"x">>, << Let("z", "ZeroA", <<"x">>) >>, <<"z">>)
  ELSE Code(<<"x">>,
         << HeldLine, Line(Pieces, "Decompose", par, Pieces), JointOf("alpha1", {0, 1}),
            JointOf("alpha2", {0, 2}), JointOf("beta", {1, 2}) >>
         \o XorA("alpha", "alpha1", "alpha2") \o XorA("z", "beta", "alpha")
         \o << Line(<<"z">>, "Compose", par, <<"z">>) >>,
         <<"z">>)

TruncA(par) ==
  LET Dot(to, of, n) == Line(<<to>>, "DotProductAA", [n |-> n], of)
  IN  Code(<<"x">>,
        << Line(<<"r1", "r2">>, "TruncWords", NoPar, <<"x">>),
           Line(<<"r1", "r2">>, "Decompose", [nbits |-> K], <<"r1", "r2">>),
           JointOf("r1", {0, 1}), JointOf("r2", {0, 2}),
           Line(<<"X", "Y", "P", "Q">>, "TruncFactors", par, <<"r1", "r2">>),
           Dot("A", <<"X", "Y">>, K - par.bits + 1), Dot("B", <<"P", "Q">>, K),
           Line(<<"r", "rd">>, "TruncPair", par, <<"r1", "r2", "A", "B">>),
           Let("r", "NegateA", <<"r">>), Let("d", "AddAA", <<"x", "r">>), Let("d", "A2P", <<"d">>),
           Line(<<"d">>, "TruncShift", par, <<"d">>), Let("z", "AddAP", <<"rd", "d">>) >>,
        <<"z">>)

Expand(c) ==
  CASE c.op = "A2P" -> ToP("A")
    [] c.op = "B2P" -> ToP("B")
    [] c.op = "A2V" -> A2V(c.par)
    [] c.op = "V2A" -> V2A(c.par)
    [] c.op = "RandA" -> RandA(c.par)
    [] c.op = "MulAA" -> MulAA
    [] c.op = "MatMulAA" -> MatMulAA(c.par)
    [] c.op = "DotProductAA" -> DotProductAA(c.par)
    [] c.op = "AndBB" -> AndBB(c)
    [] c.op = "TruncA" -> TruncA(c.par)
    [] c.op = "A2B" -> A2B
    [] c.op = "MsbA2B" -> MsbA2B
    [] c.op = "B2A" -> B2A(c.par)
    [] c.op = "AddBB" -> add_bb(c.par.circuit)
    [] OTHER -> Circuit(c)
=============================================================================
