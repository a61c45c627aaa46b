------------------------------ MODULE SecureNN ------------------------------
(***************************************************************************)
(* The kernels of the protocol securenn, mpc/securenn, for three parties.  *)
(* The first two have the shares of a secret; the third one, the helper,   *)
(* deals words that fit together and compares bits under a mask, and its   *)
(* share is zero.                                                          *)
(***************************************************************************)
EXTENDS AdditiveShares

Helper == 2
Mate(p) == 1 - p
Zeros(x) == Fill(x, 0)
ByRank(p, x0, x1, x2) == CASE p = 0 -> x0 [] p = 1 -> x1 [] p = 2 -> x2

(* The words that the first two have in common; one of them and the helper.*)
Common(p, before, x, w) ==
  IF p = 0 THEN FillNext(p, before, x, w) ELSE FillSelf(p, before, x, w)
WithHelper(p, before, x, w) ==
  IF p = 0 THEN FillSelf(p, before, x, w) ELSE FillNext(p, before, x, w)

(* ring_rand: words of a generator of the party's own, new in every call.  *)
Rand(p, i, x, w) == Words(25, 16 * at[p] + i, x, w)

(* SecurennIo: arithmetic shares only.                                     *)
toShares(p, seed, v) ==
  LET r == Words(seed, 0, v.x, K)
  IN  CASE v.type = "P" -> Pub(v.x)
        [] v.type = "V" -> Priv(v.owner, IF p = v.owner THEN <<v.x>> ELSE <<>>)
        [] v.type = "A" -> AShr(<<ByRank(p, r, v.x -- r, Zeros(v.x))>>)

-----------------------------------------------------------------------------
(* arithmetic.cc                                                           *)
P2A(p) ==
  LET x == Mine(p, 1)
  IN  Alone(p, "P2A", Both(Blocks(x, K)),
            AShr(<<ByRank(p, Common(p, 0, x, K), x -- Common(p, 0, x, K), Zeros(x))>>))

(* The first two add a share of zero to their own value; the helper sends  *)
(* its value under a share of zero.                                        *)
V2A(p) ==
  LET x == [i \in 1 .. Par(p).numel |-> 0]
      draw == Both(Blocks(x, K))
      helps == Arg(p, 1).owner = Helper
      of(z) == IF p = Arg(p, 1).owner THEN z ++ Mine(p, 1) ELSE z
  IN  /\ Turn(p, "V2A", 0)
      /\ CASE ~helps ->
                Return(p, draw, Nothing, Nothing,
                  <<AShr(<<ByRank(p, of(Common(p, 0, x, K)),
                                  of(ring_neg(Common(p, 0, x, K))), x)>>)>>)
           [] helps /\ p = Helper ->
                Return(p, draw, Nothing, To(0, <<Msg("s", of(ZeroA(p, 0, x)))>>),
                       <<AShr(<<x>>)>>)
           [] helps /\ p = 1 ->
                Return(p, draw, Nothing, Nothing, <<AShr(<<ZeroA(p, 0, x)>>)>>)
           [] helps /\ p = 0 ->
                /\ Arrived(p, From(Helper, <<"s">>))
                /\ Return(p, draw, From(Helper, <<"s">>), Nothing,
                          <<AShr(<<ZeroA(p, 0, x) ++ Took(p, Helper, 1)>>)>>)

(* Masks a and b and shares of their product, from the words of all: the   *)
(* helper knows all but one share, which it sends to the second party.     *)
TripleDraw(p, x, y, z) ==
  LET nxy == Blocks(x, K) + Blocks(y, K)
  IN  ByRank(p, First(nxy + Blocks(z, K)), Second(nxy),
             Both(nxy) \uplus Second(Blocks(z, K)))
Triple(p, before, x, y, z) ==
  LET nx == Blocks(x, K)
  IN  [a |-> WithHelper(p, before, x, K), b |-> WithHelper(p, before + nx, y, K),
       c |-> IF p = 0 THEN FillSelf(p, before + nx + Blocks(y, K), z, K)
                      ELSE Took(p, Helper, 1)]
LastShare(p, before, x, y, z) ==
  LET nx == Blocks(x, K)
      all(n, v) == FillSelf(p, before + n, v, K) ++ FillNext(p, before + n, v, K)
  IN  Times(p, all(0, x), all(nx, y))
        -- FillNext(p, before + nx + Blocks(y, K), z, K)
LastShareOfAnd(p, x) ==
  LET n == Blocks(x, K)
      all(before) == FillSelf(p, before, x, K) ## FillNext(p, before, x, K)
  IN  (all(0) && all(n)) ## FillNext(p, 2 * n, x, K)

(* x - a and y - b are opened between the first two, who end with a share  *)
(* of zero between them.                                                   *)
ZeroPair(p, z) ==
  ByRank(p, z -- Common(p, 0, z, K), z ++ Common(p, 0, z, K), Zeros(z))
Product(p, op, x, y, draw, waits, sends, m) ==
  LET z == Times(p, x, y)
      zero == Both(Blocks(z, K))
      opened == From(Mate(p), <<"x_a", "y_b">>)
  IN
  \/ /\ Turn(p, op, 0) /\ p = Helper
     /\ Return(p, draw \uplus zero, Nothing, sends, <<AShr(<<Zeros(z)>>)>>)
  \/ /\ Turn(p, op, 0) /\ p # Helper
     /\ Arrived(p, waits)
     /\ Pass(p, draw, waits,
             To(Mate(p), <<Msg("x_a", x -- m.a), Msg("y_b", y -- m.b)>>), m)
  \/ /\ Turn(p, op, 1)
     /\ Arrived(p, opened)
     /\ LET k == kept[p]
            xa == (x -- k.a) ++ Took(p, Mate(p), 1)
            yb == (y -- k.b) ++ Took(p, Mate(p), 2)
            share == Times(p, xa, k.b) ++ Times(p, k.a, yb) ++ k.c
        IN  Return(p, zero, opened, Nothing,
                   <<AShr(<<ZeroPair(p, IfFirst(p, share ++ Times(p, xa, yb), share))>>)>>)

Multiply(p, op) ==
  LET x == Mine(p, 1)
      y == Mine(p, 2)
      z == Times(p, x, y)
  IN  /\ Calls(p, op)
      /\ Product(p, op, x, y, TripleDraw(p, x, y, z),
                 IF p = 1 THEN From(Helper, <<"c">>) ELSE Nothing,
                 To(1, <<Msg("c", LastShare(p, 0, x, y, z))>>),
                 Triple(p, 0, x, y, z))
MulAA(p) == Multiply(p, "MulAA")
MatMulAA(p) == Multiply(p, "MatMulAA")

(* The helper sends all masks and both shares.                             *)
MatMulAA_simple(p) ==
  LET x == Mine(p, 1)
      y == Mine(p, 2)
      z == Mmul(p, x, y)
      a(q) == Rand(p, q, x, K)
      b(q) == Rand(p, 2 + q, y, K)
      c0 == Rand(p, 4, z, K)
      c1 == Mmul(p, a(0) ++ a(1), b(0) ++ b(1)) -- c0
  IN  /\ Calls(p, "MatMulAA_simple")
      /\ Product(p, "MatMulAA_simple", x, y, NoDraw,
                 From(Helper, <<"a", "b", "c">>),
                 [q \in {0, 1} |-> <<Msg("a", a(q)), Msg("b", b(q)),
                                     Msg("c", IF q = 0 THEN c0 ELSE c1)>>],
                 [a |-> Took(p, Helper, 1), b |-> Took(p, Helper, 2),
                  c |-> Took(p, Helper, 3)])

-----------------------------------------------------------------------------
(* Words that every party draws on its own and that have to fit together:  *)
(* the first two tell the helper theirs, which gives the first one what    *)
(* the sum lacks.  All open what they have masked with the words, and the  *)
(* helper leaves its share of the result to the first party.               *)
Corrected(p, adjust, k) ==
  [i \in DOMAIN k |-> IF i \in DOMAIN adjust THEN k[i] ++ adjust[i] ELSE k[i]]
Fitted(p, op, Tags(_), words, fits, adjTags, Lacks(_, _), tag, Masked(_), Add(_, _),
       Share(_, _), resTag) ==
  LET draw == Own(Len(words) * Blocks(words[1], K))
      told == [i \in DOMAIN words |-> Msg(Tags(p)[i], words[i])]
      toldBy == [q \in {0, 1} |-> Tags(q)]
      sums == [i \in DOMAIN words |-> words[i] ++ Took(p, 0, i) ++ Took(p, 1, i)]
      adjusts == [i \in DOMAIN adjTags |-> Msg(adjTags[i], Lacks(sums, fits[i]))]
      open(k) == <<Msg(tag, Masked(k))>>
      fixed == Corrected(p, [f \in Range(fits) |->
                 Took(p, Helper, CHOOSE i \in DOMAIN fits : fits[i] = f)], kept[p])
      all == FromAll(p, <<tag>>)
      more == [q \in {1, Helper} |-> IF q = 1 THEN <<tag>> ELSE <<tag, resTag>>]
      result == Share(kept[p], Reduced(p, Masked(kept[p]), Add))
  IN
  \/ /\ Turn(p, op, 0) /\ p = 0
     /\ Pass(p, draw, Nothing, To(Helper, told), words)
  \/ /\ Turn(p, op, 0) /\ p = 1
     /\ Pass(p, draw, Nothing,
             [q \in {0, Helper} |-> IF q = 0 THEN open(words) ELSE told \o open(words)],
             words)
  \/ /\ Turn(p, op, 0) /\ p = Helper
     /\ Arrived(p, toldBy)
     /\ Pass(p, draw, toldBy,
             [q \in {0, 1} |-> IF q = 0 THEN adjusts \o open(words) ELSE open(words)],
             words)
  \/ /\ Turn(p, op, 1) /\ p = 0
     /\ Arrived(p, From(Helper, adjTags))
     /\ Pass(p, NoDraw, From(Helper, adjTags), ToAll(p, open(fixed)), fixed)
  \/ /\ Turn(p, op, 1) /\ p = 1
     /\ Arrived(p, all)
     /\ Return(p, NoDraw, all, Nothing, <<AShr(<<result>>)>>)
  \/ /\ Turn(p, op, 1) /\ p = Helper
     /\ Arrived(p, all)
     /\ Return(p, NoDraw, all, To(0, <<Msg(resTag, result)>>),
               <<AShr(<<Zeros(result)>>)>>)
  \/ /\ Turn(p, op, 2) /\ p = 0
     /\ Arrived(p, more)
     /\ Return(p, NoDraw, more, Nothing, <<AShr(<<result ++ Took(p, Helper, 2)>>)>>)

TruncAPr(p) ==
  LET x == Mine(p, 1)
      bits == Par(p).bits
      whole(sums, i) == IF i = 2 THEN ring_rshift(ring_lshift(sums[1], 1), bits + 1)
                                 ELSE ring_rshift(sums[1], K - 1)
  IN  /\ Calls(p, "TruncAPr")
      /\ Fitted(p, "TruncAPr", LAMBDA q : <<"r", "rc", "rb">>,
                [i \in 1 .. 3 |-> FillPriv(p, (i - 1) * Blocks(x, K), x, K)],
                <<2, 3>>, <<"adjust1", "adjust2">>,
                LAMBDA sums, i : whole(sums, i) -- sums[i],
                "trunc_a", LAMBDA m : Lifted(p, x) ++ m[1], Plus,
                LAMBDA m, c : TruncPrShare(p, c, m[2], m[3], bits), "out")

(* conversion.cc: the helper's random bits, one for each bit of x.         *)
B2A_Randbit(p) ==
  LET x == Mine(p, 1)
      n == nbits(p, 1)
      bits == [i \in 1 .. Len(x) * n |-> 0]
  IN  \/ /\ Turn(p, "B2A_Randbit", 0) /\ n = 0
         /\ Return(p, NoDraw, Nothing, Nothing, <<AShr(<<Zeros(x)>>)>>)
      \/ /\ Calls(p, "B2A_Randbit") /\ n # 0
         /\ Fitted(p, "B2A_Randbit",
                   LAMBDA q : <<IF q = 1 THEN "randbits1" ELSE "randbits0">>,
                   <<FillPriv(p, 0, bits, K)>>,
                   <<1>>, <<"adjust">>,
                   LAMBDA sums, i : ring_cast_boolean(Rand(p, 0, bits, K)) -- sums[1],
                   "open(x^r)", LAMBDA m : BitMasked(x, m[1], n), XorAll,
                   LAMBDA m, c : Assemble(BitShares(p, c, m[1], n)), "res")

(* boolean.cc: the triples are of words of the field, as many as hold the  *)
(* elements in storage of w bits.                                          *)
AndBB(p) ==
  LET n == Least(nbits(p, 1), nbits(p, Pairs(p) + 1))
      w == Width(n)
      x == Cast(Joined(p, 0, 1), w)
      y == Cast(Joined(p, Pairs(p), 1), w)
      packed == [i \in 1 .. (Len(x) * w + K - 1) \div K |-> 0]
      parts(v) == [i \in DOMAIN x |->
        (v[((i - 1) * w) \div K + 1] \div Pow2[((i - 1) * w) % K]) % Pow2[w]]
      m == IF p = Helper THEN [a |-> packed, b |-> packed, c |-> packed]
                         ELSE Triple(p, 0, packed, packed, packed)
      waits == IF p = 1 THEN From(Helper, <<"c">>) ELSE Nothing
      last == LastShareOfAnd(p, packed)
      open == <<Msg("open(x^a,y^b)", (x ## parts(m.a)) \o (y ## parts(m.b)))>>
      sends == [q \in Others(p) |-> IF p = Helper /\ q = 1
                                    THEN <<Msg("c", last)>> \o open ELSE open]
      all == FromAll(p, <<"open(x^a,y^b)">>)
  IN
  \/ /\ Turn(p, "AndBB", 0) /\ SameTypes(p, LAMBDA i : nbits(p, i))
     /\ Arrived(p, waits)
     /\ Pass(p, TripleDraw(p, packed, packed, packed), waits, sends,
             [i \in {"a", "b", "c"} |-> parts(m[i])])
  \/ /\ Turn(p, "AndBB", 1)
     /\ Arrived(p, all)
     /\ LET k == kept[p]
            opened == Reduced(p, (x ## k.a) \o (y ## k.b), XorAll)
            xa == SubSeq(opened, 1, Len(x))
            yb == SubSeq(opened, Len(x) + 1, Len(opened))
            z == k.c ## (xa && k.b) ## (yb && k.a)
            mine == IfFirst(p, z ## (xa && yb), z)
        IN  Return(p, NoDraw, all, Nothing,
                   [i \in 1 .. Pairs(p) |-> BShr(n, Part(p, mine, i))])

-----------------------------------------------------------------------------
(* Comparison under a mask.  The first two have d, shares modulo a prime   *)
(* of the bits of a word that only the helper knows, and both know r, a    *)
(* flip and random words s and u for every bit; the helper learns, in the  *)
(* flip's disguise, whether its word is greater than r.                    *)
Prime == 11            \* the code has 131, for words of up to 128 bits
CmpBits == 2 * K       \* the words have room for a product modulo Prime
PerBit(x) == [k \in 1 .. Len(x) * K |-> 0]
Place(i, j) == (i - 1) * K + j + 1

Split0(r) == [k \in DOMAIN r |-> r[k] % Prime]
Split1(x, r) ==
  [k \in DOMAIN r |->
     Bit(x[(k - 1) \div K + 1], (k - 1) % K) + Prime - (r[k] % Prime)]

(* The share of party p.  Where the flip asks for r + 1 and r is the last  *)
(* word, the helper is to get exactly one zero; of u, the first word alone *)
(* is taken modulo Prime.                                                  *)
Compare(p, d, r, t, flip, s, u) ==
  [k \in DOMAIN d |->
     LET i == (k - 1) \div K + 1
         j == (k - 1) % K
         v(h) == Bit(IF flip[i] = 0 THEN r[i] ELSE t[i], h)
         w(h) == Prime + d[Place(i, h)] + p * v(h) - 2 * v(h) * d[Place(i, h)]
         above == MapThenSumSet(w, j + 1 .. K - 1)
         least == p * v(j) - d[k]
         uk == IF k = 1 THEN u[k] % Prime ELSE u[k]
         c == IF flip[i] = 1 /\ r[i] = Ones
              THEN IF p = 1 THEN -uk ELSE IF j = 1 THEN uk ELSE uk + 1
              ELSE (Prime + (IF flip[i] = 0 THEN least ELSE -least) + p + above)
                     % Prime
     IN  ((((s[k] % (Prime - 1)) + 1) * c) % Pow2[CmpBits]) % Prime]
Greater(d0, d1, x) ==
  [i \in DOMAIN x |->
     IF \E j \in Bits : (d0[Place(i, j)] + d1[Place(i, j)]) % Prime = 0
     THEN 1 ELSE 0]

(* Modulo L - 1, the number of words less one: a wrap is one more or less. *)
Below(x, y) == [i \in DOMAIN x |-> IF x[i] < y[i] THEN 1 ELSE 0]
AddL1(x, y) == (x ++ y) ++ Below(x ++ y, x)
SubL1(x, y) == (x -- y) -- Below(x, y)
ReduceL1(x) == [i \in DOMAIN x |-> x[i] % Ones]

(* ShareConvert: shares modulo L to shares modulo L - 1.                   *)
Wraps(k, p, eta_) ==
  LET eta == [i \in DOMAIN eta_ |->
        IF k.flip[i] = 0 THEN eta_[i]
        ELSE IF eta_[i] = 0 THEN 1 - p ELSE (Ones - eta_[i] + 1 - p) % Pow2[K]]
      sum == k.delta ++ eta ++ k.beta
      tmp == sum ++ Below(sum, k.delta)
      theta == IF p = 1 THEN tmp ELSE (tmp -- k.alpha) -- Fill(tmp, 1)
  IN  theta -- Below(tmp, theta)
ShareConvert(p) ==
  LET a == Mine(p, 1)
      n == Blocks(a, K)
      bits == PerBit(a)
      m == Blocks(bits, CmpBits)
      draw == Both(4 * n + 2 * m)
      r0 == Common(p, 2 * n, a, K)
      r == r0 ++ Common(p, 3 * n, a, K)
      mask == IF p = 0 THEN r0 ELSE Common(p, 3 * n, a, K)
      a_ == a ++ mask
      two(x0, x1) == [q \in {0, 1} |-> IF q = 0 THEN x0 ELSE x1]
      dealt == <<"dp_x", "delta">>
  IN
  \/ /\ Turn(p, "ShareConvert", 0) /\ p # Helper
     /\ Pass(p, draw, Nothing, To(Helper, <<Msg("a_", a_)>>),
             [zero |-> Common(p, 0, a, K), flip |-> ring_cast_boolean(Common(p, n, a, K)),
              r |-> r, beta |-> Below(a_, a), alpha |-> Below(r, mask),
              s |-> Common(p, 4 * n, bits, CmpBits),
              u |-> Common(p, 4 * n + m, bits, CmpBits)])
  \/ /\ Turn(p, "ShareConvert", 1) /\ p # Helper
     /\ Arrived(p, From(Helper, dealt))
     /\ LET k == kept[p]
            d == Compare(p, Took(p, Helper, 1), k.r -- Fill(a, 1), k.r,
                         k.flip, k.s, k.u)
        IN  Pass(p, NoDraw, From(Helper, dealt), To(Helper, <<Msg("d", d)>>),
                 k @@ [delta |-> Took(p, Helper, 2)])
  \/ /\ Turn(p, "ShareConvert", 2)
     /\ Arrived(p, From(Helper, <<"eta_">>))
     /\ LET k == kept[p]
            res == SubL1(a, Wraps(k, p, Took(p, Helper, 1)))
        IN  Return(p, NoDraw, From(Helper, <<"eta_">>), Nothing,
                   <<AShr(<<IF p = 0 THEN AddL1(res, k.zero) ELSE SubL1(res, k.zero)>>)>>)
  \/ /\ Turn(p, "ShareConvert", 0) /\ p = Helper
     /\ Arrived(p, two(<<"a_">>, <<"a_">>))
     /\ LET x == Took(p, 0, 1) ++ Took(p, 1, 1)
            delta == Below(x, Took(p, 0, 1))
            delta0 == ReduceL1(Rand(p, 0, a, K))
            rnd == Rand(p, 1, bits, CmpBits)
        IN  Pass(p, draw, two(<<"a_">>, <<"a_">>),
                 two(<<Msg("dp_x", Split0(rnd)), Msg("delta", delta0)>>,
                     <<Msg("dp_x", Split1(x, rnd)), Msg("delta", SubL1(delta, delta0))>>),
                 Nothing)
  \/ /\ Turn(p, "ShareConvert", 1) /\ p = Helper
     /\ Arrived(p, two(<<"d">>, <<"d">>))
     /\ LET eta_ == Greater(Took(p, 0, 1), Took(p, 1, 1), a)
            eta0 == ReduceL1(Rand(p, 2, a, K))
        IN  Return(p, NoDraw, two(<<"d">>, <<"d">>),
                   two(<<Msg("eta_", eta0)>>, <<Msg("eta_", SubL1(eta_, eta0))>>),
                   <<AShr(<<Zeros(a)>>)>>)

(* The share of party p of a bit under a flip that the first two know.     *)
Flipped(p, x, flip) ==
  LET y == (x -- flip ** x) -- flip ** x IN IF p = 1 THEN y ++ flip ELSE y

(* Msb: the highest bit of a is the lowest one of y = 2 a modulo L - 1.    *)
(* The first two open y + x for a random x of the helper; the bit is that  *)
(* of the sum and of x and of whether the sum wrapped, multiplied with a   *)
(* triple.  Msb_opt has fewer messages: what the helper sends to the first *)
(* party are words of the streams, and the second one has such an x, too.  *)
MsbBy(p, op, opt) ==
  LET a == Mine(p, 1)
      n == Blocks(a, K)
      bits == PerBit(a)
      m == Blocks(bits, CmpBits)
      head == n + 2 * m
      first == IF opt THEN head + 3 * n + m ELSE head
      draw == Both(first) \uplus TripleDraw(p, a, a, a)
      Deal(i, before, v, w) ==
        IF opt THEN IF p = Helper THEN FillNext(p, head + before, v, w)
                                  ELSE FillSelf(p, head + before, v, w)
               ELSE Rand(p, i, v, w)
      x0 == ReduceL1(Deal(0, 0, a, K))
      rnd == Deal(1, n, bits, CmpBits)
      lsb0 == Deal(2, n + m, a, K)
      beta0 == Deal(3, 2 * n + m, a, K)
      secret == IF opt THEN AddL1(ReduceL1(FillSelf(p, head, a, K)), x0)
                       ELSE ReduceL1(Rand(p, 4, a, K))
      xs == IF opt THEN <<>> ELSE <<"x">>
      waits == CASE p = 1 -> From(Helper, <<"beaver_c">> \o xs \o <<"dp_x", "lsb_x">>)
                 [] p = 0 /\ ~opt -> From(Helper, xs \o <<"dp_x", "lsb_x">>)
                 [] p = 0 /\ opt -> Nothing
      sends ==
        [q \in {0, 1} |->
           IF q = 0
           THEN IF opt THEN <<>>
                ELSE <<Msg("x", x0), Msg("dp_x", Split0(rnd)), Msg("lsb_x", lsb0)>>
           ELSE <<Msg("beaver_c", LastShare(p, first, a, a, a))>>
                  \o (IF opt THEN <<>> ELSE <<Msg("x", SubL1(secret, x0))>>)
                  \o <<Msg("dp_x", Split1(secret, rnd)),
                       Msg("lsb_x", ring_cast_boolean(secret) -- lsb0)>>]
      Got(i) == Took(p, Helper, Len(waits[Helper]) - i)
      x == CASE ~opt -> Got(2)
             [] opt /\ p = 0 -> x0
             [] opt /\ p = 1 -> ReduceL1(FillNext(p, head, a, K))
      own == p = 0 /\ opt
      r1 == AddL1(AddL1(a, a), x)
      two(t) == [q \in {0, 1} |-> t]
      back == IF own THEN Nothing ELSE From(Helper, <<"beta_">>)
      opened == From(Mate(p), <<"gamma_a", "delta_b">>)
  IN
  \/ /\ Turn(p, op, 0) /\ p = Helper
     /\ Pass(p, draw, Nothing, sends, [beta0 |-> beta0])
  \/ /\ Turn(p, op, 1) /\ p = Helper
     /\ Arrived(p, two(<<"d">>))
     /\ LET beta_ == Greater(Took(p, 0, 1), Took(p, 1, 1), a)
            b0 == kept[p].beta0
        IN  Return(p, Both(n), two(<<"d">>),
                   [q \in {0, 1} |-> IF q = 1 THEN <<Msg("beta_", beta_ -- b0)>>
                                     ELSE IF opt THEN <<>> ELSE <<Msg("beta_", b0)>>],
                   <<AShr(<<Zeros(a)>>)>>)
  \/ /\ Turn(p, op, 0) /\ p # Helper
     /\ Arrived(p, waits)
     /\ Pass(p, draw, waits, To(Mate(p), <<Msg("r1", r1)>>),
             [flip |-> ring_cast_boolean(Common(p, 0, a, K)),
              s |-> Common(p, n, bits, CmpBits), u |-> Common(p, n + m, bits, CmpBits),
              m |-> Triple(p, first, a, a, a), r1 |-> r1,
              d |-> IF own THEN Split0(rnd) ELSE Got(1),
              lsb |-> IF own THEN lsb0 ELSE Got(0),
              beta0 |-> IF own THEN beta0 ELSE <<>>])
  \/ /\ Turn(p, op, 1) /\ p # Helper
     /\ Arrived(p, From(Mate(p), <<"r1">>))
     /\ LET k == kept[p]
            r == AddL1(k.r1, Took(p, Mate(p), 1))
            d == Compare(p, k.d, r, r ++ Fill(a, 1), k.flip, k.s, k.u)
        IN  Pass(p, NoDraw, From(Mate(p), <<"r1">>), To(Helper, <<Msg("d", d)>>),
                 [flip |-> k.flip, m |-> k.m, beta0 |-> k.beta0,
                  delta |-> Flipped(p, k.lsb, ring_cast_boolean(r))])
  \/ /\ Turn(p, op, 2)
     /\ Arrived(p, back)
     /\ LET k == kept[p]
            gamma == Flipped(p, IF own THEN k.beta0 ELSE Took(p, Helper, 1), k.flip)
        IN  Pass(p, NoDraw, back,
                 To(Mate(p), <<Msg("gamma_a", gamma -- k.m.a),
                               Msg("delta_b", k.delta -- k.m.b)>>),
                 [m |-> k.m, gamma |-> gamma, delta |-> k.delta])
  \/ /\ Turn(p, op, 3)
     /\ Arrived(p, opened)
     /\ LET k == kept[p]
            ga == (k.gamma -- k.m.a) ++ Took(p, Mate(p), 1)
            db == (k.delta -- k.m.b) ++ Took(p, Mate(p), 2)
            share == ga ** k.m.b ++ db ** k.m.a ++ k.m.c
            theta == IfFirst(p, share ++ ga ** db, share)
        IN  Return(p, Both(n), opened, Nothing,
                   <<AShr(<<ZeroPair(p, (k.gamma ++ k.delta -- theta) -- theta)>>)>>)
Msb(p) == MsbBy(p, "Msb", FALSE)
Msb_opt(p) == MsbBy(p, "Msb_opt", TRUE)

Kernel(p) ==
  \/ OnShares(p) \/ P2A(p) \/ V2A(p) \/ MulAA(p) \/ MatMulAA(p)
  \/ MatMulAA_simple(p) \/ TruncAPr(p) \/ B2A_Randbit(p) \/ AndBB(p)
  \/ ShareConvert(p) \/ Msb(p) \/ Msb_opt(p)

-----------------------------------------------------------------------------
(* Msb_a2b, as it is built by default and with OPT_SECURENN_MSB.           *)
Msb_a2b(opt) ==
  Code(<<"x">>,
    (IF opt THEN << Let("msb", "Msb_opt", <<"x">>) >>
     ELSE << Let("twice", "AddAA", <<"x", "x">>),
             Let("conv", "ShareConvert", <<"twice">>), Let("msb", "Msb", <<"conv">>) >>)
    \o << Let("r", "A2B", <<"msb">>) >>,
    <<"r">>)

Expand(c) ==
  CASE c.op = "A2B" -> A2B(3)
    [] c.op = "B2A" -> Code(<<"x">>, << Let("z", "B2A_Randbit", <<"x">>) >>, <<"z">>)
    [] c.op = "MsbA2B" -> Msb_a2b(c.par.opt)
    [] c.op = "AddBB" -> add_bb(c.par.circuit)
    [] OTHER -> Circuit(c)
=============================================================================
