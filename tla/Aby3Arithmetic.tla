--------------------------- MODULE Aby3Arithmetic ---------------------------
(***************************************************************************)
(* The kernels of the three-party protocol ABY3, mpc/aby3.  A secret is    *)
(* the sum (arithmetic) or the exclusive or (Boolean) of three shares      *)
(* x0, x1, x2; party p has the shares p and p + 1, Left and Right here.    *)
(*                                                                         *)
(* This module has arithmetic.cc, ot.cc, io.cc and permute.cc; Aby3 adds   *)
(* the kernels on Boolean shares.                                          *)
(***************************************************************************)
EXTENDS Parties

(* The same operation on both halves of a share.                           *)
Halves(p, F(_)) == <<F(Left(p, 1)), F(Right(p, 1))>>
Open(p, i) == Left(p, i) ++ Right(p, i)     \* the sum of the two it has
Public(p, i) == Arg(p, i).s[1]              \* an operand all know

BShr(n, s) == BShrIn(calcBShareBacktype(n), n, s)

(* Aby3Io: party p's share of an input, split by words of a given seed.    *)
toShares(p, seed, v) ==
  LET x == v.x
      s0 == Words(seed, 0, x, K)
      s1 == Words(seed, 1, x, K)
      own(t) == <<t[p + 1], t[NextRank(p) + 1]>>
  IN  CASE v.type = "P" -> Pub(x)
        [] v.type = "V" -> Priv(v.owner, IF p = v.owner THEN <<x>> ELSE <<>>)
        [] v.type = "A" -> AShr(own(<<s0, s1, x -- s0 -- s1>>))
        [] v.type = "B" -> BShr(v.nbits, own(<<s0, s1, x ## s0 ## s1>>))

-----------------------------------------------------------------------------
(* arithmetic.cc                                                           *)
RandA(p) ==
  LET x == Fill([i \in 1 .. Par(p).numel |-> 0], 0)
  IN  Alone(p, "RandA", Both(Blocks(x, K)),
            AShr(<<ring_rshift(FillSelf(p, 0, x, K), 2),
                   ring_rshift(FillNext(p, 0, x, K), 2)>>))

A2P(p) ==
  Rotate(p, "A2P", "a2p", NoDraw, Right(p, 1),
         LAMBDA x2, x3 : Pub(Open(p, 1) ++ x3))

P2A(p) ==
  LET x == Public(p, 1)
      zero == Fill(x, 0)
  IN  Local(p, "P2A", AShr(<<IF p = 0 THEN x ELSE zero,
                             IF p = 2 THEN x ELSE zero>>))

(* Mutant: every other party sends its second share.                       *)
A2VOfAll(p) ==
  LET owner == Par(p).owner
      next == NextRank(owner)
  IN  /\ Turn(p, "A2V", 0)
      /\ IF p = owner
         THEN Return(p, NoDraw, From(next, <<"a2v">>), Nothing,
                     <<Priv(owner, <<Open(p, 1) ++ Took(p, next, 1)>>)>>)
         ELSE Return(p, NoDraw, Nothing, To(owner, <<Msg("a2v", Right(p, 1))>>),
                     <<Priv(owner, <<>>)>>)

(* The owner asks the party after it for the share it does not have.       *)
A2V(p) ==
  LET owner == Par(p).owner
      next == NextRank(owner)
  IN  /\ Turn(p, "A2V", 0)
      /\ CASE p = owner ->
                Return(p, NoDraw, From(next, <<"a2v">>), Nothing,
                       <<Priv(owner, <<Open(p, 1) ++ Took(p, next, 1)>>)>>)
           [] p = next ->
                Return(p, NoDraw, Nothing,
                       To(PrevRank(p), <<Msg("a2v", Right(p, 1))>>),
                       <<Priv(owner, <<>>)>>)
           [] OTHER ->
                Return(p, NoDraw, Nothing, Nothing, <<Priv(owner, <<>>)>>)

(* Two of the shares are the halves of a random split, the third is zero.  *)
V2A(p) ==
  LET owner == Arg(p, 1).owner
      x == Arg(p, 1).s[1]
      s0 == FillPriv(p, 0, x, K)
      s1 == x -- s0
      got == Took(p, owner, 1)
  IN  /\ Turn(p, "V2A", 0)
      /\ CASE p = owner ->
                Return(p, Own(1), Nothing,
                       (NextRank(p) :> <<Msg("v2a", s1)>>) @@
                       (PrevRank(p) :> <<Msg("v2a", s0)>>),
                       <<AShr(<<s0, s1>>)>>)
           [] p = NextRank(owner) ->
                Return(p, NoDraw, From(owner, <<"v2a">>), Nothing,
                       <<AShr(<<got, Fill(got, 0)>>)>>)
           [] OTHER ->
                Return(p, NoDraw, From(owner, <<"v2a">>), Nothing,
                       <<AShr(<<Fill(got, 0), got>>)>>)

NegateA(p) == Local(p, "NegateA", AShr(Halves(p, LAMBDA h : ring_neg(h))))
LShiftA(p) ==
  Local(p, "LShiftA", AShr(Halves(p, LAMBDA h : ring_lshift(h, Par(p).bits))))

(* A public value goes into the share the parties 0 and 1 have in common.  *)
Adjusted(p, z) ==
  <<IF p = 1 THEN Left(p, 1) ++ z ELSE Left(p, 1),
    IF p = 0 THEN Right(p, 1) ++ z ELSE Right(p, 1)>>
AddAP(p) == Local(p, "AddAP", AShr(Adjusted(p, Public(p, 2))))
AddAA(p) ==
  Local(p, "AddAA", AShr(<<Left(p, 1) ++ Left(p, 2),
                           Right(p, 1) ++ Right(p, 2)>>))
MulAP(p) == Local(p, "MulAP", AShr(Halves(p, LAMBDA h : h ** Public(p, 2))))

(* The products a party can form of the halves it has, masked by a zero    *)
(* share, are its share of the product.                                    *)
Mask(p, x) == FillSelf(p, 0, x, K) -- FillNext(p, 0, x, K)
MulAA(p) ==
  LET z == Left(p, 1) ** Left(p, 2) ++ Left(p, 1) ** Right(p, 2)
             ++ Right(p, 1) ** Left(p, 2) ++ Mask(p, Left(p, 1))
  IN  Rotate(p, "MulAA", "mulaa", Both(Blocks(Left(p, 1), K)), z,
             LAMBDA z1, z2 : AShr(<<z1, z2>>))

Mmul(p, x, y) == ring_mmul(x, y, Par(p).m, Par(p).k, Par(p).n)
MatMulAP(p) ==
  Local(p, "MatMulAP", AShr(Halves(p, LAMBDA h : Mmul(p, h, Public(p, 2)))))
MatMulAA(p) ==
  LET t == Mmul(p, Left(p, 1), Open(p, 2)) ++ Mmul(p, Right(p, 1), Left(p, 2))
  IN  Rotate(p, "MatMulAA", "matmul", Both(Blocks(t, K)), t ++ Mask(p, t),
             LAMBDA z1, z2 : AShr(<<z1, z2>>))

-----------------------------------------------------------------------------
(* ot.cc: the sender masks two messages; the helper, the party after it,   *)
(* has the masks too and gives the receiver the one of its choice.         *)
send(m0, m1, w0, w1) == <<Msg("m0", m0 ## w0), Msg("m1", m1 ## w1)>>
help(choices, w0, w1) == <<Msg("wc", ring_select(choices, w0, w1))>>
recv(p, choices, sender, helper) ==
  ring_select(choices, Took(p, sender, 1), Took(p, sender, 2))
    ## Took(p, helper, 1)

(* What the sender of v offers for the choices 0 and 1, less two masks.    *)
lsb(x) == ring_cast_boolean(x)
a1b_offline(p, v, c1, c2, w0, w1) ==
  LET m(i) == (Fill(v, i) ## lsb(Left(p, 2)) ## lsb(Right(p, 2))) ** v -- c1 -- c2
  IN  send(m(0), m(1), w0, w1)

(* An arithmetic share by a shared bit: two oblivious transfers side by    *)
(* side, one from party 0 with its second share, one from party 2 with the *)
(* sum of its shares; the receiver gives the helper what it learns.        *)
MulA1B(p) ==
  LET a == Right(p, 1)
      n == Blocks(a, K)
      self(i) == FillSelf(p, i * n, a, K)
      next(i) == FillNext(p, i * n, a, K)
      offers(v, c1, c2, w0, w1) == a1b_offline(p, v, c1, c2, w0, w1)
      chosen(w0, w1) == help(lsb(Right(p, 2)), w0, w1)
      learnt(sender, helper) == recv(p, lsb(Left(p, 2)), sender, helper)
  IN
  CASE p = 0 ->
       \/ /\ Turn(p, "MulA1B", 0)
          /\ Pass(p, First(4 * n) \uplus Second(3 * n), Nothing,
                  (2 :> offers(a, self(0), next(0), next(1), next(2))) @@
                  (1 :> chosen(self(2), self(3))),
                  <<self(0) ++ self(1), next(0)>>)
       \/ /\ Turn(p, "MulA1B", 1)
          /\ Return(p, NoDraw, From(1, <<"ABY3-MUL-R2C1">>), Nothing,
                    <<AShr(<<kept[p][1], kept[p][2] ++ Took(p, 1, 1)>>)>>)
    [] p = 1 ->
       \/ /\ Turn(p, "MulA1B", 0)
          /\ Pass(p, First(3 * n) \uplus Second(n), Nothing,
                  To(2, chosen(self(1), self(2))), <<self(0), next(0)>>)
       \/ /\ Turn(p, "MulA1B", 1)
          /\ Arrived(p, (2 :> <<"m0", "m1">>) @@ (0 :> <<"wc">>))
          /\ Pass(p, NoDraw, (2 :> <<"m0", "m1">>) @@ (0 :> <<"wc">>),
                  To(0, <<Msg("ABY3-MUL-R2C1", learnt(2, 0))>>),
                  <<kept[p][1] ++ learnt(2, 0), kept[p][2]>>)
       \/ /\ Turn(p, "MulA1B", 2)
          /\ Return(p, NoDraw, From(2, <<"ABY3-MUL-R1C1">>), Nothing,
                    <<AShr(<<kept[p][1], kept[p][2] ++ Took(p, 2, 1)>>)>>)
    [] OTHER ->
       \/ /\ Turn(p, "MulA1B", 0)
          /\ Pass(p, First(n) \uplus Second(4 * n), Nothing,
                  To(1, offers(Open(p, 1), self(0), next(1), next(2), next(3))),
                  <<self(0), next(0) ++ next(1)>>)
       \/ /\ Turn(p, "MulA1B", 1)
          /\ Arrived(p, (0 :> <<"m0", "m1">>) @@ (1 :> <<"wc">>))
          /\ Return(p, NoDraw, (0 :> <<"m0", "m1">>) @@ (1 :> <<"wc">>),
                    To(1, <<Msg("ABY3-MUL-R1C1", learnt(0, 1))>>),
                    <<AShr(<<learnt(0, 1) ++ kept[p][1], kept[p][2]>>)>>)

-----------------------------------------------------------------------------
(* The truncations.  P0 and P1, by a public word, add up the shares to two *)
(* summands of the value; in the end they mask the summands of the result  *)
(* by words they have in common with P2 and exchange the differences.      *)
Role(p) == (p - Pivot(p)) % 3
(* Mutant: both parties put the mask first.                                *)
ResharedAlike(kind, mask, mine, theirs) == AShr(<<mask, mine ++ theirs>>)
Reshared(kind, mask, mine, theirs) ==
  AShr(IF kind = 0 THEN <<mask, mine ++ theirs>> ELSE <<mine ++ theirs, mask>>)

TruncA(p) ==
  LET bits == Par(p).bits
      n == Blocks(Left(p, 1), K)
      r0 == FillSelf(p, 0, Left(p, 1), K)
      r1 == FillNext(p, 0, Left(p, 1), K)
      z1 == ring_arshift(Open(p, 1), bits) -- r1
  IN  /\ Turn(p, "TruncA", 0)
      /\ CASE p = 0 ->
                Return(p, Both(n), From(1, <<"trunc">>), Nothing,
                       <<AShr(<<ring_arshift(Left(p, 1), bits), Took(p, 1, 1)>>)>>)
           [] p = 1 ->
                Return(p, Both(n), Nothing, To(0, <<Msg("trunc", z1)>>),
                       <<AShr(<<z1, r1>>)>>)
           [] OTHER ->
                Return(p, Both(n), Nothing, Nothing,
                       <<AShr(<<r0, ring_arshift(Right(p, 1), bits)>>)>>)

(* PrivateMul: the product of a word of P0 and one of P1, shared by them,   *)
(* with the help of P2 who knows both their masks.  Each finds its factor, *)
(* and its summand of the result when it has its share of the product.     *)
Halved(r) == <<SubSeq(r, 1, Len(r) \div 2),
               SubSeq(r, Len(r) \div 2 + 1, Len(r))>>
ByProduct(p, op, w, Factor(_, _), Summand(_, _, _)) ==
  LET role == Role(p)
      before == PrevRank(p)
      after == NextRank(p)
      x == IF role = 0 THEN Open(p, 1) ELSE Right(p, 1)
      n == Blocks(x, K)
      n2 == Blocks(x \o x, w)
      mine == Halved(FillSelf(p, 0, x \o x, w))
      nexts == Halved(FillNext(p, 0, x \o x, w))
      Reshare(draw, waits, q, k, product, mask) ==
        LET t == Summand(k.role, k.x, Cast(product, w)) -- mask
        IN  Pass(p, draw, waits, To(q, <<Msg("2to3", t)>>),
                 [role |-> k.role, t |-> t, mask |-> mask])
  IN
  \/ Turn(p, op, 0) /\
     CASE role = 0 ->
            LET f == Factor(0, x) IN
            Pass(p, Publ(1) \uplus First(n2), Nothing,
                 To(after, <<Msg("x_plus_a", Cast(f ++ mine[1], w))>>),
                 [role |-> 0, x |-> x, f |-> f, c |-> mine[2]])
       [] role = 1 ->
            Pass(p, Publ(1) \uplus Second(n2), Nothing,
                 To(before, <<Msg("y_plus_b", Cast(Factor(1, x) ++ nexts[1], w))>>),
                 [role |-> 1, x |-> x, b |-> nexts[1], c |-> nexts[2]])
       [] OTHER ->
            Return(p, Publ(1) \uplus Both(n2) \uplus Both(n), Nothing,
                   To(before, <<Msg("adjusted_c1",
                     Cast(nexts[1] ** mine[1] -- nexts[2] -- mine[2], w))>>),
                   <<AShr(<<FillSelf(p, n2, x, K), FillNext(p, n2, x, K)>>)>>)
  \/ Turn(p, op, 1) /\
     LET k == kept[p] IN
     IF k.role = 0
     THEN /\ Arrived(p, From(after, <<"y_plus_b">>))
          /\ Reshare(First(n), From(after, <<"y_plus_b">>), after, k,
                     k.f ** Took(p, after, 1) ++ k.c, FillSelf(p, 0, x, K))
     ELSE LET waits == (after :> <<"adjusted_c1">>) @@ (before :> <<"x_plus_a">>)
          IN  /\ Arrived(p, waits)
              /\ Reshare(Second(n), waits, before, k,
                         (k.c ++ Took(p, after, 1)) -- k.b ** Took(p, before, 1),
                         FillNext(p, 0, x, K))
  \/ Turn(p, op, 2) /\
     LET q == IF kept[p].role = 0 THEN after ELSE before
     IN  Return(p, NoDraw, From(q, <<"2to3">>), Nothing,
                <<Reshared(kept[p].role, kept[p].mask, kept[p].t, Took(p, q, 1))>>)

(* The sign is known: the two summands wrap around, after the value is     *)
(* moved by half the ring, as their highest bits say.                      *)
TruncPrWithMsbKnown(p) ==
  LET bits == Par(p).bits
      positive == Par(p).sign = "Positive"
      flip(role, x) == IF role = 0 THEN x ++ Fill(x, Pow2[K - 1]) ELSE x
      Factor(role, x) ==
        LET msb == ring_rshift(flip(role, x), K - 1)
        IN  IF positive THEN msb ELSE Fill(x, 1) -- msb
      Wrap(role, m) == IF positive THEN m ELSE
                       IF role = 0 THEN Fill(m, 1) -- m ELSE ring_neg(m)
  IN  ByProduct(p, "TruncPrWithMsbKnown", getTruncField(bits), Factor,
        LAMBDA role, x, m :
          ring_rshift(flip(role, x), bits)
            -- ring_lshift(Cast(Wrap(role, m), getTruncField(bits)), K - bits)
            -- Fill(x, IF role = 0 THEN Pow2[K - bits - 1] ELSE 0))

(* computeMW: how often the two summands of a value of less than a quarter *)
(* of the ring wrap around.                                                *)
L_4 == Pow2[K - 2]
TruncAPr2(p) ==
  LET bits == Par(p).bits
      AtLeast(x, v) == [i \in DOMAIN x |-> IF x[i] >= v THEN 1 ELSE 0]
      Factor(role, x) ==
        IF role = 0 THEN AtLeast(x -- Fill(x, L_4), 2 * L_4)
                    ELSE AtLeast(x, 2 * L_4)
      MW(role, x, m) == IF role = 0 THEN m ++ AtLeast(x, L_4) ELSE m
  IN  ByProduct(p, "TruncAPr2", getTruncField(bits), Factor,
        LAMBDA role, x, m :
          ring_rshift(x, bits)
            -- ring_lshift(Cast(MW(role, x, m), getTruncField(bits)), K - bits)
            ++ Fill(x, IF role = 0 THEN 1 ELSE 0))

(* P0 and P1 open the value masked by a word r that P2 knows; P2 has given *)
(* them its highest bit and its other bits without the truncated ones.     *)
TruncAPr(p) ==
  LET bits == Par(p).bits
      role == Role(p)
      before == PrevRank(p)
      after == NextRank(p)
      like == Left(p, 1)
      n == Blocks(like, K)
      Kept(x) == ring_rshift(ring_lshift(x, 1), bits + 1)
      (* what P2 sends: the bit of r and the rest, of its random summands  *)
      noise == FillPriv(p, 0, like \o like, K)
      r == FillSelf(p, 0, like, K) ++ FillNext(p, 0, like, K)
      y(k, c, cr) ==
        LET rb == Halved(cr)[1]
            top == ring_rshift(c, K - 1)
            b == IF k = 0 THEN (rb ++ top) -- Fill(rb, 2) ** top ** rb
                          ELSE rb -- Fill(rb, 2) ** top ** rb
            t == ring_lshift(b, K - 1 - bits) -- Halved(cr)[2]
        IN  IF k = 0 THEN Kept(c) ++ t -- Fill(t, Pow2[K - 2 - bits]) ELSE t
  IN
  \/ Turn(p, "TruncAPr", 0) /\
     CASE role = 0 ->
            LET x == Open(p, 1) ++ Fill(like, L_4) ++ FillSelf(p, 0, like, K)
            IN  Pass(p, Publ(1) \uplus First(n), Nothing, To(after, <<Msg("_", x)>>),
                     [role |-> 0, x |-> x])
       [] role = 1 ->
            LET x == Right(p, 1) ++ FillNext(p, 0, like, K)
            IN  Pass(p, Publ(1) \uplus Second(n), Nothing, To(before, <<Msg("_", x)>>),
                     [role |-> 1, x |-> x])
       [] OTHER ->
            Return(p, Publ(1) \uplus Both(2 * n) \uplus Own(Blocks(noise, K)), Nothing,
                   (after :> <<Msg("cr0",
                      noise ++ (ring_rshift(r, K - 1) \o Kept(r)))>>) @@
                   (before :> <<Msg("cr1", ring_neg(noise))>>),
                   <<AShr(<<FillSelf(p, n, like, K), FillNext(p, n, like, K)>>)>>)
  \/ Turn(p, "TruncAPr", 1) /\
     LET k == kept[p]
         peer == IF k.role = 0 THEN after ELSE before
         dealer == IF k.role = 0 THEN before ELSE after
         waits == (peer :> <<"_">>) @@
                  (dealer :> <<IF k.role = 0 THEN "cr0" ELSE "cr1">>)
         mask == IF k.role = 0 THEN FillSelf(p, 0, like, K)
                               ELSE FillNext(p, 0, like, K)
         t == y(k.role, k.x ++ Took(p, peer, 1), Took(p, dealer, 1)) -- mask
     IN  /\ Arrived(p, waits)
         /\ Pass(p, IF k.role = 0 THEN First(n) ELSE Second(n), waits,
                 To(peer, <<Msg("2to3", t)>>),
                 [role |-> k.role, mask |-> mask, t |-> t])
  \/ Turn(p, "TruncAPr", 2) /\
     LET peer == IF kept[p].role = 0 THEN after ELSE before
     IN  Return(p, NoDraw, From(peer, <<"2to3">>), Nothing,
                <<Reshared(kept[p].role, kept[p].mask, kept[p].t,
                           Took(p, peer, 1))>>)

-----------------------------------------------------------------------------
(* permute.cc.  A shared permutation is three, of which party p has p and  *)
(* p + 1: an array goes through them one after the other.                  *)
PShr(s) == [type |-> "M", s |-> s]

RandPermM(p) ==
  LET x == [i \in 1 .. Par(p).numel |-> 0]
  IN  Alone(p, "RandPermM", Both(Blocks(x, K)),
            PShr(<<Order(SelfSeed(p), drawn[p].self, x),
                   Order(SelfSeed(NextRank(p)), drawn[p].next, x)>>))

PermAP(p) ==
  Local(p, "PermAP", AShr(Halves(p, LAMBDA h : applyPerm(h, Public(p, 2)))))
InvPermAP(p) ==
  Local(p, "InvPermAP", AShr(Halves(p, LAMBDA h : applyInvPerm(h, Public(p, 2)))))

(* Forwards party 0 takes the sum of its shares through its two            *)
(* permutations, masked, for party 2 to take it through the last; party 1  *)
(* does the others with the share of party 2.  Backwards the parties 0 and *)
(* 1 and the halves change places.                                         *)
Through(p, op, forward, Along(_, _)) ==
  LET dealer == IF forward THEN 0 ELSE 1
      middle == 1 - dealer
      n == Blocks(Left(p, 1), K)
      half(h, i) == IF forward THEN h[i] ELSE h[3 - i]
      perm(i) == half(Arg(p, 2).s, i)
      mask(before, i) == half(<<FillSelf(p, before, Left(p, 1), K),
                                FillNext(p, before, Left(p, 1), K)>>, i)
      draw(i) == half(<<First(n), Second(n)>>, i)
      out(i, r, t) == AShr(half(<<<<r, t>>, <<t, r>>>>, i))
  IN
  CASE p = dealer ->
       LET tmp == Along(Open(p, 1), perm(1)) -- mask(0, 1)
       IN  /\ Turn(p, op, 0)
           /\ Return(p, Both(2 * n), Nothing,
                     To(2, <<Msg("delta", Along(tmp, perm(2)) -- mask(0, 2))>>),
                     <<AShr(<<FillSelf(p, n, tmp, K), FillNext(p, n, tmp, K)>>)>>)
    [] p = middle ->
       \/ /\ Turn(p, op, 0)
          /\ Arrived(p, From(2, <<"gama">>))
          /\ LET r == mask(n, 1)
                 tmp == Along(Took(p, 2, 1), perm(1)) ++ mask(0, 1)
                 beta == Along(tmp, perm(2)) -- r
             IN  Pass(p, Both(n) \uplus draw(1), From(2, <<"gama">>),
                      To(2, <<Msg("2to3", beta)>>), [r |-> r, beta |-> beta])
       \/ /\ Turn(p, op, 1)
          /\ Return(p, NoDraw, From(2, <<"2to3">>), Nothing,
                    <<out(1, kept[p].r, kept[p].beta ++ Took(p, 2, 1))>>)
    [] OTHER ->
       \/ /\ Turn(p, op, 0)
          /\ Pass(p, Both(n), Nothing,
                  To(middle, <<Msg("gama",
                    Along(half(Arg(p, 1).s, 1), perm(2)) ++ mask(0, 2))>>), Nothing)
       \/ /\ Turn(p, op, 1)
          /\ Arrived(p, From(dealer, <<"delta">>))
          /\ LET r == mask(0, 2)
                 beta == Along(Took(p, dealer, 1), perm(1)) -- r
             IN  Pass(p, draw(2), From(dealer, <<"delta">>),
                      To(middle, <<Msg("2to3", beta)>>), [r |-> r, beta |-> beta])
       \/ /\ Turn(p, op, 2)
          /\ Return(p, NoDraw, From(middle, <<"2to3">>), Nothing,
                    <<out(2, kept[p].r, kept[p].beta ++ Took(p, middle, 1))>>)

PermAM(p) == Through(p, "PermAM", TRUE, applyPerm)
InvPermAM(p) == Through(p, "InvPermAM", FALSE, applyInvPerm)

Arithmetic(p) ==
  \/ RandA(p) \/ A2P(p) \/ P2A(p) \/ A2V(p) \/ V2A(p) \/ NegateA(p)
  \/ AddAP(p) \/ AddAA(p) \/ MulAP(p) \/ MulAA(p) \/ MulA1B(p)
  \/ MatMulAP(p) \/ MatMulAA(p) \/ LShiftA(p) \/ TruncA(p) \/ TruncAPr(p)
  \/ TruncAPr2(p) \/ TruncPrWithMsbKnown(p)
  \/ RandPermM(p) \/ PermAP(p) \/ InvPermAP(p) \/ PermAM(p) \/ InvPermAM(p)
=============================================================================
