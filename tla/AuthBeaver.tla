----------------------------- MODULE AuthBeaver -----------------------------
(***************************************************************************)
(* Authenticated words of spdz2k.  A value is shared in a ring of twice as *)
(* many bits as it has, with shares of its product by a key of which every *)
(* party has a share, and nobody the whole.  BeaverTfpUnsafe deals them    *)
(* (mpc/spdz2k/beaver): each party draws its arrays from its own seed, the *)
(* first party replays all seeds (TrustedParty) and fits its own arrays.   *)
(* Values are opened under a mask of their upper half, and what has been   *)
(* opened is checked against the shares of its product by the key.         *)
(***************************************************************************)
EXTENDS Parties

Long == 2 * K     \* the bits of the runtime field
S == K            \* the statistical security parameter

ring_add(x, y) == [i \in DOMAIN x |-> (x[i] + y[i]) % Pow2[Long]]
ring_sub(x, y) == [i \in DOMAIN x |-> (x[i] - y[i]) % Pow2[Long]]
ring_mul(x, y) == [i \in DOMAIN x |-> (x[i] * y[i]) % Pow2[Long]]
TimesKey(x, key) == [i \in DOMAIN x |-> (x[i] * key) % Pow2[Long]]
ShiftUp(x, n) == [i \in DOMAIN x |-> (x[i] * Pow2[n]) % Pow2[Long]]

(* Shares with the shares of their products by the key (makeAShare), and   *)
(* without (hasMac); the two in a kernel's hands; what has been opened.    *)
AuthShr(x, mac) == [type |-> "A", s |-> <<x>>, mac |-> mac, auth |-> TRUE]
Unauthed(x) == [type |-> "A", s |-> <<x>>, mac |-> Fill(x, 0), auth |-> FALSE]
Pair(x, mac) == [type |-> "Pair", s |-> <<x>>, mac |-> mac]
Opened(x, mac) == [type |-> "Opened", s |-> <<x>>, mac |-> mac]
Val(p, i) == Arg(p, i).s[1]
Mac(p, i) == Arg(p, i).mac

-----------------------------------------------------------------------------
(* trusted_party.cc: a party's array like x after as many blocks, and the  *)
(* first party's, which makes all of them add up to v.                     *)
Dealt(p, before, x) ==
  Words(BeaverSeed(p), 1 + drawn[p].beaver + before, x, Long)
Fitted(p, before, v) ==
  IF p # 0 THEN Dealt(p, before, v)
  ELSE FoldSet(LAMBDA q, t : ring_sub(t, Words(BeaverSeed(q),
                 1 + drawn[0].beaver + before, v, Long)), v, Others(0))
Whole(p, before, x) ==
  FoldSet(LAMBDA q, t : ring_add(t, Words(BeaverSeed(q),
            1 + drawn[p].beaver + before, x, Long)), Dealt(p, before, x), Others(p))

(* InitSpdzKey: the key has S bits, the shares all.                        *)
GlobalKey == Word(PrivSeed(0), 0, 1, S)
Key(p) ==
  LET a(q) == Word(BeaverSeed(q), 0, 1, Long)
  IN  IF p # 0 THEN a(p)
      ELSE (GlobalKey - MapThenSumSet(a, Others(0))) % Pow2[Long]

(* A value that only the dealer has, and its product by the key, as shares *)
(* of two arrays drawn after as many blocks.                               *)
N(x) == Blocks(x, Long)
Authed(p, before, v) ==
  Pair(Fitted(p, before, v), Fitted(p, before + N(v), TimesKey(v, GlobalKey)))

(* The dealer's own words: adjustAuthCoinTossing, of K bits, and           *)
(* adjustAuthRandBit, of one.                                              *)
Chosen(p, before, x, w) == Words(PrivSeed(0), drawn[p].beaver + before, x, w)
AuthCoinTossing(p, before, x) == Authed(p, before, Chosen(p, before, x, K))
AuthRandBit(p, x) == Authed(p, 0, Chosen(p, 0, x, 1))

(* AuthMul and AuthAnd, AuthDot for matrices: two masks and their product, *)
(* then the shares of their products by the key.                           *)
Mmul(p, x, y) == Matrix(x, y, Par(p).m, Par(p).k, Par(p).n, Long)
Times(p, x, y) == IF "k" \in DOMAIN Par(p) THEN Mmul(p, x, y) ELSE ring_mul(x, y)
AuthTriple(p, x, y) ==
  LET a == Whole(p, 0, x)
      b == Whole(p, N(x), y)
      c == Times(p, a, b)
      n == N(x) + N(y) + N(c)
      mac(before, v) == Fitted(p, n + before, TimesKey(v, GlobalKey))
  IN  [a |-> Pair(Dealt(p, 0, x), mac(0, a)),
       b |-> Pair(Dealt(p, N(x), y), mac(N(x), b)),
       c |-> Pair(Fitted(p, N(x) + N(y), c), mac(N(x) + N(y), c)),
       n |-> 2 * n]

(* AuthTrunc: a word of K bits and what is left of it when it is shifted.  *)
TruncOf(x, bits) == ring_arshift(Cast(x, K), bits)
AuthTrunc(p, x, bits) ==
  LET r == Cast(Whole(p, 0, x), K)
      rb == TruncOf(r, bits)
      share(i, v) == Fitted(p, i * N(x), v)
  IN  [r |-> Pair(share(0, r), share(2, TimesKey(r, GlobalKey))),
       rb |-> Pair(share(1, rb), share(3, TimesKey(rb, GlobalKey))),
       n |-> 4 * N(x)]

-----------------------------------------------------------------------------
(* beaver_tfp.cc                                                           *)

(* AuthArrayRef: shares of the product of x by the key, made from those of *)
(* a random word: the first party, who has the key, gets the difference.   *)
AuthArrayRef(p, op, x, Result(_)) ==
  LET r == AuthCoinTossing(p, 0, x)
  IN  GatherWith(p, op, "auth_arrayref", Beaver(2 * N(x)), 0,
                 ring_sub(x, r.s[1]), ring_add,
                 LAMBDA xr : Result(IF p = 0
                   THEN ring_add(r.mac, TimesKey(xr, GlobalKey)) ELSE r.mac))

(* BatchOpen: the lowest bits of x, the others under a mask.               *)
BatchOpen(p, x, mac, bits) ==
  LET r == AuthCoinTossing(p, 0, x)
  IN  AllReduce(p, "BatchOpen", "batch_open", Beaver(2 * N(x)),
                ring_add(x, ShiftUp(r.s[1], bits)),
                ring_add(mac, ShiftUp(r.mac, bits)), ring_add,
                LAMBDA m, open : <<Opened(open, m)>>)

(* commit_and_open: everyone commits itself to what it has before anyone   *)
(* shows it; what is shown must be what it committed itself to.            *)
Commit(p, x) == ToAll(p, <<Msg("COMMITMENT::COMMIT", [hash |-> x])>>)
Show(p, x) == ToAll(p, <<Msg("COMMITMENT::OPEN", x)>>)
Commits(p) == FromAll(p, <<"COMMITMENT::COMMIT">>)
Opens(p) == FromAll(p, <<"COMMITMENT::OPEN">>)
AllOf(p) == [q \in Others(p) |-> Took(p, q, 1)]
AsCommitted(p, commits) == \A q \in Others(p) : commits[q] = [hash |-> Took(p, q, 1)]
Sum(x, all) == (x + MapThenSumSet(LAMBDA q : all[q], DOMAIN all)) % Pow2[Long]

(* BatchMacCheck: one random combination of all that was opened, with      *)
(* coefficients that everyone has a part in (genPublCoin), less that of    *)
(* the shares of the products: the parties' differences must add up to     *)
(* zero in the bits that were opened and S more.                           *)
Coin(p) == Word(PrivSeed(p), at[p], 3, Long)
Combined(x, coin) ==
  MapThenSumSet(LAMBDA i : x[i] * Word(coin, 0, i, S), DOMAIN x) % Pow2[Long]
Residue(p, i, coin) ==
  (Combined(Mac(p, i), coin) - Combined(Val(p, i), coin) * Key(p)) % Pow2[Long]
BatchMacCheck(p) ==
  \/ /\ Turn(p, "BatchMacCheck", 0)
     /\ Pass(p, NoDraw, Nothing, Commit(p, Coin(p)), Nothing)
  \/ /\ Turn(p, "BatchMacCheck", 1) /\ Arrived(p, Commits(p))
     /\ Pass(p, NoDraw, Commits(p), Show(p, Coin(p)), AllOf(p))
  \/ /\ Turn(p, "BatchMacCheck", 2) /\ Arrived(p, Opens(p))
     /\ AsCommitted(p, kept[p])
     /\ LET z1 == Residue(p, 1, Sum(Coin(p), AllOf(p)))
        IN  Pass(p, NoDraw, Opens(p), Commit(p, z1), z1)
  \/ /\ Turn(p, "BatchMacCheck", 3) /\ Arrived(p, Commits(p))
     /\ Pass(p, NoDraw, Commits(p), Show(p, kept[p]), [z |-> kept[p], of |-> AllOf(p)])
  \/ /\ Turn(p, "BatchMacCheck", 4) /\ Arrived(p, Opens(p))
     /\ AsCommitted(p, kept[p].of)
     /\ Sum(kept[p].z, AllOf(p)) % Pow2[Min({Par(p).bits + S, Long})] = 0
     /\ Return(p, NoDraw, Opens(p), Nothing, Nothing)
=============================================================================
