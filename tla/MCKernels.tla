----------------------------- MODULE MCKernels -----------------------------
EXTENDS Kernels

(* Every value of the ring, and sixteen pairs of values.                   *)
X == [i \in 1 .. 16 |-> i - 1]
Y == [i \in 1 .. 16 |-> (7 * i + 2) % 16]
Small == [i \in 1 .. 16 |-> (i - 5) % 16]     \* of less than a quarter
Eight == [i \in 1 .. 16 |-> i % 8]
Quarter == [i \in 1 .. 8 |-> (i - 5) % 16]
Four == <<12, 14, 0, 3>>
Corners == <<0, 7, 8, 15>>
Lows == <<0, 1, 2, 3, 4, 5, 6, 7>>
Highs == <<7, 1, 15, 0, 4, 12, 9, 8>>
Positives == [i \in 1 .. 8 |-> i - 1]
Negatives == [i \in 1 .. 8 |-> 16 - i]
BitsOf(x) == [i \in DOMAIN x |-> (x[i] \div 2) % 2]
Places == [i \in 1 .. 16 |-> (5 * i + 3) % 16]

A(x) == [type |-> "A", x |-> x]
B(n, x) == [type |-> "B", nbits |-> n, x |-> x]
P(x) == [type |-> "P", x |-> x]
V(p, x) == [type |-> "V", owner |-> p, x |-> x]
Do(op, par, args) == [op |-> op, par |-> par, args |-> args]
Aby3(inputs, calls) ==
  [protocol |-> "aby3", world |-> 3, inputs |-> inputs, calls |-> calls]
Semi2k(n, inputs, calls) ==
  [protocol |-> "semi2k", world |-> n, inputs |-> inputs, calls |-> calls]

Aby3Programs ==
  { Aby3(<<A(X), A(Y), P(Y)>>,
      << Do("MulAA", NoPar, <<1, 2>>), Do("NegateA", NoPar, <<4>>),
         Do("AddAA", NoPar, <<5, 2>>), Do("AddAP", NoPar, <<6, 3>>),
         Do("MulAP", NoPar, <<7, 3>>), Do("LShiftA", By(1), <<8>>),
         Do("A2P", NoPar, <<9>>), Do("P2A", NoPar, <<10>>),
         Do("MulAA", NoPar, <<11, 1>>) >>),
    Aby3(<<A(X), A(Y), P(Y)>>,
      << Do("MatMulAP", [m |-> 4, k |-> 4, n |-> 4], <<1, 3>>),
         Do("MatMulAA", [m |-> 4, k |-> 4, n |-> 4], <<4, 2>>),
         Do("A2P", NoPar, <<5>>) >>),
    Aby3(<<A(X), B(1, BitsOf(X)), B(2, [i \in 1 .. 16 |-> i % 4])>>,
      << Do("MulA1B", NoPar, <<1, 2>>), Do("B2A", [nbits |-> 2], <<3>>),
         Do("MulAA", NoPar, <<4, 5>>) >>),
    Aby3(<<A(X), P(Places), A(Y)>>,
      << Do("RandPermM", [numel |-> 16], <<>>), Do("PermAM", NoPar, <<1, 4>>),
         Do("InvPermAM", NoPar, <<5, 4>>), Do("PermAP", NoPar, <<6, 2>>),
         Do("InvPermAP", NoPar, <<7, 2>>), Do("AddAA", NoPar, <<8, 3>>) >>),
    Aby3(<<B(4, X), B(2, [i \in 1 .. 16 |-> i % 4]), P(Y)>>,
      << Do("AndBB", NoPar, <<1, 2>>), Do("XorBB", NoPar, <<4, 1>>),
         Do("AndBP", NoPar, <<5, 3>>), Do("XorBP", NoPar, <<6, 3>>),
         Do("LShiftB", By(1), <<2>>), Do("RShiftB", By(1), <<8>>),
         Do("BitrevB", [start |-> 0, end |-> 3], <<9>>),
         Do("ARShiftB", By(1), <<7>>),
         Do("BitDeintlB", [stride |-> 0, nbits |-> 4], <<11>>),
         Do("BitIntlB", [stride |-> 0, nbits |-> 4], <<12>>),
         Do("XorBB", NoPar, <<13, 10>>), Do("B2P", NoPar, <<14>>),
         Do("P2B", NoPar, <<15>>), Do("CastTypeB", [nbits |-> 4], <<16>>) >>),
    Aby3(<<B(2, BitsOf(Y)), P(Y)>>,
      << Do("RShiftB", By(2), <<1>>), Do("B2A", [nbits |-> 0], <<3>>),
         Do("AddAP", NoPar, <<4, 2>>) >>),
    Aby3(<<A(X)>>, << Do("A2B", NoPar, <<1>>), Do("B2A", [nbits |-> 4], <<2>>) >>),
    Aby3(<<B(4, X), B(4, Y)>>,
      << Do("AddBB", [circuit |-> "Sklansky"], <<1, 2>>),
         Do("AddBB", [circuit |-> "KoggeStone"], <<3, 2>>) >>),
    Aby3(<<A(X)>>, << Do("MsbA2B", NoPar, <<1>>) >>),
    Aby3(<<A(X), A(Y)>>, << Do("EqualAA", NoPar, <<1, 2>>) >>),
    Aby3(<<A(X), P(Y)>>, << Do("EqualAP", NoPar, <<1, 2>>) >>),
    Aby3(<<A(Quarter), A(Positives), A(Negatives)>>,
      << Do("RandA", [numel |-> 8], <<>>), Do("RandB", [numel |-> 8], <<>>),
         Do("TruncA", By(1), <<1>>), Do("TruncAPr", By(1), <<1>>),
         Do("TruncAPr2", By(1), <<1>>),
         Do("TruncPrWithMsbKnown", [bits |-> 1, sign |-> "Positive"], <<2>>),
         Do("TruncPrWithMsbKnown", [bits |-> 1, sign |-> "Negative"], <<3>>),
         Do("AddAA", NoPar, <<7, 8>>) >>) }
  \cup { Aby3(<<V(o, X), A(Y), B(4, Y)>>,
      << Do("V2A", NoPar, <<1>>), Do("AddAA", NoPar, <<4, 2>>),
         Do("A2V", [owner |-> (o + 1) % 3], <<5>>),
         Do("V2A", NoPar, <<6>>), Do("MulAA", NoPar, <<7, 2>>),
         Do("B2V", [owner |-> o], <<3>>) >>) : o \in 0 .. 2 }

Semi2kPrograms ==
  UNION {
  { Semi2k(n, <<A(X), A(Y), P(Y)>>,
      << Do("MulAA", NoPar, <<1, 2>>), Do("SquareA", NoPar, <<4>>),
         Do("NegateA", NoPar, <<5>>), Do("AddAA", NoPar, <<6, 2>>),
         Do("AddAP", NoPar, <<7, 3>>), Do("MulAP", NoPar, <<8, 3>>),
         Do("LShiftA", By(1), <<9>>), Do("A2P", NoPar, <<10>>),
         Do("P2A", NoPar, <<11>>), Do("MulAA", NoPar, <<12, 1>>) >>),
    Semi2k(n, <<A(X), A(Y), P(Y)>>,
      << Do("MatMulAP", [m |-> 4, k |-> 4, n |-> 4], <<1, 3>>),
         Do("MatMulAA", [m |-> 4, k |-> 4, n |-> 4], <<4, 2>>),
         Do("A2P", NoPar, <<5>>) >>),
    Semi2k(n, <<B(4, X), B(2, [i \in 1 .. 16 |-> i % 4]), P(Y)>>,
      << Do("AndBB", NoPar, <<1, 2>>), Do("XorBB", NoPar, <<4, 1>>),
         Do("AndBP", NoPar, <<5, 3>>), Do("XorBP", NoPar, <<6, 3>>),
         Do("LShiftB", By(1), <<2>>), Do("RShiftB", By(1), <<8>>),
         Do("BitrevB", [start |-> 0, end |-> 3], <<9>>),
         Do("ARShiftB", By(1), <<7>>),
         Do("BitDeintlB", [stride |-> 0, nbits |-> 4], <<11>>),
         Do("BitIntlB", [stride |-> 0, nbits |-> 4], <<12>>),
         Do("XorBB", NoPar, <<13, 10>>), Do("B2P", NoPar, <<14>>),
         Do("P2B", NoPar, <<15>>), Do("CastTypeB", [nbits |-> 4], <<16>>) >>),
    Semi2k(n, <<A(X)>>,
      << Do("A2B", NoPar, <<1>>), Do("B2A", NoPar, <<2>>),
         Do("MulAA", NoPar, <<3, 1>>) >>),
    Semi2k(n, <<B(2, BitsOf(Y)), P(Y), B(3, Eight)>>,
      << Do("RShiftB", By(2), <<1>>), Do("B2A", NoPar, <<4>>),
         Do("AddAP", NoPar, <<5, 2>>),
         Do("B2A_Disassemble", [nbits |-> 3], <<3>>) >>),
    Semi2k(n, <<A(X), A(Y), P(Y)>>,
      << Do("EqualAA", NoPar, <<1, 2>>), Do("EqualAP", NoPar, <<1, 3>>) >>),
    Semi2k(n, <<A(X), P(Places), A(Y)>>,
      << Do("RandPermM", [numel |-> 16], <<>>), Do("PermAM", NoPar, <<1, 4>>),
         Do("InvPermAM", NoPar, <<5, 4>>), Do("PermAP", NoPar, <<6, 2>>),
         Do("InvPermAP", NoPar, <<7, 2>>), Do("MulAA", NoPar, <<8, 3>>) >>),
    Semi2k(n, <<A(Quarter)>>,
      << Do("RandA", [numel |-> 8], <<>>), Do("RandB", [numel |-> 8], <<>>),
         Do("TruncA", By(1), <<1>>), Do("TruncAPr", By(1), <<1>>),
         Do("AddAA", NoPar, <<4, 5>>) >>) }
  \cup
  { Semi2k(n, <<V(o, X), A(Y), V(o, Places)>>,
      << Do("V2A", [numel |-> 16], <<1>>), Do("AddAA", NoPar, <<4, 2>>),
         Do("InvPermAV", [owner |-> o], <<5, 3>>),
         Do("A2V", [owner |-> (o + 1) % n], <<6>>),
         Do("V2A", [numel |-> 16], <<7>>), Do("MulAA", NoPar, <<8, 2>>) >>)
      : o \in 0 .. n - 1 } : n \in {2, 3} }
  \cup
  { Semi2k(2, <<A(X), B(1, BitsOf(X)), V(0, X), V(1, Y)>>,
      << Do("MulA1B", NoPar, <<1, 2>>), Do("MulVVS", [width |-> K], <<3, 4>>),
         Do("MulVVS", [width |-> K], <<4, 3>>), Do("AddAA", NoPar, <<5, 6>>) >>),
    Semi2k(2, <<A(X)>>, << Do("MsbA2B", NoPar, <<1>>) >>),
    Semi2k(2, <<A(Quarter)>>,
      << Do("TruncAPr2", By(1), <<1>>), Do("MulAA", NoPar, <<2, 1>>) >>) }

SecureNN(inputs, calls) ==
  [protocol |-> "securenn", world |-> 3, inputs |-> inputs, calls |-> calls]
FourByFour == [m |-> 4, k |-> 4, n |-> 4]
SecureNNPrograms ==
  { SecureNN(<<A(X), A(Y), P(Y)>>,
      << Do("MulAA", NoPar, <<1, 2>>), Do("NegateA", NoPar, <<4>>),
         Do("AddAA", NoPar, <<5, 2>>), Do("AddAP", NoPar, <<6, 3>>),
         Do("MulAP", NoPar, <<7, 3>>), Do("LShiftA", By(1), <<8>>),
         Do("A2P", NoPar, <<9>>), Do("P2A", NoPar, <<10>>),
         Do("MulAA", NoPar, <<11, 1>>) >>),
    SecureNN(<<A(X), A(Y), P(Y)>>,
      << Do("MatMulAP", FourByFour, <<1, 3>>), Do("MatMulAA", FourByFour, <<4, 2>>),
         Do("MatMulAA_simple", FourByFour, <<5, 1>>), Do("A2P", NoPar, <<6>>) >>),
    SecureNN(<<P(X), P([i \in 1 .. 16 |-> i % 4]), P(Y)>>,
      << Do("P2B", NoPar, <<1>>), Do("P2B", NoPar, <<2>>),
         Do("AndBB", NoPar, <<4, 5>>), Do("XorBB", NoPar, <<6, 4>>),
         Do("AndBP", NoPar, <<7, 3>>), Do("XorBP", NoPar, <<8, 3>>),
         Do("LShiftB", By(1), <<5>>), Do("RShiftB", By(1), <<10>>),
         Do("ARShiftB", By(1), <<9>>), Do("XorBB", NoPar, <<11, 12>>),
         Do("B2P", NoPar, <<13>>), Do("B2A", NoPar, <<8>>) >>),
    SecureNN(<<A(X)>>,
      << Do("A2B", NoPar, <<1>>), Do("B2A", NoPar, <<2>>),
         Do("MulAA", NoPar, <<3, 1>>) >>),
    SecureNN(<<A(Quarter)>>,
      << Do("RandA", [numel |-> 8], <<>>), Do("TruncAPr", By(1), <<1>>),
         Do("MulAA", NoPar, <<3, 1>>) >>),
    SecureNN(<<A(Four)>>, << Do("MsbA2B", [opt |-> FALSE], <<1>>) >>),
    SecureNN(<<A(Four)>>, << Do("MsbA2B", [opt |-> TRUE], <<1>>) >>) }
  \cup
  { SecureNN(<<V(o, X), A(Y)>>,
      << Do("V2A", [numel |-> 16], <<1>>), Do("AddAA", NoPar, <<3, 2>>),
         Do("A2V", [owner |-> (o + 1) % 3], <<4>>),
         Do("V2A", [numel |-> 16], <<5>>), Do("MulAA", NoPar, <<6, 2>>) >>)
      : o \in 0 .. 2 }

(* An input is authenticated by the first kernel that needs it to be.     *)
Spdz2k(n, inputs, calls) ==
  [protocol |-> "spdz2k", world |-> n, inputs |-> inputs, calls |-> calls]
Spdz2kArithmetic(n) ==
  Spdz2k(n, <<A(X), A(Y), P(Y)>>,
      << Do("MulAA", NoPar, <<1, 2>>), Do("NegateA", NoPar, <<4>>),
         Do("AddAA", NoPar, <<5, 2>>), Do("AddAP", NoPar, <<6, 3>>),
         Do("MulAP", NoPar, <<7, 3>>), Do("LShiftA", By(1), <<8>>),
         Do("A2P", NoPar, <<9>>), Do("P2A", NoPar, <<10>>),
         Do("MulAA", NoPar, <<11, 1>>) >>)
Spdz2kPrograms ==
  { Spdz2kArithmetic(n) : n \in {2, 3} }
  \cup
  { Spdz2k(2, <<A(X), A(Y), P(Y)>>,
      << Do("MatMulAP", FourByFour, <<1, 3>>), Do("MatMulAA", FourByFour, <<4, 2>>),
         Do("A2P", NoPar, <<5>>) >>),
    Spdz2k(2, <<P(X), P([i \in 1 .. 16 |-> i % 4]), P(Y)>>,
      << Do("P2B", NoPar, <<1>>), Do("P2B", NoPar, <<2>>),
         Do("AndBB", NoPar, <<4, 5>>), Do("XorBB", NoPar, <<6, 4>>),
         Do("AndBP", NoPar, <<7, 3>>), Do("XorBP", NoPar, <<8, 3>>),
         Do("LShiftB", By(1), <<5>>), Do("RShiftB", By(1), <<10>>),
         Do("BitrevB", [start |-> 0, end |-> 3], <<9>>),
         Do("ARShiftB", By(1), <<9>>), Do("ARShiftB", By(1), <<10>>),
         Do("BitDeintlB", [stride |-> 0, nbits |-> 4], <<12>>),
         Do("BitIntlB", [stride |-> 0, nbits |-> 4], <<15>>),
         Do("NotB", [nbits |-> 4], <<16>>), Do("XorBB", NoPar, <<17, 11>>),
         Do("B2P", NoPar, <<18>>) >>),
    Spdz2k(2, <<P(Lows), P(Highs), P(Quarter)>>,
      << Do("P2B", NoPar, <<1>>), Do("P2B", NoPar, <<2>>),
         Do("AddBB", [nbits |-> 4], <<4, 5>>), Do("AddBP", [nbits |-> 4], <<6, 3>>),
         Do("BitLEBB", [nbits |-> 4], <<4, 5>>),
         Do("BitLTBB", [nbits |-> 3], <<4, 4>>) >>),
    Spdz2k(2, <<A(Corners)>>,
      << Do("A2B", NoPar, <<1>>), Do("B2A", NoPar, <<2>>),
         Do("A2P", NoPar, <<3>>) >>),
    Spdz2k(2, <<A(Corners)>>,
      << Do("MsbA2B", NoPar, <<1>>), Do("B2A", NoPar, <<2>>) >>),
    Spdz2k(2, <<A(Quarter), P(Quarter)>>,
      << Do("P2A", NoPar, <<2>>), Do("AddAA", NoPar, <<3, 1>>),
         Do("TruncA", By(1), <<4>>), Do("RandA", [numel |-> 8], <<>>),
         Do("AddAA", NoPar, <<5, 6>>) >>) }
  \cup
  { Spdz2k(2, <<P(X), A(Y)>>,
      << Do("P2A", NoPar, <<1>>), Do("A2V", [owner |-> o], <<3>>),
         Do("V2A", [numel |-> 16], <<4>>), Do("AddAA", NoPar, <<5, 2>>),
         Do("A2V", [owner |-> 1 - o], <<6>>),
         Do("V2A", [numel |-> 16], <<7>>) >>) : o \in 0 .. 1 }

Swift(inputs, calls) ==
  [protocol |-> "swift", world |-> 3, inputs |-> inputs, calls |-> calls]
SwiftPrograms ==
  { Swift(<<A(X), A(Y), P(Y)>>,
      << Do("MulAA", NoPar, <<1, 2>>), Do("NegateA", NoPar, <<4>>),
         Do("AddAA", NoPar, <<5, 2>>), Do("AddAP", NoPar, <<6, 3>>),
         Do("MulAP", NoPar, <<7, 3>>), Do("LShiftA", By(1), <<8>>),
         Do("A2P", NoPar, <<9>>), Do("P2A", NoPar, <<10>>),
         Do("MulAA", NoPar, <<11, 1>>) >>),
    Swift(<<A(X), A(Y), P(Y)>>,
      << Do("MatMulAP", FourByFour, <<1, 3>>), Do("MatMulAA", FourByFour, <<4, 2>>),
         Do("A2P", NoPar, <<5>>) >>),
    Swift(<<P(X), P([i \in 1 .. 16 |-> i % 4]), P(Y)>>,
      << Do("P2B", NoPar, <<1>>), Do("P2B", NoPar, <<2>>),
         Do("AndBB", NoPar, <<4, 5>>), Do("XorBB", NoPar, <<6, 4>>),
         Do("AndBP", NoPar, <<7, 3>>), Do("XorBP", NoPar, <<8, 3>>),
         Do("LShiftB", By(1), <<5>>), Do("RShiftB", By(1), <<10>>),
         Do("BitrevB", [start |-> 0, end |-> 3], <<9>>),
         Do("ARShiftB", By(1), <<9>>),
         Do("BitDeintlB", [stride |-> 0, nbits |-> 4], <<13>>),
         Do("BitIntlB", [stride |-> 0, nbits |-> 4], <<14>>),
         Do("XorBB", NoPar, <<15, 12>>), Do("B2P", NoPar, <<16>>) >>),
    Swift(<<A(Quarter)>>,
      << Do("RandA", [numel |-> 8], <<>>), Do("AddAA", NoPar, <<2, 1>>),
         Do("A2P", NoPar, <<3>>) >>),
    Swift(<<A(Quarter)>>,
      << Do("TruncA", By(1), <<1>>), Do("MulAA", NoPar, <<2, 1>>) >>) }
  \cup
  { Swift(<<V(o, X), A(Y)>>,
      << Do("V2A", [owner |-> o, numel |-> 16], <<1>>), Do("AddAA", NoPar, <<3, 2>>),
         Do("A2V", [owner |-> (o + 1) % 3], <<4>>),
         Do("V2A", [owner |-> (o + 1) % 3, numel |-> 16], <<5>>),
         Do("MulAA", NoPar, <<6, 2>>) >>) : o \in 0 .. 2 }

SwiftA2B ==
  Swift(<<A(Corners)>>,
    << Do("A2B", NoPar, <<1>>), Do("B2A", [nbits |-> 4], <<2>>),
       Do("MulAA", NoPar, <<3, 1>>) >>)
SwiftMsb ==
  Swift(<<A(Corners), P(Corners)>>,
    << Do("MsbA2B", NoPar, <<1>>), Do("P2B", NoPar, <<2>>),
       Do("RShiftB", By(4), <<4>>), Do("B2A", [nbits |-> 0], <<5>>) >>)

(* The operations of the layers above, on operands of these kinds: pairs   *)
(* of numbers, the second as small as what is compared may be.             *)
S(x) == [type |-> "S", x |-> x]
Ref2k(inputs, calls) ==
  [protocol |-> "ref2k", world |-> 2, inputs |-> inputs, calls |-> calls]
Owner(o) == [owner |-> o]
Square == FourByFour @@ [step |-> <<4, 4, 4>>]
Blocked == FourByFour @@ [step |-> <<2, 3, 2>>]
Sign4 == [i \in 1 .. 8 |-> (5 * i) % 4]
Selector == [i \in 1 .. 8 |-> i % 2]
LowBounds == [i \in 1 .. 8 |-> (14 + (i % 2)) % 16]
HighBounds == [i \in 1 .. 8 |-> 1 + (i % 2)]

Unaries(x) ==
  << Do("_not", NoPar, <<x>>), Do("_negate", NoPar, <<x>>), Do("_msb", NoPar, <<x>>),
     Do("_square", NoPar, <<x>>), Do("_lshift", By(1), <<x>>),
     Do("_rshift", By(2), <<x>>), Do("_arshift", By(1), <<x>>),
     Do("_bitrev", [start |-> 1, end |-> 4], <<x>>) >>
BitByBit(x) ==
  << Do("_bit_parity", By(4), <<x>>), Do("_popcount", By(4), <<x>>),
     Do("_prefix_or", NoPar, <<x>>), Do("_eqz", NoPar, <<x>>),
     Do("_bitdeintl", NoPar, <<x>>) >>
Binaries(x, y) ==
  << Do("_add", NoPar, <<x, y>>), Do("_sub", NoPar, <<x, y>>), Do("_mul", NoPar, <<x, y>>),
     Do("_and", NoPar, <<x, y>>), Do("_xor", NoPar, <<x, y>>), Do("_or", NoPar, <<x, y>>) >>
Comparisons(x, y) ==
  << Do("_less", NoPar, <<x, y>>), Do("_equal", NoPar, <<x, y>>), Do("_sign", NoPar, <<x>>),
     Do("_clamp_lower", NoPar, <<x, y>>), Do("_clamp_upper", NoPar, <<x, y>>) >>
Selections(c, x, low, high) ==
  << Do("_mux", NoPar, <<c, low, high>>), Do("_clamp", NoPar, <<x, low, high>>) >>

(* Public values, private ones of either party and secrets of the          *)
(* reference; the seventh to tenth values are of party 0, 0, 1 and 1.      *)
Kinds == << Do("p2v", Owner(0), <<1>>), Do("p2v", Owner(0), <<2>>),
            Do("p2v", Owner(1), <<1>>), Do("p2v", Owner(1), <<2>>) >>
Ref2kInputs(x, y, z) == << P(x), P(y), P(z), S(x), S(y), S(z) >>
Ref2kPairs == {<<1, 2>>, <<4, 5>>, <<4, 2>>, <<1, 5>>, <<7, 8>>, <<7, 10>>, <<7, 2>>,
               <<1, 8>>, <<4, 8>>, <<7, 5>>}
Ref2kPrograms ==
  { Ref2k(Ref2kInputs(X, Y, Y), Kinds \o Binaries(pair[1], pair[2])
            \o << Do("_mmul", Square, pair), Do("_mmul", Blocked, pair) >>) : pair \in Ref2kPairs }
  \cup
  { Ref2k(Ref2kInputs(Quarter, Sign4, LowBounds),
          Kinds \o Comparisons(pair[1], pair[2])) : pair \in Ref2kPairs }
  \cup
  { Ref2k(Ref2kInputs(X, Y, Y), Kinds \o Unaries(x) \o BitByBit(x)
            \o << Do("_trunc", By(1), <<x>>) >>) : x \in {1, 4, 7} }
  \cup
  { Ref2k(<<P(Selector), P(Quarter), P(LowBounds), P(HighBounds)>>, Selections(1, 2, 3, 4)),
    Ref2k(<<S(Selector), S(Quarter), P(LowBounds), S(HighBounds)>>, Selections(1, 2, 3, 4)),
    Ref2k(<<P(X), S(Y), P(Places), P([i \in 1 .. 16 |-> (i - 1) \div 3]),
            P([i \in 1 .. 16 |-> (i - 1) \div 5])>>,
      << Do("_cast_type", hal!VType(0, 16), <<1>>), Do("p2v", Owner(0), <<3>>),
         Do("p2v", Owner(0), <<4>>), Do("p2v", Owner(0), <<5>>),
         Do("v2p", NoPar, <<6>>), Do("v2s", NoPar, <<6>>), Do("s2v", Owner(1), <<2>>),
         Do("s2p", NoPar, <<2>>), Do("p2s", NoPar, <<1>>),
         Do("gen_inv_perm_p", [ascending |-> TRUE], <<1>>),
         Do("gen_inv_perm_v", [ascending |-> FALSE], <<6>>),
         Do("inv_perm_pp", NoPar, <<1, 3>>), Do("perm_pp", NoPar, <<1, 3>>),
         Do("inv_perm_vv", NoPar, <<6, 7>>), Do("perm_vv", NoPar, <<6, 7>>),
         Do("merge_keys_p", [ascending |-> TRUE], <<4, 5>>),
         Do("merge_keys_v", [ascending |-> FALSE], <<8, 9>>),
         Do("group_mark_p", [ends |-> TRUE], <<4, 5>>),
         Do("group_mark_v", [ends |-> FALSE], <<8, 9>>),
         Do("rand_p", [numel |-> 16], <<>>), Do("rand_s", [numel |-> 16], <<>>) >>) }

(* The same on shares: two arithmetic values, two Boolean ones, public     *)
(* ones, two of party 0 and one of party 1.                                *)
ShareInputs(x, y) ==
  << A(x), A(y), B(4, x), B(4, y), P(x), P(y), V(0, x), V(0, y), V(1, y) >>
SharePairs == {<<1, 2>>, <<1, 4>>, <<3, 4>>, <<1, 6>>, <<5, 2>>, <<3, 6>>, <<1, 8>>,
               <<7, 2>>, <<7, 9>>, <<3, 8>>}
OnShares(Of(_, _)) ==
  { Of(ShareInputs(X, Y), Binaries(pair[1], pair[2])) : pair \in SharePairs }
  \cup
  { Of(ShareInputs(Quarter, Sign4), Comparisons(pair[1], pair[2])) : pair \in SharePairs }
  \cup
  { Of(ShareInputs(X, Y), Unaries(x)) : x \in {1, 3} }
  \cup
  { Of(ShareInputs(X, Y), BitByBit(x)) : x \in {1, 3} }
Conversions(Of(_, _)) ==
  { Of(<<A(X), B(1, BitsOf(X)), P(Y), V(0, X), B(1, BitsOf(Y))>>,
      << Do("_mul", NoPar, <<1, 2>>), Do("_mul", NoPar, <<2, 1>>),
         Do("_mul", NoPar, <<2, 5>>), Do("_cast_type", hal!BType(2, 16), <<2>>),
         Do("_cast_type", hal!AType(16), <<9>>), Do("_cast_type", hal!BType(4, 16), <<10>>),
         Do("_cast_type", hal!AType(16), <<4>>), Do("p2s", [bool |-> TRUE], <<3>>),
         Do("_prefer_a", NoPar, <<13>>), Do("_prefer_b", NoPar, <<1>>),
         Do("s2v", Owner(1), <<13>>), Do("s2v", Owner(0), <<1>>),
         Do("s2p", NoPar, <<13>>), Do("s2p", NoPar, <<1>>) >>),
    Of(<<A(X), P(Y), P(Places), V(0, Places), P(X)>>,
      << Do("RandPermM", [numel |-> 16], <<>>), Do("perm_ss", NoPar, <<1, 6>>),
         Do("inv_perm_ss", NoPar, <<7, 6>>), Do("perm_sp", NoPar, <<1, 3>>),
         Do("inv_perm_sp", NoPar, <<1, 3>>), Do("_mmul", Square, <<2, 1>>),
         Do("_mmul", Blocked, <<1, 2>>), Do("_mmul", Blocked, <<2, 5>>) >>),
    Of(<<A(Quarter), P(Selector), P(LowBounds), P(HighBounds), B(1, Selector)>>,
      << Do("_trunc", By(1), <<1>>), Do("rand_s", [bool |-> FALSE, numel |-> 8], <<>>),
         Do("rand_s", [bool |-> TRUE, numel |-> 8], <<>>) >>
      \o Selections(2, 1, 3, 4) \o << Do("_mux", NoPar, <<5, 3, 1>>) >>) }
Layers(Of(_, _)) == OnShares(Of) \cup Conversions(Of)
HalPrograms ==
  Layers(LAMBDA inputs, calls : Semi2k(2, inputs, calls))
  \cup Layers(LAMBDA inputs, calls : Aby3(inputs, calls))
  \cup { Semi2k(2, <<A(X), V(0, Places)>>, << Do("inv_perm_sv", NoPar, <<1, 2>>) >>) }

(* Sorts, permutations and groups of six elements.  Keys a and b have      *)
(* equal elements and negative ones, c has four, d is different each time. *)
(* The payload's elements are all different.                               *)
KeyA == <<3, 13, 0, 3, 13, 1>>
KeyB == <<1, 2, 14, 0, 2, 1>>
KeyC == <<2, 0, 3, 2, 0, 1>>
KeyD == <<1, 15, 3, 0, 13, 14>>
Load == <<5, 9, 12, 2, 7, 11>>
Six == <<4, 2, 5, 0, 1, 3>>
OneResult(op, par, outs, show, args) ==
  Do("one of", [op |-> op, par |-> par, outs |-> outs, show |-> show], args)
By3(ascending, keys, bits) ==
  [ascending |-> ascending, keys |-> keys, bits |-> bits, method |-> "default"]
Sort(par, show, args) == OneResult("simple_sort1d", par, Len(args), show, args)
Arrange(op, args) == OneResult(op, NoPar, Len(args) - 1, 1, args)
GroupBy(keys, show, args) ==
  OneResult("private_groupby_sum_1d", [keys |-> keys], Len(args), show, args)
InRows(op, par, dim, outs, show, args) ==
  OneResult("hal permute", [by |-> op, par |-> par, dim |-> dim, rows |-> 2, cols |-> 3,
                        outs |-> outs], outs, show, args)
Network(par) == [par EXCEPT !.method = "network"]

(* Keys 1 to 3 are secret, 4 and 5 public, 6 and 7 of party 0, 8 of party  *)
(* 1; 9 and 10 are payloads.                                               *)
SortInputs ==
  << A(KeyA), A(KeyB), B(4, KeyD), P(KeyA), P(KeyB), V(0, KeyA), V(0, KeyB), V(1, KeyC),
     A(Load), P(Load) >>
Sorting(Of(_, _)) ==
  { Of(SortInputs, << Sort(By3(TRUE, 1, -1), 2, <<1, 9>>), Sort(By3(FALSE, 1, -1), 1, <<3>>) >>),
    Of(SortInputs, << Sort(By3(TRUE, 2, -1), 3, <<1, 2, 10>>) >>),
    Of(SortInputs, << Do("gen_inv_perm", By3(FALSE, 2, -1), <<6, 5>>),
                      Sort(By3(TRUE, 2, -1), 3, <<4, 7, 9>>),
                      Sort(By3(FALSE, 2, -1), 3, <<5, 4, 9>>) >>),
    Of(SortInputs, << Sort(By3(FALSE, 3, -1), 4, <<4, 7, 1, 9>>) >>),
    Of(SortInputs, << Sort(By3(TRUE, 2, -1), 3, <<6, 8, 10>>) >>),
    Of(SortInputs, << Sort(Network(By3(TRUE, 1, -1)), 1, <<3>>) >>),
    Of(<<A(KeyC), A(Load)>>, << Sort(By3(TRUE, 1, 3), 2, <<1, 2>>) >>),
    Of(<<A(Load), P(Six), V(0, Six), V(1, Load)>>,
      << Arrange("_apply_inv_perm", <<1, 2>>), Arrange("_apply_perm", <<1, 2>>),
         Arrange("_apply_inv_perm", <<1, 3>>), Arrange("_apply_perm", <<1, 3>>),
         Arrange("_apply_inv_perm", <<4, 3>>), Arrange("_apply_perm", <<4, 2>>),
         Do("p2s", [bool |-> FALSE], <<2>>),
         Arrange("_apply_inv_perm", <<4, 11>>), Arrange("_apply_perm", <<1, 11>>),
         Arrange("_apply_perm", <<2, 11>>) >>),
    Of(<<V(0, KeyC), P(KeyC), P(KeyB), A(Load), P(Load), V(1, Load)>>,
      << GroupBy(1, 2, <<1, 4>>), GroupBy(1, 2, <<1, 6>>), GroupBy(2, 1, <<2, 3, 5>>),
         GroupBy(2, 3, <<2, 3, 4>>) >>),
    Of(<<A(KeyC), P(<<1, 0, 2>>), P(<<1, 0>>), P(KeyC), A(Load)>>,
      << InRows("_apply_inv_perm", NoPar, 1, 1, 1, <<1, 2>>),
         InRows("_apply_perm", NoPar, 0, 1, 1, <<1, 3>>),
         InRows("simple_sort1d", By3(TRUE, 1, -1), 0, 2, 2, <<4, 5>>),
         Do("associative_scan", NoPar, <<5>>) >>) }
SortPrograms ==
  Sorting(LAMBDA inputs, calls : Semi2k(2, inputs, calls))
  \cup Sorting(LAMBDA inputs, calls : Aby3(inputs, calls))
  \cup { Ref2k(<<S(KeyA), S(KeyC), S(KeyD), P(KeyA), S(Load)>>,
           << Sort(By3(TRUE, 1, -1), 2, <<3, 5>>), Sort(By3(FALSE, 2, -1), 3, <<1, 2, 5>>),
              Sort(By3(FALSE, 2, -1), 2, <<4, 2, 5>>), Sort(By3(TRUE, 1, -1), 2, <<4, 5>>),
              OneResult("topk_1d", By3(FALSE, 1, -1) @@ [k |-> 4], 2, 1, <<3>>),
              OneResult("topk_1d", By3(TRUE, 1, -1) @@ [k |-> 3], 2, 2, <<3>>) >>) }

(* Every program of kernels with the streams' contents of two tapes.  With *)
(* the tape Rounds the parties run in rounds, with the others in every     *)
(* order of their turns.  The two longest programs, Swift's adder          *)
(* circuits, have one tape each.  The layers above add no messages to the  *)
(* kernels: their programs are run in rounds.                              *)
Rounds == 3
MCJobs ==
  {Job(run[1], run[2]) :
     run \in ((Aby3Programs \cup Semi2kPrograms) \X {1, Rounds})
               \cup ((SecureNNPrograms \cup Spdz2kPrograms \cup SwiftPrograms) \X {1, 2})
               \cup ((Ref2kPrograms \cup HalPrograms \cup SortPrograms) \X {Rounds})
               \cup {<<SwiftA2B, 1>>, <<SwiftMsb, 2>>}}

(* Kernels without messages.  They are steps of one party alone and change *)
(* nothing another party reads: parties that are at such a kernel go       *)
(* first, in the order of their ranks.                                     *)
PlainOps ==
  UNION {{f \o "_p", f \o "_v", f \o "_s"} :
           f \in {"negate", "msb", "lshift", "rshift", "arshift", "trunc", "bitrev",
                  "gen_inv_perm", "merge_keys", "group_mark", "rand"}}
  \cup UNION {{f \o "_pp", f \o "_vvv", f \o "_vp", f \o "_ss", f \o "_sp"} :
           f \in {"equal", "add", "mul", "mmul", "and", "xor"}}
  \cup {"inv_perm_pp", "inv_perm_vv", "perm_pp", "perm_vv", "p2v", "s2v", "p2s", "s2p",
        "gather", "concatenate", "setNbits", "MakeP", "constant", "sort_public"}
LocalOps ==
  [ref2k |-> {},
   aby3 |->
     {"RandA", "P2A", "NegateA", "AddAP", "AddAA", "MulAP", "LShiftA",
      "MatMulAP", "RandPermM", "PermAP", "InvPermAP", "RandB", "P2B", "AndBP",
      "XorBP", "XorBB", "LShiftB", "RShiftB", "ARShiftB", "BitrevB",
      "BitIntlB", "BitDeintlB", "CastTypeB", "EqualAA", "EqualAP", "MakeP"},
   semi2k |->
     {"RandA", "P2A", "V2A", "NegateA", "AddAP", "AddAA", "MulAP", "LShiftA",
      "MatMulAP", "MWFactors", "TruncAPr2", "RandPermM", "genInversePerm",
      "PermAP", "InvPermAP", "RandB", "P2B", "AndBP", "XorBP", "XorBB",
      "LShiftB", "RShiftB", "ARShiftB", "BitrevB", "BitIntlB", "BitDeintlB",
      "CastTypeB", "A2BSummands", "EqzShift", "EqzLast", "EqualAA", "EqualAP",
      "MakeP"},
   securenn |->
     {"RandA", "P2A", "NegateA", "AddAP", "AddAA", "MulAP", "LShiftA",
      "MatMulAP", "RandB", "P2B", "AndBP", "XorBP", "XorBB", "LShiftB",
      "RShiftB", "ARShiftB", "BitrevB", "BitIntlB", "BitDeintlB", "CastTypeB",
      "A2BSummands", "MakeP"},
   spdz2k |->
     {"ToPublic", "RandShare", "P2A", "A2VMask", "A2VHide", "A2VShow",
      "V2AShare", "NegateA", "MulAP", "LShiftA", "MatMulAP", "AddAP", "AddAA",
      "MulShare", "TruncMask", "TruncShare", "Switch", "SetNbits", "P2B",
      "B2PShow", "NotB", "XorBP", "XorBB", "AndBP", "LShiftB", "RShiftB",
      "ARShiftB", "BitrevB", "BitIntlB", "BitDeintlB", "AndMasks", "AndShare",
      "RandBits", "A2Bit", "Regroup", "BitsToA", "Less", "MsbMask", "JoinBits",
      "MsbRest", "MsbHide", "MsbShare", "MakeP"},
   swift |->
     {"SharingDraw", "SharingSum", "SharingJoin", "RandDraw", "JointSharing",
      "P2A", "NegateA", "AddAP", "AddAA", "MulAP", "LShiftA", "MatMulAP",
      "P2B", "XorBP", "XorBB", "AndBP", "LShiftB", "RShiftB", "ARShiftB",
      "BitrevB", "BitIntlB", "BitDeintlB", "CastTypeB", "Show", "ShowTo",
      "Held", "RssRand", "TripleV", "TripleW", "TripleLess", "TripleUse",
      "permute", "verifyByOpen", "BucketRest", "MulMasks", "MulStar",
      "MulJoin", "MulShare", "VmapJoin", "VmapSplit", "A2BSummands",
      "Decompose", "Compose", "ZeroA", "TruncWords", "TruncFactors",
      "TruncPair", "TruncShift"}]
AtLocal(p) == at[p] <= Len(job.calls) /\ Call(p).op \in PlainOps \cup LocalOps[job.program.protocol]
GoesFirst(p) ==
  \A q \in Party : AtLocal(q) => AtLocal(p) /\ p <= q


(* In rounds: nobody goes before the others have done what it has done.    *)
Round(p) == 100 * at[p] + turn[p]
InRounds(p) ==
  \A q \in Party : \/ Round(p) < Round(q)
                   \/ Round(p) = Round(q) /\ (AtLocal(p) => p <= q)

MCInit == Init
MCNext ==
  \/ \E p \in Party : (IF job.tape = Rounds THEN InRounds(p) ELSE GoesFirst(p)) /\ Step(p)
  \/ Finished /\ UNCHANGED vars
MCSpec == MCInit /\ [][MCNext]_vars
=============================================================================
