------------------------------ MODULE Circuits ------------------------------
(***************************************************************************)
(* The kernels that call others, and the circuits of mpc/ab_api.cc and     *)
(* mpc/utils/circuits.h, which do nothing else.  Their code is a sequence  *)
(* of lines, one for every call: the names of its results, the kernel, its *)
(* parameter and the names of its arguments.                               *)
(***************************************************************************)
EXTENDS Ring2k

NoPar == [none |-> 0]
By(bits) == [bits |-> bits]
Line(to, op, par, of) ==
  [to |-> to, op |-> op, par |-> par, of |-> of, own |-> FALSE]
Let(to, op, of) == Line(<<to>>, op, NoPar, of)
LetBy(to, op, bits, of) == Line(<<to>>, op, By(bits), of)

(* What a kernel does itself, without a call of the kernel of this name.   *)
Itself(to, op, par, of) == [Line(to, op, par, of) EXCEPT !.own = TRUE]

(* The code of a kernel with these arguments and results.                  *)
Code(of, lines, out) == [of |-> of, lines |-> lines, out |-> out]
NoCalls == Code(<<>>, <<>>, <<>>)
Levels(lines) == FlattenSeq(lines)

(* The adder of kogge and stone, for values of k bits; y may be public.    *)
(* spu::vmap: two ANDs are one call.                                       *)
ppa_kogge_stone(k, public) ==
  LET XorXY(to) == Let(to, IF public THEN "XorBP" ELSE "XorBB", <<"x", "y">>)
      Level(i) ==
        << LetBy("G1", "LShiftB", Pow2[i], <<"G">>),
           LetBy("P1", "LShiftB", Pow2[i], <<"P">>),
           Line(<<"P", "G1">>, "AndBB", NoPar, <<"P", "P", "P1", "G1">>),
           Let("G", "XorBB", <<"G", "G1">>) >>
  IN  Code(<<"x", "y">>,
        << XorXY("P"), Let("G", IF public THEN "AndBP" ELSE "AndBB", <<"x", "y">>) >>
        \o Levels([i \in 1 .. Log2Ceil(k) |-> Level(i - 1)])
        \o << LetBy("C", "LShiftB", 1, <<"G">>), XorXY("S"),
              Let("S", "XorBB", <<"S", "C">>) >>,
        <<"S">>)

(* The even bits in the lower half of n and the odd ones in the upper.     *)
SwapMask(i) == FromBits([j \in Bits |-> IF (j \div Pow2[i]) % 4 = 1 THEN 1 ELSE 0])
KeepMask(i) ==
  FromBits([j \in Bits |-> IF (j \div Pow2[i]) % 4 \in {0, 3} THEN 1 ELSE 0])
MaskBits(to, x, m) ==
  << Line(<<"mask">>, "MakeP", [value |-> m], <<x>>), Let(to, "AndBP", <<x, "mask">>) >>
odd_even_split(n) ==
  LET top == Log2Ceil(n) - 1
      Swap(i) ==
        MaskBits("keep", "r", KeepMask(i))
        \o << LetBy("down", "RShiftB", Pow2[i], <<"r">>) >>
        \o MaskBits("lower", "down", SwapMask(i))
        \o MaskBits("move", "r", SwapMask(i))
        \o << LetBy("upper", "LShiftB", Pow2[i], <<"move">>),
              Let("moved", "XorBB", <<"lower", "upper">>),
              Let("r", "XorBB", <<"keep", "moved">>) >>
      uneven ==
        << LetBy("down", "RShiftB", Pow2[top], <<"r">>),
           LetBy("up", "LShiftB", n \div 2, <<"down">>) >>
        \o MaskBits("low", "r", Pow2[n \div 2] - 1)
        \o << Let("r", "XorBB", <<"low", "up">>) >>
  IN  Code(<<"v">>,
        << LetBy("r", "LShiftB", 0, <<"v">>) >>
        \o Levels([i \in 1 .. top |-> Swap(i - 1)])
        \o (IF Pow2[top + 1] = n THEN <<>> ELSE uneven),
        <<"r">>)

(* The lower and the upper half of k bits, as values of half as many.      *)
bit_split(k) ==
  Code(<<"x">>,
    << Line(<<"perm">>, "odd_even_split", [n |-> k], <<"x">>) >>
    \o MaskBits("lo", "perm", Pow2[k \div 2] - 1)
    \o << LetBy("hi", "RShiftB", k \div 2, <<"perm">>) >>
    \o MaskBits("hi", "hi", Pow2[k \div 2] - 1)
    \o << Line(<<"lo">>, "SetNbits", [nbits |-> k \div 2], <<"lo">>),
          Line(<<"hi">>, "SetNbits", [nbits |-> k \div 2], <<"hi">>) >>,
    <<"lo", "hi">>)

(* The odd and the even bits of a share of k bits, and two shares of n     *)
(* bits back to one of twice as many.                                      *)
bit_scatter(k, stride) ==
  Code(<<"x">>,
    << Line(<<"out">>, "BitDeintlB", [stride |-> stride], <<"x">>),
       LetBy("hi", "RShiftB", k \div 2, <<"out">>),
       Line(<<"mask">>, "MakeP", [value |-> Pow2[k \div 2] - 1], <<"x">>),
       Let("lo", "AndBP", <<"out", "mask">>) >>,
    <<"hi", "lo">>)
bit_gather(n, stride) ==
  Code(<<"hi", "lo">>,
    << LetBy("up", "LShiftB", n, <<"hi">>), Let("both", "XorBB", <<"up", "lo">>),
       Line(<<"r">>, "BitIntlB", [stride |-> stride], <<"both">>) >>,
    <<"r">>)
ScatterBits(hi, lo, x, k, stride) ==
  Line(<<hi, lo>>, "bit_scatter", [k |-> k, stride |-> stride], <<x>>)
GatherBits(to, hi, lo, n, stride) ==
  Line(<<to>>, "bit_gather", [n |-> n, stride |-> stride], <<hi, lo>>)

(* The adder of sklansky.  At level i the carry out of the lower half of   *)
(* every block of two to the i + 1 bits is spread over the upper half.     *)
SelMask(i) ==
  FromBits([j \in Bits |-> IF j % Pow2[i] = Pow2[i] - 1 THEN 1 ELSE 0])
ppa_sklansky(k) ==
  LET Spread(j) ==
        << LetBy("G1", "RShiftB", Pow2[j], <<"Gs">>), Let("Gs", "XorBB", <<"Gs", "G1">>),
           LetBy("P1", "RShiftB", Pow2[j], <<"Ps">>), Let("Ps", "XorBB", <<"Ps", "P1">>) >>
      Level(i) ==
        << ScatterBits("Ph", "Pl", "P", k, i), ScatterBits("Gh", "Gl", "G", k, i),
           Line(<<"mask">>, "MakeP", [value |-> SelMask(i)], <<"x">>),
           Let("Gs", "AndBP", <<"Gl", "mask">>), Let("Ps", "AndBP", <<"Pl", "mask">>) >>
        \o Levels([j \in 1 .. i |-> Spread(j - 1)])
        \o << Line(<<"Ph", "Gs">>, "AndBB", NoPar, <<"Ph", "Ph", "Ps", "Gs">>),
              Let("Gh", "XorBB", <<"Gh", "Gs">>),
              GatherBits("P", "Ph", "Pl", k \div 2, i), GatherBits("G", "Gh", "Gl", k \div 2, i) >>
  IN  Code(<<"x", "y">>,
        << Let("P", "XorBB", <<"x", "y">>), Let("G", "AndBB", <<"x", "y">>) >>
        \o Levels([i \in 1 .. Log2Ceil(k) |-> Level(i - 1)])
        \o << LetBy("C", "LShiftB", 1, <<"G">>), Let("S", "XorBB", <<"x", "y">>),
              Let("S", "XorBB", <<"S", "C">>) >>,
        <<"S">>)

(* The code has a constant for the circuit, which is KoggeStone.           *)
add_bb(circuit) ==
  IF circuit = "Sklansky" THEN ppa_sklansky(K) ELSE ppa_kogge_stone(K, FALSE)
AddBits(to, of) == Line(<<to>>, "AddBB", [circuit |-> "KoggeStone"], of)

(* carry_a2b: the carry out of k bits of shares of n bits, which are half  *)
(* as many at every level; an odd number of bits is made even by a shift.  *)
CarryBy(k, n, Even(_)) ==
  LET Level(s, i) ==
        [lines |-> s.lines \o Even(s.k)
           \o << ScatterBits("Ph", "Pl", "P", s.n, 0), ScatterBits("Gh", "Gl", "G", s.n, 0),
                 Line(<<"P", "G">>, "AndBB", NoPar, <<"Pl", "Gl", "Ph", "Ph">>),
                 Let("G", "XorBB", <<"Gh", "G">>) >>,
         k |-> (s.k + 1) \div 2, n |-> s.n \div 2]
  IN  Code(<<"x", "y">>,
        FoldLeft(Level,
          [lines |-> << Let("P", "XorBB", <<"x", "y">>), Let("G", "AndBB", <<"x", "y">>) >>,
           k |-> k, n |-> n],
          [i \in 1 .. Log2Ceil(k) |-> i]).lines,
        <<"G">>)
ShiftUneven(k) ==
  IF k % 2 = 0 THEN <<>>
  ELSE << LetBy("P", "LShiftB", 1, <<"P">>), LetBy("G", "LShiftB", 1, <<"G">>) >>
carry_a2b(k, n) == CarryBy(k, n, ShiftUneven)

(* The highest bit of the sum of two shares of K bits.                     *)
msb_of_sum ==
  Code(<<"x", "y">>,
    << Line(<<"carry">>, "carry_a2b", [k |-> K - 1, n |-> K], <<"x", "y">>),
       Let("sum", "XorBB", <<"x", "y">>), LetBy("top", "RShiftB", K - 1, <<"sum">>),
       Let("top", "XorBB", <<"top", "carry">>) >>,
    <<"top">>)

Circuit(c) ==
  CASE c.op = "ppa_kogge_stone" -> ppa_kogge_stone(c.par.k, c.par.public)
    [] c.op = "odd_even_split" -> odd_even_split(c.par.n)
    [] c.op = "bit_split" -> bit_split(c.par.k)
    [] c.op = "bit_scatter" -> bit_scatter(c.par.k, c.par.stride)
    [] c.op = "bit_gather" -> bit_gather(c.par.n, c.par.stride)
    [] c.op = "carry_a2b" -> carry_a2b(c.par.k, c.par.n)
    [] c.op = "msb_of_sum" -> msb_of_sum
    [] OTHER -> NoCalls
=============================================================================
