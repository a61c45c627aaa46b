------------------------------- MODULE Ring2k -------------------------------
(***************************************************************************)
(* The rings of integers modulo 2^w that every protocol computes in, and   *)
(* the operations on arrays of ring elements of mpc/utils/ring_ops.cc.  An *)
(* array is a sequence: a kernel works on all its elements at once, so one *)
(* array lists every value an operand can have.                            *)
(***************************************************************************)
EXTENDS Integers, Sequences, SequencesExt, FiniteSetsExt

CONSTANTS
  K,          \* the bits of the field all arithmetic shares are in
  Widths,     \* the bits of the storage types: the powers of two up to K
  BlockBits   \* the bits of a block of the generators (128 in the code)

ASSUME RingAssumption ==
  /\ K \in Nat /\ Widths \subseteq Nat \ {0} /\ K \in Widths
  /\ \A w \in Widths : w <= K
  /\ BlockBits \in Nat \ {0}

Pow2 == [i \in 0 .. 2 * K |-> 2 ^ i]
Ring == 0 .. Pow2[K] - 1
Bits == 0 .. K - 1

Bit(x, i) == (x \div Pow2[i]) % 2
FromBits(b) == MapThenSumSet(LAMBDA i : b[i] * Pow2[i], DOMAIN b)

(* The bitwise operations, one table each.                                 *)
Xor == [x \in Ring, y \in Ring |->
          FromBits([i \in Bits |-> (Bit(x, i) + Bit(y, i)) % 2])]
And == [x \in Ring, y \in Ring |->
          FromBits([i \in Bits |-> Bit(x, i) * Bit(y, i)])]

(* The smallest storage that has n bits; the fields of the truncations.    *)
calcBShareBacktype(n) == Min({w \in Widths : n <= w})
getTruncField(bits) == calcBShareBacktype(bits)

Log2Ceil(n) == Min({i \in 0 .. K : n <= Pow2[i]})
BitWidth == [x \in Ring |-> Min({i \in 0 .. K : x < Pow2[i]})]
maxBitWidth(x) == Max({BitWidth[x[i]] : i \in DOMAIN x})

-----------------------------------------------------------------------------
(* Arrays, element by element.                                             *)
Cast(x, w) == [i \in DOMAIN x |-> x[i] % Pow2[w]]
Fill(x, v) == [i \in DOMAIN x |-> v]
Ones == Pow2[K] - 1

ring_neg(x) == [i \in DOMAIN x |-> (-x[i]) % Pow2[K]]
ring_not(x) == [i \in DOMAIN x |-> Pow2[K] - 1 - x[i]]
x ++ y == [i \in DOMAIN x |-> (x[i] + y[i]) % Pow2[K]]    \* ring_add
x -- y == [i \in DOMAIN x |-> (x[i] - y[i]) % Pow2[K]]    \* ring_sub
x ** y == [i \in DOMAIN x |-> (x[i] * y[i]) % Pow2[K]]    \* ring_mul
x ## y == [i \in DOMAIN x |-> Xor[x[i], y[i]]]            \* ring_xor
x && y == [i \in DOMAIN x |-> And[x[i], y[i]]]            \* ring_and
ring_less(x, y) == [i \in DOMAIN x |-> IF x[i] < y[i] THEN 1 ELSE 0]
ring_equal(x, y) == [i \in DOMAIN x |-> IF x[i] = y[i] THEN 1 ELSE 0]

ring_lshift(x, n) == [i \in DOMAIN x |-> (x[i] * Pow2[n]) % Pow2[K]]
ring_rshift(x, n) == [i \in DOMAIN x |-> x[i] \div Pow2[n]]

(* The shift of the signed value: \div rounds towards minus infinity.      *)
Signed(x) == IF x < Pow2[K - 1] THEN x ELSE x - Pow2[K]
ring_arshift(x, n) ==
  [i \in DOMAIN x |-> (Signed(x[i]) \div Pow2[n]) % Pow2[K]]

(* The bits start .. end - 1 in reverse order, the others where they are.  *)
BitRev(x, start, end) ==
  FromBits([i \in Bits |->
     IF start <= i /\ i < end THEN Bit(x, end - 1 - i + start) ELSE Bit(x, i)])
ring_bitrev(x, start, end) == [i \in DOMAIN x |-> BitRev(x[i], start, end)]

(* Bits apart and back together: at each level the bits 1 and 2 of every   *)
(* four (groups of) bits change places.                                    *)
SwapLevel(x, level) ==
  LET S == Pow2[level]
      group(i) == (i \div S) % 4
      from(i) == IF group(i) = 1 THEN i + S
                 ELSE IF group(i) = 2 THEN i - S ELSE i
  IN  FromBits([i \in Bits |-> IF from(i) \in Bits THEN Bit(x, from(i)) ELSE 0])
BitDeintl(x, stride, n) ==
  [i \in DOMAIN x |-> FoldLeft(SwapLevel, x[i],
     [l \in 1 .. Max({0, Log2Ceil(n) - 1 - stride}) |-> stride + l - 1])]
BitIntl(x, stride, n) ==
  [i \in DOMAIN x |-> FoldLeft(SwapLevel, x[i],
     [l \in 1 .. Max({0, Log2Ceil(n) - 1 - stride}) |-> Log2Ceil(n) - 1 - l])]

(* One of two arrays' elements, by a choice bit.                           *)
ring_select(c, x, y) == [i \in DOMAIN x |-> IF c[i] = 1 THEN y[i] ELSE x[i]]
ring_cast_boolean(x) == [i \in DOMAIN x |-> x[i] % 2]

(* The product of an m x k and a k x n matrix, both row by row.            *)
Matrix(x, y, m, k, n, w) ==
  [c \in 1 .. m * n |->
     LET row == (c - 1) \div n
         col == (c - 1) % n
     IN  MapThenSumSet(LAMBDA j : x[row * k + j] * y[(j - 1) * n + col + 1],
                       1 .. k) % Pow2[w]]
ring_mmul(x, y, m, k, n) == Matrix(x, y, m, k, n, K)

(* Arrays taken through a permutation of 0 .. numel - 1 and back.          *)
applyPerm(x, perm) == [i \in DOMAIN x |-> x[perm[i] + 1]]
applyInvPerm(x, perm) ==
  [i \in DOMAIN x |-> x[CHOOSE j \in DOMAIN x : perm[j] = i - 1]]
InversePerm(perm) == applyInvPerm([i \in DOMAIN perm |-> i - 1], perm)
=============================================================================
