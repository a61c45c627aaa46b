---------------------------- MODULE Tiled_proofs ---------------------------
(***************************************************************************)
(* Proofs about the tiled run of a kernel: for arrays of any rank and      *)
(* shape, blocks of any size and any number of parties, the tiles cover    *)
(* the array exactly once and in order, each within a block, and no task   *)
(* outlives its context.                                                   *)
(***************************************************************************)
EXTENDS Tiled, SequenceTheorems, WellFoundedInduction, TLAPS

LEMMA LessThanWellFounded ==
  IsWellFoundedOn({ss \in Nat \X Nat : ss[1] < ss[2]}, Nat)
BY NatLessThanWellFounded DEF OpToRel

LEMMA LeastNumber ==
  ASSUME NEW T \in SUBSET Nat, T # {}
  PROVE  \E n \in T : \A m \in T : n <= m
<1> DEFINE R == {ss \in Nat \X Nat : ss[1] < ss[2]}
<1>1. PICK n \in T : \A m \in T : ~ (<<m, n>> \in R)
  BY WFMin, LessThanWellFounded
<1>2. ASSUME NEW m \in T PROVE n <= m
  <2>1. ~ (<<m, n>> \in R)
    BY <1>1
  <2> QED
    BY <2>1
<1> QED
  BY <1>2

LEMMA Induction ==
  ASSUME NEW S, 0 \in S, \A n \in Nat : n \in S => n + 1 \in S
  PROVE  Nat \subseteq S
<1> SUFFICES ASSUME Nat \ S # {} PROVE FALSE
  OBVIOUS
<1>1. PICK n \in Nat \ S : \A m \in Nat \ S : n <= m
  BY LeastNumber
<1>2. n - 1 \in Nat /\ n - 1 \notin Nat \ S
  BY <1>1
<1> QED
  BY <1>1, <1>2

(* A set that holds a, and the successor of each of its numbers below b.   *)
LEMMA InductionUpTo ==
  ASSUME NEW a \in Int, NEW b \in Int, NEW S, a \in S,
         \A n \in a .. b - 1 : n \in S => n + 1 \in S
  PROVE  a .. b \subseteq S
<1> DEFINE T == {n \in Nat : a + n \in S \/ a + n > b}
<1>1. 0 \in T
  OBVIOUS
<1>2. ASSUME NEW n \in Nat, n \in T PROVE n + 1 \in T
  <2>1. CASE a + n < b
    <3>1. a + n \in a .. b - 1 /\ a + n \in S /\ (a + n) + 1 = a + (n + 1)
      BY <1>2, <2>1
    <3> QED
      BY <3>1
  <2>2. CASE ~ (a + n < b)
    BY <2>2
  <2> QED
    BY <2>1, <2>2
<1>3. Nat \subseteq T
  <2> HIDE DEF T
  <2> QED
    BY <1>1, <1>2, Induction
<1>4. ASSUME NEW m \in a .. b PROVE m \in S
  <2>1. m - a \in Nat /\ a + (m - a) = m /\ ~ (m > b)
    OBVIOUS
  <2>2. m - a \in T
    BY <1>3, <2>1
  <2> QED
    BY <2>1, <2>2
<1> QED
  BY <1>4

LEMMA GreatestNumber ==
  ASSUME NEW b \in Nat, NEW T \in SUBSET (0 .. b), T # {}
  PROVE  Max(T) \in T /\ \A m \in T : m <= Max(T)
<1> DEFINE U == {b - m : m \in T}
<1>1. U \in SUBSET Nat /\ U # {}
  <2>1. \A m \in T : b - m \in Nat
    OBVIOUS
  <2> QED
    BY <2>1
<1>2. PICK u \in U : \A v \in U : u <= v
  <2> HIDE DEF U
  <2> QED
    BY <1>1, LeastNumber
<1>3. PICK x \in T : u = b - x
  OBVIOUS
<1>4. \A m \in T : m <= x
  <2> TAKE m \in T
  <2>1. b - m \in U /\ m \in 0 .. b /\ x \in 0 .. b
    OBVIOUS
  <2>2. u <= b - m
    BY <1>2, <2>1
  <2> QED
    BY <1>3, <2>1, <2>2
<1>5. \E y \in T : \A m \in T : y >= m
  <2>1. \A m \in T : x >= m
    <3> TAKE m \in T
    <3>1. m \in 0 .. b /\ x \in 0 .. b
      OBVIOUS
    <3> QED
      BY <1>4, <3>1
  <2> QED
    BY <2>1
<1>6. Max(T) \in T /\ \A m \in T : Max(T) >= m
  <2> HIDE DEF U
  <2> QED
    BY <1>5 DEF Max
<1>7. \A m \in T : m <= Max(T)
  <2> TAKE m \in T
  <2>1. m \in 0 .. b /\ Max(T) \in 0 .. b /\ Max(T) >= m
    BY <1>6
  <2> QED
    BY <2>1
<1> QED
  BY <1>6, <1>7

LEMMA MinOfTwo ==
  ASSUME NEW a \in Nat, NEW b \in Nat
  PROVE  Min({a, b}) = IF a <= b THEN a ELSE b
<1>1. \E n \in {a, b} : \A m \in {a, b} : n <= m
  OBVIOUS
<1>2. Min({a, b}) \in {a, b} /\ Min({a, b}) <= a /\ Min({a, b}) <= b
  BY <1>1 DEF Min
<1> QED
  BY <1>2

----------------------------------------------------------------------------
(* Products.                                                               *)
ProductFunction(f, s, a, b) ==
  f = [d \in a - 1 .. b |-> IF d < a THEN 1 ELSE f[d - 1] * s[d]]

LEMMA ProductFunctionValues ==
  ASSUME NEW f, NEW s, NEW a \in Int, NEW b \in Int, b >= a - 1,
         ProductFunction(f, s, a, b)
  PROVE  f[a - 1] = 1 /\ \A d \in a .. b : f[d] = f[d - 1] * s[d]
<1>1. a - 1 \in a - 1 .. b /\ a - 1 < a /\ \A d \in a .. b : d \in a - 1 .. b /\ ~ (d < a)
  OBVIOUS
<1>2. \A d \in a - 1 .. b : f[d] = IF d < a THEN 1 ELSE f[d - 1] * s[d]
  BY DEF ProductFunction
<1> QED
  BY <1>1, <1>2

LEMMA ProductFunctionExists ==
  ASSUME NEW s, NEW a \in Int, NEW b \in Int, b >= a - 1
  PROVE  \E f : ProductFunction(f, s, a, b)
<1> DEFINE S == {n \in Int : \E f : ProductFunction(f, s, a, n)}
<1>1. a - 1 \in S
  <2> DEFINE f == [d \in a - 1 .. a - 1 |-> 1]
  <2>1. ASSUME NEW d \in a - 1 .. a - 1
        PROVE  1 = IF d < a THEN 1 ELSE f[d - 1] * s[d]
    OBVIOUS
  <2>2. f = [d \in a - 1 .. a - 1 |-> 1]
    OBVIOUS
  <2> HIDE DEF f
  <2>3. f = [d \in a - 1 .. a - 1 |-> IF d < a THEN 1 ELSE f[d - 1] * s[d]]
    BY <2>1, <2>2
  <2> QED
    BY <2>3 DEF ProductFunction
<1>2. ASSUME NEW n \in a - 1 .. b - 1, n \in S PROVE n + 1 \in S
  <2>1. PICK f : ProductFunction(f, s, a, n)
    BY <1>2
  <2> DEFINE g == [d \in a - 1 .. n + 1 |-> IF d < n + 1 THEN f[d] ELSE f[n] * s[n + 1]]
  <2>2. ASSUME NEW d \in a - 1 .. n + 1
        PROVE  (IF d < n + 1 THEN f[d] ELSE f[n] * s[n + 1])
                 = IF d < a THEN 1 ELSE g[d - 1] * s[d]
    <3>1. n \in Int /\ n >= a - 1
      OBVIOUS
    <3>2. f[a - 1] = 1 /\ \A e \in a .. n : f[e] = f[e - 1] * s[e]
      BY <2>1, <3>1, ProductFunctionValues
    <3>3. CASE d < a
      <4>1. d = a - 1 /\ d < n + 1
        BY <3>1, <3>3
      <4> QED
        BY <3>2, <3>3, <4>1
    <3>4. CASE ~ (d < a)
      <4>1. d - 1 \in a - 1 .. n + 1 /\ d - 1 < n + 1
        BY <3>1, <3>4
      <4>2. g[d - 1] = f[d - 1]
        BY <4>1
      <4>3. CASE d < n + 1
        <5>1. d \in a .. n
          BY <3>1, <3>4, <4>3
        <5> QED
          BY <3>2, <3>4, <4>2, <4>3, <5>1
      <4>4. CASE ~ (d < n + 1)
        <5>1. d = n + 1 /\ d - 1 = n
          BY <3>1, <4>4
        <5> QED
          BY <3>4, <4>2, <4>4, <5>1
      <4> QED
        BY <4>3, <4>4
    <3> QED
      BY <3>3, <3>4
  <2>3. g = [d \in a - 1 .. n + 1 |-> IF d < n + 1 THEN f[d] ELSE f[n] * s[n + 1]]
    OBVIOUS
  <2> HIDE DEF g
  <2>4. ProductFunction(g, s, a, n + 1)
    BY <2>2, <2>3 DEF ProductFunction
  <2> QED
    BY <2>4
<1>3. a - 1 .. b \subseteq S
  <2> HIDE DEF S
  <2> QED
    BY <1>1, <1>2, InductionUpTo
<1> QED
  BY <1>3

LEMMA ProductFunctionsAgree ==
  ASSUME NEW s, NEW t, NEW a \in Int, NEW b \in Int, NEW c \in Int, NEW f, NEW g,
         ProductFunction(f, s, a, b), ProductFunction(g, t, a, c),
         b >= a - 1, c >= b, \A d \in a .. b : s[d] = t[d]
  PROVE  f[b] = g[b]
<1> DEFINE S == {d \in Int : f[d] = g[d]}
<1>1. /\ f[a - 1] = 1 /\ \A d \in a .. b : f[d] = f[d - 1] * s[d]
      /\ g[a - 1] = 1 /\ \A d \in a .. c : g[d] = g[d - 1] * t[d]
  <2>1. c >= a - 1
    OBVIOUS
  <2>2. f[a - 1] = 1 /\ \A d \in a .. b : f[d] = f[d - 1] * s[d]
    BY ProductFunctionValues
  <2>3. g[a - 1] = 1 /\ \A d \in a .. c : g[d] = g[d - 1] * t[d]
    BY ONLY c \in Int, <2>1, a \in Int, ProductFunction(g, t, a, c), ProductFunctionValues
  <2> QED
    BY <2>2, <2>3
<1>2. a - 1 \in S
  BY <1>1
<1>3. ASSUME NEW n \in a - 1 .. b - 1, n \in S PROVE n + 1 \in S
  <2>1. n + 1 \in a .. b /\ n + 1 \in a .. c /\ (n + 1) - 1 = n
    OBVIOUS
  <2> QED
    BY <1>1, <1>3, <2>1
<1>4. a - 1 .. b \subseteq S
  <2> HIDE DEF S
  <2> QED
    BY <1>2, <1>3, InductionUpTo
<1> QED
  BY <1>4

LEMMA ProductIs ==
  ASSUME NEW s, NEW a \in Int, NEW b \in Int, b >= a - 1
  PROVE  \E f : ProductFunction(f, s, a, b) /\ Product(s, a, b) = f[b]
<1> DEFINE f == CHOOSE g : ProductFunction(g, s, a, b)
<1>1. ProductFunction(f, s, a, b)
  BY ProductFunctionExists
<1>2. Product(s, a, b) = f[b]
  BY DEF Product, ProductFunction
<1> HIDE DEF f
<1> QED
  BY <1>1, <1>2

LEMMA EmptyProduct ==
  ASSUME NEW s, NEW a \in Int
  PROVE  Product(s, a, a - 1) = 1
<1>1. PICK f : ProductFunction(f, s, a, a - 1) /\ Product(s, a, a - 1) = f[a - 1]
  BY ProductIs
<1> QED
  BY <1>1, ProductFunctionValues

LEMMA ProductStep ==
  ASSUME NEW s, NEW a \in Int, NEW b \in Int, b >= a
  PROVE  Product(s, a, b) = Product(s, a, b - 1) * s[b]
<1>1. b - 1 \in Int /\ b - 1 >= a - 1 /\ b >= b - 1 /\ b >= a - 1 /\ b \in a .. b
  OBVIOUS
<1>2. PICK f : ProductFunction(f, s, a, b) /\ Product(s, a, b) = f[b]
  BY <1>1, ProductIs
<1>3. PICK g : ProductFunction(g, s, a, b - 1) /\ Product(s, a, b - 1) = g[b - 1]
  BY <1>1, ProductIs
<1>4. f[b] = f[b - 1] * s[b]
  BY <1>1, <1>2, ProductFunctionValues
<1>5. g[b - 1] = f[b - 1]
  <2> DEFINE m == b - 1
  <2>1. m \in Int /\ m >= a - 1 /\ b >= m /\ ProductFunction(g, s, a, m)
    BY <1>1, <1>3
  <2> HIDE DEF m
  <2>2. \A d \in a .. m : s[d] = s[d]
    OBVIOUS
  <2>3. g[m] = f[m]
    BY ONLY a \in Int, b \in Int, <1>2, <2>1, <2>2, ProductFunctionsAgree
  <2> QED
    BY <2>3 DEF m
<1> QED
  BY <1>2, <1>3, <1>4, <1>5

LEMMA ProductsAgree ==
  ASSUME NEW s, NEW t, NEW a \in Int, NEW b \in Int, b >= a - 1,
         \A d \in a .. b : s[d] = t[d]
  PROVE  Product(s, a, b) = Product(t, a, b)
<1>1. PICK f : ProductFunction(f, s, a, b) /\ Product(s, a, b) = f[b]
  BY ProductIs
<1>2. PICK g : ProductFunction(g, t, a, b) /\ Product(t, a, b) = g[b]
  BY ProductIs
<1>3. f[b] = g[b]
  <2>1. b >= b
    OBVIOUS
  <2> QED
    BY <1>1, <1>2, <2>1, ProductFunctionsAgree
<1> QED
  BY <1>1, <1>2, <1>3

LEMMA ProductPositive ==
  ASSUME NEW s, NEW a \in Int, NEW b \in Int, b >= a - 1,
         \A d \in a .. b : s[d] \in Nat \ {0}
  PROVE  Product(s, a, b) \in Nat \ {0}
<1> DEFINE S == {n \in Int : Product(s, a, n) \in Nat \ {0}}
<1>1. a - 1 \in S
  BY EmptyProduct
<1>2. ASSUME NEW n \in a - 1 .. b - 1, n \in S PROVE n + 1 \in S
  <2>1. n + 1 \in Int /\ n + 1 >= a /\ n + 1 \in a .. b /\ (n + 1) - 1 = n
    OBVIOUS
  <2>2. Product(s, a, n + 1) = Product(s, a, n) * s[n + 1]
    BY <2>1, ProductStep
  <2>3. \A x, y \in Nat \ {0} : x * y \in Nat \ {0}
    OBVIOUS
  <2> QED
    BY <1>2, <2>1, <2>2, <2>3
<1>3. a - 1 .. b \subseteq S
  <2> HIDE DEF S
  <2> QED
    BY <1>1, <1>2, InductionUpTo
<1> QED
  BY <1>3

LEMMA ProductSplit ==
  ASSUME NEW s, NEW a \in Int, NEW b \in Int, NEW c \in Int, b >= a - 1, c >= b,
         \A d \in a .. c : s[d] \in Nat \ {0}
  PROVE  Product(s, a, c) = Product(s, a, b) * Product(s, b + 1, c)
<1> DEFINE S == {n \in Int : Product(s, a, n) = Product(s, a, b) * Product(s, b + 1, n)}
<1>1. \A n \in b .. c : Product(s, a, n) \in Nat /\ Product(s, b + 1, n) \in Nat
  <2> TAKE n \in b .. c
  <2>1. n \in Int /\ n >= a - 1 /\ b + 1 \in Int /\ n >= (b + 1) - 1
    OBVIOUS
  <2>2. /\ \A d \in a .. n : s[d] \in Nat \ {0}
        /\ \A d \in b + 1 .. n : s[d] \in Nat \ {0}
    OBVIOUS
  <2> QED
    BY <2>1, <2>2, ProductPositive
<1>2. b \in S
  <2>1. b + 1 \in Int /\ (b + 1) - 1 = b /\ b \in b .. c
    OBVIOUS
  <2>2. Product(s, b + 1, b) = 1
    BY <2>1, EmptyProduct
  <2>3. Product(s, a, b) \in Nat
    BY <1>1, <2>1
  <2> QED
    BY <2>2, <2>3
<1>3. ASSUME NEW n \in b .. c - 1, n \in S PROVE n + 1 \in S
  <2>1. /\ n + 1 \in Int /\ n + 1 >= a /\ n + 1 >= b + 1 /\ (n + 1) - 1 = n
        /\ b + 1 \in Int /\ n \in b .. c /\ b \in b .. c /\ n + 1 \in a .. c
    OBVIOUS
  <2>2. /\ Product(s, a, n + 1) = Product(s, a, n) * s[n + 1]
        /\ Product(s, b + 1, n + 1) = Product(s, b + 1, n) * s[n + 1]
    BY <2>1, ProductStep
  <2>3. /\ Product(s, a, b) \in Nat /\ Product(s, b + 1, n) \in Nat /\ s[n + 1] \in Nat
    BY <1>1, <2>1
  <2>4. \A x, y, z \in Nat : (x * y) * z = x * (y * z)
    OBVIOUS
  <2> QED
    BY <1>3, <2>1, <2>2, <2>3, <2>4
<1>4. b .. c \subseteq S
  <2> HIDE DEF S
  <2> QED
    BY <1>2, <1>3, InductionUpTo
<1> QED
  BY <1>4

LEMMA ProductOfOnes ==
  ASSUME NEW s, NEW a \in Int, NEW b \in Int, b >= a - 1,
         \A d \in a .. b : s[d] = 1
  PROVE  Product(s, a, b) = 1
<1> DEFINE S == {n \in Int : Product(s, a, n) = 1}
<1>1. a - 1 \in S
  BY EmptyProduct
<1>2. ASSUME NEW n \in a - 1 .. b - 1, n \in S PROVE n + 1 \in S
  <2>1. n + 1 \in Int /\ n + 1 >= a /\ n + 1 \in a .. b /\ (n + 1) - 1 = n
    OBVIOUS
  <2>2. Product(s, a, n + 1) = Product(s, a, n) * s[n + 1]
    BY <2>1, ProductStep
  <2> QED
    BY <1>2, <2>1, <2>2
<1>3. a - 1 .. b \subseteq S
  <2> HIDE DEF S
  <2> QED
    BY <1>1, <1>2, InductionUpTo
<1> QED
  BY <1>3

----------------------------------------------------------------------------
(* Places.                                                                 *)
PlaceFunction(f, ix, k) ==
  f = [d \in 0 .. k |-> IF d = 0 THEN 0 ELSE f[d - 1] * shape[d] + ix[d]]

LEMMA PlaceFunctionValues ==
  ASSUME NEW f, NEW ix, NEW k \in Nat, PlaceFunction(f, ix, k)
  PROVE  f[0] = 0 /\ \A d \in 1 .. k : f[d] = f[d - 1] * shape[d] + ix[d]
<1>1. 0 \in 0 .. k /\ \A d \in 1 .. k : d \in 0 .. k /\ d # 0
  OBVIOUS
<1>2. \A d \in 0 .. k : f[d] = IF d = 0 THEN 0 ELSE f[d - 1] * shape[d] + ix[d]
  BY DEF PlaceFunction
<1> QED
  BY <1>1, <1>2

LEMMA PlaceFunctionExists ==
  ASSUME NEW ix, NEW k \in Nat
  PROVE  \E f : PlaceFunction(f, ix, k)
<1> DEFINE S == {n \in Nat : \E f : PlaceFunction(f, ix, n)}
<1>1. 0 \in S
  <2> DEFINE f == [d \in 0 .. 0 |-> 0]
  <2>1. \A d \in 0 .. 0 : 0 = IF d = 0 THEN 0 ELSE f[d - 1] * shape[d] + ix[d]
    OBVIOUS
  <2>2. f = [d \in 0 .. 0 |-> 0]
    OBVIOUS
  <2> HIDE DEF f
  <2>3. f = [d \in 0 .. 0 |-> IF d = 0 THEN 0 ELSE f[d - 1] * shape[d] + ix[d]]
    BY <2>1, <2>2
  <2> QED
    BY <2>3 DEF PlaceFunction
<1>2. ASSUME NEW n \in Nat, n \in S PROVE n + 1 \in S
  <2>1. PICK f : PlaceFunction(f, ix, n)
    BY <1>2
  <2> DEFINE g == [d \in 0 .. n + 1 |->
                     IF d < n + 1 THEN f[d] ELSE f[n] * shape[n + 1] + ix[n + 1]]
  <2>2. ASSUME NEW d \in 0 .. n + 1
        PROVE  (IF d < n + 1 THEN f[d] ELSE f[n] * shape[n + 1] + ix[n + 1])
                 = IF d = 0 THEN 0 ELSE g[d - 1] * shape[d] + ix[d]
    <3>1. f[0] = 0 /\ \A e \in 1 .. n : f[e] = f[e - 1] * shape[e] + ix[e]
      BY <2>1, PlaceFunctionValues
    <3>2. CASE d = 0
      BY <3>1, <3>2
    <3>3. CASE d # 0
      <4>1. d - 1 \in 0 .. n + 1 /\ d - 1 < n + 1
        BY <3>3
      <4>2. g[d - 1] = f[d - 1]
        BY <4>1
      <4>3. CASE d < n + 1
        <5>1. d \in 1 .. n
          BY <3>3, <4>3
        <5> QED
          BY <3>1, <3>3, <4>2, <4>3, <5>1
      <4>4. CASE ~ (d < n + 1)
        <5>1. d = n + 1 /\ d - 1 = n
          BY <4>4
        <5> QED
          BY <3>3, <4>2, <4>4, <5>1
      <4> QED
        BY <4>3, <4>4
    <3> QED
      BY <3>2, <3>3
  <2>3. g = [d \in 0 .. n + 1 |->
               IF d < n + 1 THEN f[d] ELSE f[n] * shape[n + 1] + ix[n + 1]]
    OBVIOUS
  <2> HIDE DEF g
  <2>4. PlaceFunction(g, ix, n + 1)
    BY <2>2, <2>3 DEF PlaceFunction
  <2> QED
    BY <2>4
<1>3. Nat \subseteq S
  <2> HIDE DEF S
  <2> QED
    BY <1>1, <1>2, Induction
<1> QED
  BY <1>3

LEMMA PlaceFunctionsAgree ==
  ASSUME NEW ix, NEW jx, NEW b \in Nat, NEW f, NEW g,
         PlaceFunction(f, ix, b), PlaceFunction(g, jx, b),
         \A d \in 1 .. b : ix[d] = jx[d]
  PROVE  f[b] = g[b]
<1> DEFINE S == {d \in Int : f[d] = g[d]}
<1>1. f[0] = 0 /\ \A d \in 1 .. b : f[d] = f[d - 1] * shape[d] + ix[d]
  BY PlaceFunctionValues
<1>2. g[0] = 0 /\ \A d \in 1 .. b : g[d] = g[d - 1] * shape[d] + jx[d]
  BY PlaceFunctionValues
<1>3. 0 \in S
  BY <1>1, <1>2
<1>4. ASSUME NEW n \in 0 .. b - 1, n \in S PROVE n + 1 \in S
  <2>1. n + 1 \in 1 .. b /\ (n + 1) - 1 = n
    OBVIOUS
  <2> QED
    BY <1>1, <1>2, <1>4, <2>1
<1>5. 0 .. b \subseteq S
  <2> HIDE DEF S
  <2> QED
    BY <1>3, <1>4, InductionUpTo
<1> QED
  BY <1>5

LEMMA ShorterPlaceFunction ==
  ASSUME NEW ix, NEW b \in Nat, NEW c \in Nat, c >= b, NEW f, NEW g,
         PlaceFunction(f, ix, b), PlaceFunction(g, ix, c)
  PROVE  f[b] = g[b]
<1> DEFINE S == {d \in Int : f[d] = g[d]}
<1>1. f[0] = 0 /\ \A d \in 1 .. b : f[d] = f[d - 1] * shape[d] + ix[d]
  BY PlaceFunctionValues
<1>2. g[0] = 0 /\ \A d \in 1 .. c : g[d] = g[d - 1] * shape[d] + ix[d]
  BY PlaceFunctionValues
<1>3. 0 \in S
  BY <1>1, <1>2
<1>4. ASSUME NEW n \in 0 .. b - 1, n \in S PROVE n + 1 \in S
  <2>1. n + 1 \in 1 .. b /\ n + 1 \in 1 .. c /\ (n + 1) - 1 = n
    OBVIOUS
  <2> QED
    BY <1>1, <1>2, <1>4, <2>1
<1>5. 0 .. b \subseteq S
  <2> HIDE DEF S
  <2> QED
    BY <1>3, <1>4, InductionUpTo
<1> QED
  BY <1>5

LEMMA PlaceIs ==
  ASSUME NEW ix, NEW k \in Nat
  PROVE  \E f : PlaceFunction(f, ix, k) /\ Place(ix, k) = f[k]
<1> DEFINE f == CHOOSE g : PlaceFunction(g, ix, k)
<1>1. PlaceFunction(f, ix, k)
  BY PlaceFunctionExists
<1>2. Place(ix, k) = f[k]
  BY DEF Place, PlaceFunction
<1> HIDE DEF f
<1> QED
  BY <1>1, <1>2

LEMMA FirstPlace ==
  ASSUME NEW ix
  PROVE  Place(ix, 0) = 0
<1>1. PICK f : PlaceFunction(f, ix, 0) /\ Place(ix, 0) = f[0]
  BY PlaceIs
<1> QED
  BY <1>1, PlaceFunctionValues

LEMMA PlacesAgree ==
  ASSUME NEW ix, NEW jx, NEW k \in Nat, \A d \in 1 .. k : ix[d] = jx[d]
  PROVE  Place(ix, k) = Place(jx, k)
<1>1. PICK f : PlaceFunction(f, ix, k) /\ Place(ix, k) = f[k]
  BY PlaceIs
<1>2. PICK g : PlaceFunction(g, jx, k) /\ Place(jx, k) = g[k]
  BY PlaceIs
<1>3. f[k] = g[k]
  BY <1>1, <1>2, PlaceFunctionsAgree
<1> QED
  BY <1>1, <1>2, <1>3

LEMMA PlaceStep ==
  ASSUME NEW ix, NEW k \in Nat \ {0}
  PROVE  Place(ix, k) = Place(ix, k - 1) * shape[k] + ix[k]
<1>1. k - 1 \in Nat /\ k >= k - 1 /\ k \in 1 .. k
  OBVIOUS
<1>2. PICK f : PlaceFunction(f, ix, k) /\ Place(ix, k) = f[k]
  BY PlaceIs
<1>3. PICK g : PlaceFunction(g, ix, k - 1) /\ Place(ix, k - 1) = g[k - 1]
  BY <1>1, PlaceIs
<1>4. f[k] = f[k - 1] * shape[k] + ix[k]
  BY <1>1, <1>2, PlaceFunctionValues
<1>5. \A i \in Nat, j \in Nat :
        j >= i /\ PlaceFunction(g, ix, i) /\ PlaceFunction(f, ix, j) => g[i] = f[i]
  BY ShorterPlaceFunction
<1>6. g[k - 1] = f[k - 1]
  BY <1>1, <1>2, <1>3, <1>5
<1> QED
  BY <1>2, <1>3, <1>4, <1>6

LEMMA PlaceIsNumber ==
  ASSUME NEW ix, NEW k \in Nat, \A d \in 1 .. k : ix[d] \in Nat /\ shape[d] \in Nat
  PROVE  Place(ix, k) \in Nat
<1> DEFINE S == {n \in Int : Place(ix, n) \in Nat}
<1>1. 0 \in S
  BY FirstPlace
<1>2. ASSUME NEW n \in 0 .. k - 1, n \in S PROVE n + 1 \in S
  <2>1. n + 1 \in Nat \ {0} /\ n + 1 \in 1 .. k /\ (n + 1) - 1 = n
    OBVIOUS
  <2>2. Place(ix, n + 1) = Place(ix, n) * shape[n + 1] + ix[n + 1]
    BY <2>1, PlaceStep
  <2>3. \A x, y, z \in Nat : x * y + z \in Nat
    OBVIOUS
  <2> QED
    BY <1>2, <2>1, <2>2, <2>3
<1>3. 0 .. k \subseteq S
  <2> HIDE DEF S
  <2> QED
    BY <1>1, <1>2, InductionUpTo
<1> QED
  BY <1>3

LEMMA ZeroPlace ==
  ASSUME NEW ix, NEW k \in Nat, \A d \in 1 .. k : ix[d] = 0 /\ shape[d] \in Nat
  PROVE  Place(ix, k) = 0
<1> DEFINE S == {n \in Int : Place(ix, n) = 0}
<1>1. 0 \in S
  BY FirstPlace
<1>2. ASSUME NEW n \in 0 .. k - 1, n \in S PROVE n + 1 \in S
  <2>1. n + 1 \in Nat \ {0} /\ n + 1 \in 1 .. k /\ (n + 1) - 1 = n
    OBVIOUS
  <2>2. Place(ix, n + 1) = Place(ix, n) * shape[n + 1] + ix[n + 1]
    BY <2>1, PlaceStep
  <2> QED
    BY <1>2, <2>1, <2>2
<1>3. 0 .. k \subseteq S
  <2> HIDE DEF S
  <2> QED
    BY <1>1, <1>2, InductionUpTo
<1> QED
  BY <1>3

LEMMA PlaceWithin ==
  ASSUME NEW ix, NEW k \in Nat,
         \A d \in 1 .. k : shape[d] \in Nat \ {0} /\ ix[d] \in 0 .. shape[d] - 1
  PROVE  Place(ix, k) \in Nat /\ Place(ix, k) < Product(shape, 1, k)
<1> DEFINE S == {n \in Int : Place(ix, n) + 1 <= Product(shape, 1, n)}
<1>1. 0 \in S
  <2>1. Place(ix, 0) = 0
    BY FirstPlace
  <2>2. 1 \in Nat \ {0} /\ 1 - 1 = 0
    OBVIOUS
  <2>3. Product(shape, 1, 0) = 1
    BY <2>2, EmptyProduct
  <2> QED
    BY <2>1, <2>3
<1>2. \A n \in 0 .. k : Place(ix, n) \in Nat /\ Product(shape, 1, n) \in Nat
  <2> TAKE n \in 0 .. k
  <2>1. n \in Nat /\ n >= 1 - 1 /\ 1 \in Nat \ {0} /\ \A d \in 1 .. n : d \in 1 .. k
    OBVIOUS
  <2>2. \A d \in 1 .. n : ix[d] \in Nat /\ shape[d] \in Nat /\ shape[d] \in Nat \ {0}
    BY <2>1
  <2>3. Place(ix, n) \in Nat
    BY <2>1, <2>2, PlaceIsNumber
  <2> QED
    BY <2>1, <2>2, <2>3, ProductPositive
<1>3. ASSUME NEW n \in 0 .. k - 1, n \in S PROVE n + 1 \in S
  <2>1. /\ n + 1 \in Nat \ {0} /\ n + 1 \in 1 .. k /\ (n + 1) - 1 = n /\ n \in 0 .. k
        /\ n + 1 \in Nat /\ n + 1 >= 1 /\ 1 \in Nat \ {0}
    OBVIOUS
  <2>2. Place(ix, n + 1) = Place(ix, n) * shape[n + 1] + ix[n + 1]
    BY <2>1, PlaceStep
  <2>3. Product(shape, 1, n + 1) = Product(shape, 1, n) * shape[n + 1]
    BY <2>1, ProductStep
  <2>4. /\ Place(ix, n) \in Nat /\ Product(shape, 1, n) \in Nat
        /\ shape[n + 1] \in Nat \ {0} /\ ix[n + 1] \in Nat /\ ix[n + 1] < shape[n + 1]
    BY <1>2, <2>1
  <2>5. \A x, y \in Nat, z \in Nat \ {0}, i \in Nat :
          x + 1 <= y /\ i < z => (x * z + i) + 1 <= y * z
    <3> SUFFICES ASSUME NEW x \in Nat, NEW y \in Nat, NEW z \in Nat \ {0},
                        NEW i \in Nat, x + 1 <= y, i < z
                 PROVE  (x * z + i) + 1 <= y * z
      OBVIOUS
    <3>1. (x + 1) * z <= y * z
      OBVIOUS
    <3>2. (x + 1) * z = x * z + z /\ x * z \in Nat /\ y * z \in Nat
      OBVIOUS
    <3> QED
      BY <3>1, <3>2
  <2> QED
    BY <1>3, <2>1, <2>2, <2>3, <2>4, <2>5
<1>4. 0 .. k \subseteq S
  <2> HIDE DEF S
  <2> QED
    BY <1>1, <1>3, InductionUpTo
<1>5. k \in 0 .. k /\ k \in S
  BY <1>4
<1> QED
  BY <1>2, <1>5

----------------------------------------------------------------------------
(* Division.                                                               *)
LEMMA DivMod ==
  ASSUME NEW m \in Nat, NEW d \in Nat \ {0}
  PROVE  /\ m \div d \in Nat /\ m % d \in Nat /\ m % d < d
         /\ m = (m \div d) * d + (m % d)
<1>1. m % d \in Nat /\ m % d < d /\ m \div d \in Int
  OBVIOUS
<1>2. m = d * (m \div d) + (m % d)
  OBVIOUS
<1> DEFINE q == m \div d
           r == m % d
<1>3. q \in Int /\ r \in Nat /\ r < d /\ m = q * d + r
  <2>1. d * q = q * d
    OBVIOUS
  <2> QED
    BY <1>1, <1>2, <2>1
<1> HIDE DEF q, r
<1>4. q \in Nat
  <2> SUFFICES ASSUME q + 1 <= 0 PROVE FALSE
    BY <1>3
  <2>1. (q + 1) * d <= 0
    BY <1>3
  <2>2. (q + 1) * d = q * d + d
    BY <1>3
  <2>3. q * d \in Int
    BY <1>3
  <2> QED
    BY <1>3, <2>1, <2>2, <2>3
<1> QED
  BY <1>3, <1>4 DEF q, r

LEMMA DivUnique ==
  ASSUME NEW d \in Nat \ {0}, NEW x \in Nat, NEW r \in Nat, r < d
  PROVE  (x * d + r) \div d = x /\ (x * d + r) % d = r
<1> DEFINE m == x * d + r
           q == m \div d
           u == m % d
<1>1. m \in Nat
  OBVIOUS
<1>2. q \in Nat /\ u \in Nat /\ u < d /\ m = q * d + u
  <2> HIDE DEF m
  <2> QED
    BY <1>1, DivMod
<1>3. x * d + r = q * d + u /\ x * d \in Int /\ q * d \in Int
  <2> HIDE DEF q, u
  <2> QED
    BY <1>2
<1> HIDE DEF m, q, u
<1>4. (q + 1) * d = q * d + d /\ (x + 1) * d = x * d + d
  BY <1>2
<1>5. ~ (q + 1 <= x)
  <2> SUFFICES ASSUME q + 1 <= x PROVE FALSE
    OBVIOUS
  <2>1. (q + 1) * d <= x * d
    BY <1>2
  <2> QED
    BY <1>2, <1>3, <1>4, <2>1
<1>6. ~ (x + 1 <= q)
  <2> SUFFICES ASSUME x + 1 <= q PROVE FALSE
    OBVIOUS
  <2>1. (x + 1) * d <= q * d
    BY <1>2
  <2> QED
    BY <1>2, <1>3, <1>4, <2>1
<1>7. q = x
  BY <1>2, <1>5, <1>6
<1>8. u = r
  BY <1>2, <1>3, <1>7
<1> QED
  BY <1>7, <1>8 DEF m, q, u

LEMMA DivOfProduct ==
  ASSUME NEW m \in Nat, NEW a \in Nat \ {0}, NEW b \in Nat \ {0}
  PROVE  m \div (a * b) = (m \div b) \div a
<1> DEFINE q == m \div b
           r == m % b
           x == q \div a
           y == q % a
<1>1. q \in Nat /\ r \in Nat /\ r < b /\ m = q * b + r
  BY DivMod
<1> HIDE DEF q, r
<1>2. x \in Nat /\ y \in Nat /\ y < a /\ q = x * a + y
  BY <1>1, DivMod
<1> HIDE DEF x, y
<1>3. m = x * (a * b) + (y * b + r)
  <2>1. (x * a + y) * b = x * (a * b) + y * b
    BY <1>1, <1>2
  <2>2. x * (a * b) \in Int /\ y * b \in Int
    BY <1>1, <1>2
  <2> QED
    BY <1>1, <1>2, <2>1, <2>2
<1>4. y * b + r \in Nat /\ y * b + r < a * b /\ a * b \in Nat \ {0}
  <2>1. (y + 1) * b <= a * b
    BY <1>1, <1>2
  <2>2. (y + 1) * b = y * b + b /\ y * b \in Nat
    BY <1>1, <1>2
  <2>3. a * b \in Nat \ {0}
    OBVIOUS
  <2> QED
    BY <1>1, <2>1, <2>2, <2>3
<1>5. (x * (a * b) + (y * b + r)) \div (a * b) = x
  BY <1>2, <1>4, DivUnique
<1> QED
  BY <1>3, <1>5 DEF q, x

----------------------------------------------------------------------------
(* The shape and its tiles.                                                *)
LEMMA ShapeIs ==
  ASSUME shape \in Shapes
  PROVE  /\ Rank \in Nat /\ shape \in Seq(Nat \ {0})
         /\ \A d \in 1 .. Rank : shape[d] \in Nat \ {0}
         /\ \A a \in 1 .. Rank + 1, b \in 0 .. Rank :
              b >= a - 1 => Product(shape, a, b) \in Nat \ {0}
<1>1. shape \in Seq(Nat \ {0})
  BY SizesAssumption
<1>2. Rank \in Nat /\ \A d \in 1 .. Rank : shape[d] \in Nat \ {0}
  BY <1>1 DEF Rank
<1>3. ASSUME NEW a \in 1 .. Rank + 1, NEW b \in 0 .. Rank, b >= a - 1
      PROVE  Product(shape, a, b) \in Nat \ {0}
  <2>1. a \in Int /\ b \in Int /\ \A d \in a .. b : d \in 1 .. Rank
    BY <1>2
  <2>2. \A d \in a .. b : shape[d] \in Nat \ {0}
    BY <1>2, <2>1
  <2> QED
    BY <1>3, <2>1, <2>2, ProductPositive
<1> QED
  BY <1>1, <1>2, <1>3

(* From a dimension t on, the indices count the places up.                 *)
Runs(ix, t, base, m) ==
  /\ Place(ix, t) = base + (m \div Product(shape, t + 1, Rank))
  /\ \A d \in t + 1 .. Rank : ix[d] = (m \div Product(shape, d + 1, Rank)) % shape[d]

LEMMA PlaceOfRun ==
  ASSUME shape \in Shapes, NEW ix, NEW m \in Nat, NEW base \in Nat, NEW t \in 0 .. Rank,
         Runs(ix, t, base, m)
  PROVE  Place(ix, Rank) = base * Product(shape, t + 1, Rank) + m
<1> DEFINE n == Rank
           P(a, b) == Product(shape, a, b)
           S == {d \in Int : Place(ix, d) = base * P(t + 1, d) + (m \div P(d + 1, n))}
<1>1. /\ n \in Nat /\ t \in Nat /\ t \in 0 .. n
      /\ \A d \in 1 .. n : shape[d] \in Nat \ {0}
      /\ \A a \in 1 .. n + 1, b \in 0 .. n : b >= a - 1 => P(a, b) \in Nat \ {0}
  BY ShapeIs
<1>2. Place(ix, t) = base + (m \div P(t + 1, n))
      /\ \A d \in t + 1 .. n : ix[d] = (m \div P(d + 1, n)) % shape[d]
  BY DEF Runs
<1>3. t \in S
  <2>1. P(t + 1, t) = 1
    <3>1. (t + 1) - 1 = t /\ t + 1 \in Int
      BY <1>1
    <3> QED
      BY <3>1, EmptyProduct
  <2> QED
    BY <1>1, <1>2, <2>1
<1>4. ASSUME NEW d \in t .. n - 1, d \in S PROVE d + 1 \in S
  <2> DEFINE e == d + 1
             q == m \div P(e + 1, n)
  <2>1. /\ d \in Nat /\ e \in Nat \ {0} /\ e \in Int /\ e \in t + 1 .. n /\ e - 1 = d
        /\ e \in 1 .. n /\ e + 1 \in 1 .. n + 1 /\ e \in 1 .. n + 1 /\ n \in 0 .. n
        /\ n >= (e + 1) - 1 /\ n >= e - 1 /\ n >= e /\ e >= e /\ e <= n
        /\ t + 1 \in 1 .. n + 1 /\ d \in 0 .. n /\ d >= (t + 1) - 1 /\ e >= t + 1
        /\ t + 1 \in Int
    BY <1>1
  <2>2. Place(ix, e) = Place(ix, d) * shape[e] + ix[e]
    BY <2>1, PlaceStep
  <2>3. P(t + 1, e) = P(t + 1, d) * shape[e]
    BY <2>1, ProductStep
  <2>4. P(e, n) = shape[e] * P(e + 1, n)
    <3>1. P(e, n) = P(e, e) * P(e + 1, n)
      <4>1. \A c \in e .. n : shape[c] \in Nat \ {0}
        BY <1>1, <2>1
      <4> QED
        BY <1>1, <2>1, <4>1, ProductSplit
    <3>2. P(e, e) = P(e, e - 1) * shape[e] /\ P(e, e - 1) = 1
      BY <2>1, ProductStep, EmptyProduct
    <3>3. shape[e] \in Nat
      BY <1>1, <2>1
    <3> QED
      BY <3>1, <3>2, <3>3
  <2>5. shape[e] \in Nat \ {0} /\ P(e + 1, n) \in Nat \ {0} /\ P(t + 1, d) \in Nat \ {0}
    BY <1>1, <2>1
  <2>6. m \div P(d + 1, n) = q \div shape[e]
    BY <2>4, <2>5, DivOfProduct
  <2>7. q \in Nat
    BY <2>5, DivMod
  <2>8. ix[e] = q % shape[e]
    BY <1>2, <2>1
  <2>9. Place(ix, d) = base * P(t + 1, d) + (q \div shape[e])
    BY <1>4, <2>6
  <2> HIDE DEF P, q, e, n
  <2>10. /\ q \div shape[e] \in Nat /\ q % shape[e] \in Nat
         /\ q = (q \div shape[e]) * shape[e] + (q % shape[e])
    BY <2>5, <2>7, DivMod
  <2>11. \A w, x, y, z \in Nat : (w * x + y) * z = w * (x * z) + y * z
    OBVIOUS
  <2>12. (base * P(t + 1, d) + (q \div shape[e])) * shape[e]
           = base * (P(t + 1, d) * shape[e]) + (q \div shape[e]) * shape[e]
    BY <2>5, <2>10, <2>11
  <2>13. base * (P(t + 1, d) * shape[e]) \in Int /\ (q \div shape[e]) * shape[e] \in Int
    BY <2>5, <2>10
  <2>14. Place(ix, e) = base * P(t + 1, e) + q
    <3>1. Place(ix, e) = (base * P(t + 1, d) + (q \div shape[e])) * shape[e] + (q % shape[e])
      BY <2>2, <2>8, <2>9
    <3>2. Place(ix, e) = (base * P(t + 1, e) + (q \div shape[e]) * shape[e]) + (q % shape[e])
      BY <2>3, <2>12, <3>1
    <3>3. base * P(t + 1, e) \in Int
      BY <2>3, <2>13
    <3> QED
      BY <2>10, <2>13, <3>2, <3>3
  <2>15. /\ d + 1 \in Int
         /\ Place(ix, d + 1) = base * P(t + 1, d + 1) + (m \div P((d + 1) + 1, n))
    BY <2>1, <2>14 DEF e, q
  <2> QED
    BY <2>15
<1>5. t .. n \subseteq S
  <2> HIDE DEF S, P, n
  <2> QED
    <3>1. t \in Int /\ n \in Int
      BY <1>1
    <3> QED
      BY <1>3, <1>4, <3>1, InductionUpTo
<1>6. Place(ix, n) = base * P(t + 1, n) + (m \div P(n + 1, n))
  BY <1>1, <1>5
<1>7. P(n + 1, n) = 1
  <2>1. (n + 1) - 1 = n /\ n + 1 \in Int
    BY <1>1
  <2> QED
    BY <2>1, EmptyProduct
<1>8. m \div 1 = m
  OBVIOUS
<1> QED
  BY <1>6, <1>7, <1>8

LEMMA NumelIs ==
  ASSUME shape \in Shapes
  PROVE  Numel \in Nat \ {0} /\ Numel = Product(shape, 1, Rank)
<1>1. Rank \in Nat /\ 1 \in 1 .. Rank + 1 /\ Rank \in 0 .. Rank /\ Rank >= 1 - 1
  BY ShapeIs
<1> QED
  BY <1>1, ShapeIs DEF Numel

(* What a large array's cut into tiles is.                                 *)
LEMMA Cuts ==
  ASSUME shape \in Shapes, Numel > BlockSize
  PROVE  /\ SlicingDim \in 1 .. Rank /\ SlicingDim \in Nat \ {0}
         /\ Inner \in Nat \ {0} /\ Outer \in Nat \ {0}
         /\ SliceStride \in Nat \ {0} /\ SliceStride * Inner <= BlockSize
         /\ SliceStride < shape[SlicingDim]
         /\ Numel = (Outer * shape[SlicingDim]) * Inner
<1> DEFINE n == Rank
           T == {d \in 1 .. n : Product(shape, d, n) > BlockSize}
           S == SlicingDim
<1>1. /\ n \in Nat /\ \A d \in 1 .. n : shape[d] \in Nat \ {0}
      /\ \A a \in 1 .. n + 1, b \in 0 .. n :
           b >= a - 1 => Product(shape, a, b) \in Nat \ {0}
  BY ShapeIs
<1>2. BlockSize \in Nat \ {0} /\ Numel = Product(shape, 1, n) /\ Numel > BlockSize
  BY SizesAssumption DEF Numel
<1>3. n >= 1
  <2> SUFFICES ASSUME n = 0 PROVE FALSE
    BY <1>1
  <2>1. 1 \in Int /\ 1 - 1 = 0
    OBVIOUS
  <2>2. Product(shape, 1, 0) = 1
    BY <2>1, EmptyProduct
  <2> QED
    BY <1>2, <2>2
<1>4. 1 \in T /\ T \in SUBSET (0 .. n)
  BY <1>1, <1>2, <1>3
<1>5. S = Max(T)
  BY DEF SlicingDim
<1>6. S \in T /\ \A d \in T : d <= S
  <2> HIDE DEF T, n, S
  <2> QED
    BY <1>1, <1>4, <1>5, GreatestNumber
<1>7. S \in 1 .. n /\ Product(shape, S, n) > BlockSize /\ S \in Nat \ {0} /\ S \in Int
  BY <1>1, <1>6
<1> HIDE DEF S
<1>8. /\ S + 1 \in 1 .. n + 1 /\ n \in 0 .. n /\ n >= (S + 1) - 1 /\ n >= S
      /\ S - 1 \in 0 .. n /\ S - 1 >= 1 - 1 /\ 1 \in 1 .. n + 1 /\ (S - 1) + 1 = S
      /\ n >= S - 1 /\ 1 \in Int /\ n \in Int /\ S - 1 \in Int /\ S >= S - 1
      /\ S >= S /\ n >= 1
  BY <1>1, <1>7
<1>9. Inner \in Nat \ {0} /\ Inner = Product(shape, S + 1, n)
  <2>1. Inner = Product(shape, S + 1, n)
    BY DEF Inner, S
  <2> QED
    BY <1>1, <1>8, <2>1
<1>10. Outer \in Nat \ {0} /\ Outer = Product(shape, 1, S - 1)
  <2>1. Outer = Product(shape, 1, S - 1)
    BY DEF Outer, S
  <2> QED
    BY <1>1, <1>8, <2>1
<1>11. Inner <= BlockSize
  <2>1. CASE S = n
    <3>1. S + 1 \in Int /\ (S + 1) - 1 = n
      BY <1>7, <2>1
    <3>2. Product(shape, S + 1, n) = 1
      BY <3>1, EmptyProduct
    <3> QED
      BY <1>2, <1>9, <3>2
  <2>2. CASE S # n
    <3>1. S + 1 \in 1 .. n /\ ~ (S + 1 <= S)
      BY <1>1, <1>7, <2>2
    <3>2. S + 1 \notin T
      BY <1>6, <3>1
    <3>3. ~ (Product(shape, S + 1, n) > BlockSize)
      BY <3>1, <3>2
    <3> QED
      BY <1>2, <1>9, <3>3
  <2> QED
    BY <2>1, <2>2
<1>12. Product(shape, S, n) = shape[S] * Inner
  <2>1. \A d \in S .. n : shape[d] \in Nat \ {0}
    BY <1>1, <1>7
  <2>2. Product(shape, S, n) = Product(shape, S, S) * Product(shape, S + 1, n)
    BY <1>7, <1>8, <2>1, ProductSplit
  <2>3. Product(shape, S, S) = Product(shape, S, S - 1) * shape[S]
    BY <1>7, <1>8, ProductStep
  <2>4. Product(shape, S, S - 1) = 1 /\ shape[S] \in Nat
    BY <1>1, <1>7, EmptyProduct
  <2> QED
    BY <1>9, <2>2, <2>3, <2>4
<1>13. Numel = (Outer * shape[S]) * Inner
  <2>1. Numel = Product(shape, 1, S - 1) * Product(shape, S, n)
    <3>1. \A d \in 1 .. n : shape[d] \in Nat \ {0}
      BY <1>1
    <3>2. Product(shape, 1, n) = Product(shape, 1, S - 1) * Product(shape, (S - 1) + 1, n)
      BY <1>8, <3>1, ProductSplit
    <3> QED
      BY <1>2, <1>8, <3>2
  <2>2. shape[S] \in Nat
    BY <1>1, <1>7
  <2>3. \A x, y, z \in Nat : (x * y) * z = x * (y * z)
    OBVIOUS
  <2> QED
    BY <1>9, <1>10, <1>12, <2>1, <2>2, <2>3
<1>14. SliceStride = BlockSize \div Inner
  BY <1>9 DEF SliceStride, S
<1> DEFINE q == BlockSize \div Inner
           r == BlockSize % Inner
<1>15. q \in Nat /\ r \in Nat /\ r < Inner /\ BlockSize = q * Inner + r
  BY <1>2, <1>9, DivMod
<1> HIDE DEF q, r
<1>16. q # 0
  BY <1>9, <1>11, <1>15
<1>17. q * Inner <= BlockSize /\ q * Inner \in Nat
  BY <1>9, <1>15
<1>18. q < shape[S]
  <2>1. shape[S] \in Nat /\ shape[S] * Inner > BlockSize
    BY <1>1, <1>7, <1>12
  <2> SUFFICES ASSUME shape[S] <= q PROVE FALSE
    BY <1>15, <2>1
  <2>2. shape[S] * Inner <= q * Inner
    BY <1>9, <1>15, <2>1
  <2>3. shape[S] * Inner \in Nat
    BY <1>9, <2>1
  <2> QED
    BY <1>2, <1>17, <2>1, <2>2, <2>3
<1> QED
  BY <1>7, <1>9, <1>10, <1>13, <1>14, <1>15, <1>16, <1>17, <1>18 DEF q, S

LEMMA CutsAlong ==
  ASSUME shape \in Shapes, Numel > BlockSize
  PROVE  /\ NumSliceDim \in Nat \ {0}
         /\ (NumSliceDim - 1) * SliceStride < shape[SlicingDim]
         /\ shape[SlicingDim] <= NumSliceDim * SliceStride
         /\ NumTiles = NumSliceDim * Outer /\ NumTiles \in Nat \ {0}
<1> DEFINE a == shape[SlicingDim]
           b == SliceStride
           q == a \div b
           r == a % b
<1>1. a \in Nat \ {0} /\ b \in Nat \ {0} /\ b < a /\ Outer \in Nat \ {0}
  BY Cuts, ShapeIs
<1> HIDE DEF a, b
<1>2. q \in Nat /\ r \in Nat /\ r < b /\ a = q * b + r
  BY <1>1, DivMod
<1>3. NumSliceDim = q + (IF r # 0 THEN 1 ELSE 0)
  BY DEF NumSliceDim, a, b
<1> HIDE DEF q, r
<1>4. q # 0
  BY <1>1, <1>2
<1>5. (q - 1) * b = q * b - b /\ (q + 1) * b = q * b + b /\ q * b \in Nat
      /\ (q + 1) - 1 = q /\ q + 0 = q
  BY <1>1, <1>2
<1>6. /\ NumSliceDim \in Nat \ {0}
      /\ (NumSliceDim - 1) * b < a /\ a <= NumSliceDim * b
  <2>1. CASE r = 0
    <3>1. NumSliceDim = q
      BY <1>2, <1>3, <2>1
    <3> QED
      BY <1>1, <1>2, <1>4, <1>5, <2>1, <3>1
  <2>2. CASE r # 0
    <3>1. NumSliceDim = q + 1
      BY <1>3, <2>2
    <3> QED
      BY <1>1, <1>2, <1>4, <1>5, <2>2, <3>1
  <2> QED
    BY <2>1, <2>2
<1>7. NumTiles = NumSliceDim * Outer
  BY DEF NumTiles, Outer
<1>8. \A x, y \in Nat \ {0} : x * y \in Nat \ {0}
  OBVIOUS
<1> QED
  BY <1>1, <1>6, <1>7, <1>8 DEF a, b

(* How wide a tile is along the slicing dimension.                         *)
LEMMA TileWidth ==
  ASSUME shape \in Shapes, Numel > BlockSize, NEW lo, NEW hi, IsTile(lo, hi)
  PROVE  /\ lo[SlicingDim] \in Nat /\ hi[SlicingDim] \in Nat
         /\ lo[SlicingDim] < hi[SlicingDim] /\ hi[SlicingDim] <= shape[SlicingDim]
         /\ hi[SlicingDim] - lo[SlicingDim] \in 1 .. SliceStride
         /\ hi[SlicingDim] = IF lo[SlicingDim] + SliceStride <= shape[SlicingDim]
                             THEN lo[SlicingDim] + SliceStride ELSE shape[SlicingDim]
<1> DEFINE S == SlicingDim
           l == lo[S]
           h == hi[S]
           a == shape[S]
           b == SliceStride
<1>1. S \in 1 .. Rank /\ a \in Nat \ {0} /\ b \in Nat \ {0}
  BY Cuts, ShapeIs
<1>2. l \in Nat /\ l < a /\ h = Min({l + b, a})
  BY <1>1 DEF IsTile, Index
<1> HIDE DEF S, l, h, a, b
<1>3. h = IF l + b <= a THEN l + b ELSE a
  <2>1. l + b \in Nat /\ a \in Nat
    BY <1>1, <1>2
  <2> QED
    BY <1>2, <2>1, MinOfTwo
<1>4. h \in Nat /\ l < h /\ h <= a /\ h - l \in 1 .. b
  BY <1>1, <1>2, <1>3
<1> QED
  BY <1>2, <1>3, <1>4 DEF S, l, h, a, b

(* A remainder of a quotient below the divisor.                            *)
LEMMA SmallQuotient ==
  ASSUME NEW m \in Nat, NEW w \in Nat \ {0}, NEW b \in Nat \ {0}, m < w * b
  PROVE  m \div b \in Nat /\ m \div b < w /\ (m \div b) % w = m \div b
<1> DEFINE q == m \div b
           r == m % b
<1>1. q \in Nat /\ r \in Nat /\ r < b /\ m = q * b + r
  BY DivMod
<1> HIDE DEF q, r
<1>2. q < w
  <2> SUFFICES ASSUME w <= q PROVE FALSE
    BY <1>1
  <2>1. w * b <= q * b /\ w * b \in Nat /\ q * b \in Nat
    BY <1>1
  <2> QED
    BY <1>1, <2>1
<1>3. q % w = q
  <2>1. 0 \in Nat /\ 0 * w + q = q
    BY <1>1
  <2>2. (0 * w + q) % w = q
    BY <1>1, <1>2, DivUnique
  <2> QED
    BY <2>1, <2>2
<1> QED
  BY <1>1, <1>2, <1>3 DEF q

LEMMA TileElements ==
  ASSUME shape \in Shapes, Numel > BlockSize, NEW lo, NEW hi, IsTile(lo, hi)
  PROVE  /\ Start(lo) \in Nat /\ Stop(lo, hi) \in Nat /\ Start(lo) < Stop(lo, hi)
         /\ Product([d \in 1 .. Rank |-> hi[d] - lo[d]], 1, Rank)
              = Stop(lo, hi) - Start(lo)
         /\ Stop(lo, hi) - Start(lo) <= BlockSize
         /\ Elements(lo, hi) =
              [i \in 1 .. Stop(lo, hi) - Start(lo) |-> Start(lo) + i - 1]
<1> DEFINE n == Rank
           S == SlicingDim
           e == [d \in 1 .. n |-> hi[d] - lo[d]]
           w == hi[S] - lo[S]
           A == Place(lo, S)
           at(m) == [d \in 1 .. n |-> lo[d] + ((m \div Product(e, d + 1, n)) % e[d])]
<1>1. /\ n \in Nat /\ \A d \in 1 .. n : shape[d] \in Nat \ {0}
      /\ \A a \in 1 .. n + 1, b \in 0 .. n :
           b >= a - 1 => Product(shape, a, b) \in Nat \ {0}
  BY ShapeIs
<1>2. /\ S \in 1 .. n /\ S \in Nat \ {0} /\ Inner \in Nat \ {0}
      /\ SliceStride \in Nat \ {0} /\ SliceStride * Inner <= BlockSize
      /\ Inner = Product(shape, S + 1, n)
  BY Cuts DEF Inner
<1>3. /\ lo[S] \in Nat /\ hi[S] \in Nat /\ w \in Nat \ {0} /\ w <= SliceStride
  BY <1>2, TileWidth
<1>4. /\ \A d \in 1 .. n : lo[d] \in Nat /\ hi[d] \in Nat
      /\ \A d \in 1 .. S - 1 : hi[d] = lo[d] + 1
      /\ \A d \in S + 1 .. n : lo[d] = 0 /\ hi[d] = shape[d]
  BY DEF IsTile, Index
<1>5. /\ \A d \in 1 .. S - 1 : e[d] = 1
      /\ e[S] = w
      /\ \A d \in S + 1 .. n : e[d] = shape[d]
      /\ \A d \in 1 .. n : e[d] \in Nat \ {0}
  <2>1. \A d \in 1 .. n : e[d] = hi[d] - lo[d]
    OBVIOUS
  <2> HIDE DEF e, n, S, w
  <2>2. ASSUME NEW d \in 1 .. S - 1 PROVE e[d] = 1
    <3>1. d \in 1 .. n
      BY <1>1, <1>2
    <3>2. e[d] = hi[d] - lo[d] /\ hi[d] = lo[d] + 1 /\ lo[d] \in Nat
      BY <1>4, <2>1, <3>1
    <3> QED
      BY <3>2
  <2>3. e[S] = w
    BY <1>2, <2>1 DEF w
  <2>4. ASSUME NEW d \in S + 1 .. n PROVE e[d] = shape[d]
    <3>1. d \in 1 .. n
      BY <1>1, <1>2
    <3>2. e[d] = hi[d] - lo[d] /\ hi[d] = shape[d] /\ lo[d] = 0 /\ shape[d] \in Nat
      BY <1>1, <1>4, <2>1, <3>1
    <3> QED
      BY <3>2
  <2>5. ASSUME NEW d \in 1 .. n PROVE e[d] \in Nat \ {0}
    <3>1. d \in 1 .. S - 1 \/ d = S \/ d \in S + 1 .. n
      BY <1>1, <1>2
    <3> QED
      BY <1>1, <1>3, <2>2, <2>3, <2>4, <3>1
  <2> QED
    BY <2>2, <2>3, <2>4, <2>5
<1>6. /\ e = [d \in 1 .. n |-> hi[d] - lo[d]]
      /\ Elements(lo, hi) = [i \in 1 .. Product(e, 1, n) |-> Place(at(i - 1), n)]
  BY DEF Elements
<1> HIDE DEF e, w, n, S
<1>7. /\ S - 1 \in Int /\ n \in Int /\ S \in Int /\ S + 1 \in Int /\ n >= S - 1 /\ n >= S
      /\ S >= S - 1 /\ S >= S /\ 1 \in Int /\ (S - 1) + 1 = S /\ S - 1 >= 1 - 1
      /\ S + 1 \in 1 .. n + 1 /\ n \in 0 .. n /\ n >= (S + 1) - 1 /\ S - 1 \in Nat
      /\ S \in 0 .. n
  BY <1>1, <1>2
<1>8. ASSUME NEW d \in S .. n
      PROVE  Product(e, d + 1, n) = Product(shape, d + 1, n)
  <2>1. d + 1 \in Int /\ n >= (d + 1) - 1 /\ \A c \in d + 1 .. n : c \in S + 1 .. n
    BY <1>1, <1>2
  <2>2. \A c \in d + 1 .. n : e[c] = shape[c]
    BY <1>5, <2>1
  <2> QED
    BY <1>7, <2>1, <2>2, ProductsAgree
<1>9. Product(e, 1, n) = w * Inner
  <2>1. Product(e, 1, n) = Product(e, 1, S - 1) * Product(e, S, n)
    <3>1. Product(e, 1, n) = Product(e, 1, S - 1) * Product(e, (S - 1) + 1, n)
      BY <1>5, <1>7, ProductSplit
    <3> QED
      BY <1>7, <3>1
  <2>2. Product(e, 1, S - 1) = 1
    BY <1>5, <1>7, ProductOfOnes
  <2>3. Product(e, S, n) = Product(e, S, S) * Product(e, S + 1, n)
    <3>1. \A d \in S .. n : e[d] \in Nat \ {0}
      BY <1>2, <1>5
    <3> QED
      BY <1>7, <3>1, ProductSplit
  <2>4. Product(e, S, S) = Product(e, S, S - 1) * e[S] /\ Product(e, S, S - 1) = 1
    BY <1>7, ProductStep, EmptyProduct
  <2>5. Product(e, S + 1, n) = Inner
    BY <1>2, <1>7, <1>8
  <2>6. e[S] = w
    BY <1>5
  <2>7. 1 * w = w /\ 1 * (w * Inner) = w * Inner
    BY <1>2, <1>3
  <2> QED
    BY <2>1, <2>2, <2>3, <2>4, <2>5, <2>6, <2>7
<1>10. A \in Nat /\ A = Place(lo, S - 1) * shape[S] + lo[S] /\ Place(lo, S - 1) \in Nat
  <2>1. /\ \A d \in 1 .. S : lo[d] \in Nat /\ shape[d] \in Nat
        /\ \A d \in 1 .. S - 1 : lo[d] \in Nat /\ shape[d] \in Nat
    BY <1>1, <1>2, <1>4
  <2>2. Place(lo, S) \in Nat /\ Place(lo, S - 1) \in Nat
    BY <1>2, <1>7, <2>1, PlaceIsNumber
  <2>3. Place(lo, S) = Place(lo, S - 1) * shape[S] + lo[S]
    BY <1>2, PlaceStep
  <2> QED
    BY <2>2, <2>3
<1>11. Start(lo) = A * Inner /\ Stop(lo, hi) = Start(lo) + w * Inner
  BY DEF Start, Stop, S, w
<1> HIDE DEF A
<1>12. /\ Start(lo) \in Nat /\ w * Inner \in Nat \ {0}
       /\ Stop(lo, hi) \in Nat /\ Start(lo) < Stop(lo, hi)
       /\ Stop(lo, hi) - Start(lo) = w * Inner
  <2>1. A * Inner \in Nat /\ w * Inner \in Nat \ {0}
    BY <1>2, <1>3, <1>10
  <2> QED
    BY <1>11, <2>1
<1>13. w * Inner <= BlockSize
  <2>1. w * Inner <= SliceStride * Inner
    BY <1>2, <1>3
  <2>2. w * Inner \in Nat /\ SliceStride * Inner \in Nat /\ BlockSize \in Nat
    BY <1>2, <1>3, SizesAssumption
  <2> QED
    BY <1>2, <2>1, <2>2
<1>14. ASSUME NEW m \in Nat, m < w * Inner PROVE Place(at(m), n) = Start(lo) + m
  <2> DEFINE ix == at(m)
  <2>1. \A d \in 1 .. n : ix[d] = lo[d] + ((m \div Product(e, d + 1, n)) % e[d])
    OBVIOUS
  <2> HIDE DEF ix
  <2>2. ASSUME NEW d \in 1 .. S - 1 PROVE ix[d] = lo[d]
    <3>1. d \in 1 .. n /\ d + 1 \in Int /\ n >= (d + 1) - 1
          /\ \A c \in d + 1 .. n : c \in 1 .. n
      BY <1>1, <1>2
    <3>2. Product(e, d + 1, n) \in Nat \ {0}
      BY <1>5, <1>7, <3>1, ProductPositive
    <3>3. m \div Product(e, d + 1, n) \in Nat
      BY <3>2, DivMod
    <3>4. (m \div Product(e, d + 1, n)) % 1 = 0
      BY <3>3
    <3>5. lo[d] \in Nat
      BY <1>4, <3>1
    <3> QED
      BY <1>5, <2>1, <3>1, <3>4, <3>5
  <2>3. /\ m \div Inner \in Nat /\ ix[S] = lo[S] + (m \div Inner)
    <3>1. m \div Inner \in Nat /\ (m \div Inner) % w = m \div Inner
      BY <1>2, <1>3, <1>14, SmallQuotient
    <3>2. Product(e, S + 1, n) = Inner
      BY <1>2, <1>7, <1>8
    <3> QED
      BY <1>2, <1>5, <2>1, <3>1, <3>2
  <2>4. ASSUME NEW d \in S + 1 .. n
        PROVE  ix[d] = (m \div Product(shape, d + 1, n)) % shape[d]
    <3>1. d \in 1 .. n /\ d \in S .. n /\ d + 1 \in 1 .. n + 1 /\ n >= (d + 1) - 1
      BY <1>1, <1>2
    <3>2. Product(shape, d + 1, n) \in Nat \ {0} /\ shape[d] \in Nat \ {0}
      BY <1>1, <1>7, <3>1
    <3>3. (m \div Product(shape, d + 1, n)) % shape[d] \in Nat
      BY <3>2, DivMod
    <3>4. ix[d] = 0 + ((m \div Product(shape, d + 1, n)) % shape[d])
      BY <1>4, <1>5, <1>8, <2>1, <3>1
    <3> QED
      BY <3>3, <3>4
  <2>5. Place(ix, S) = A + (m \div Product(shape, S + 1, n))
    <3>1. Place(ix, S) = Place(ix, S - 1) * shape[S] + ix[S]
      BY <1>2, PlaceStep
    <3>2. Place(ix, S - 1) = Place(lo, S - 1)
      BY <1>7, <2>2, PlacesAgree
    <3>3. Place(lo, S - 1) * shape[S] \in Nat
      <4>1. shape[S] \in Nat
        BY <1>1, <1>2
      <4> QED
        BY <1>10, <4>1
    <3> QED
      BY <1>2, <1>3, <1>10, <2>3, <3>1, <3>2, <3>3
  <2>6. Place(ix, n) = A * Product(shape, S + 1, n) + m
    <3>1. Runs(ix, S, A, m)
      BY <2>4, <2>5 DEF n, Runs
    <3>2. S \in 0 .. Rank /\ A \in Nat
      BY <1>7, <1>10 DEF n
    <3> HIDE DEF n
    <3>3. Place(ix, Rank) = A * Product(shape, S + 1, Rank) + m
      BY <3>1, <3>2, PlaceOfRun
    <3> QED
      BY <3>3 DEF n
  <2> QED
    BY <1>2, <1>11, <2>6 DEF ix
<1>15. Elements(lo, hi) = [i \in 1 .. w * Inner |-> Start(lo) + i - 1]
  <2>1. ASSUME NEW i \in 1 .. w * Inner PROVE Place(at(i - 1), n) = Start(lo) + i - 1
    <3>1. i - 1 \in Nat /\ i - 1 < w * Inner
      BY <1>12
    <3>2. Place(at(i - 1), n) = Start(lo) + (i - 1)
      BY <1>14, <3>1
    <3> QED
      BY <1>12, <3>2
  <2> QED
    BY <1>6, <1>9, <2>1
<1> QED
  BY <1>6, <1>9, <1>12, <1>13, <1>15 DEF n

(* A small array is its own tile.                                          *)
LEMMA WholeElements ==
  ASSUME shape \in Shapes
  PROVE  /\ Product([d \in 1 .. Rank |-> shape[d] - FirstFrom[d]], 1, Rank) = Numel
         /\ Elements(FirstFrom, shape) = [i \in 1 .. Numel |-> i - 1]
<1> DEFINE n == Rank
           z == FirstFrom
           e == [d \in 1 .. n |-> shape[d] - z[d]]
           at(m) == [d \in 1 .. n |-> z[d] + ((m \div Product(e, d + 1, n)) % e[d])]
<1>1. /\ n \in Nat /\ \A d \in 1 .. n : shape[d] \in Nat \ {0}
      /\ \A a \in 1 .. n + 1, b \in 0 .. n :
           b >= a - 1 => Product(shape, a, b) \in Nat \ {0}
  BY ShapeIs
<1>2. \A d \in 1 .. n : z[d] = 0
  BY DEF FirstFrom
<1>3. \A d \in 1 .. n : e[d] = shape[d]
  <2> HIDE DEF z
  <2>1. ASSUME NEW d \in 1 .. n PROVE shape[d] - z[d] = shape[d]
    BY <1>1, <1>2
  <2> QED
    BY <2>1
<1>4. /\ e = [d \in 1 .. n |-> shape[d] - z[d]]
      /\ Elements(z, shape) = [i \in 1 .. Product(e, 1, n) |-> Place(at(i - 1), n)]
  BY DEF Elements
<1>5. Numel \in Nat \ {0} /\ Numel = Product(shape, 1, n)
  BY NumelIs
<1> HIDE DEF e, z, n
<1>6. ASSUME NEW d \in 0 .. n PROVE Product(e, d + 1, n) = Product(shape, d + 1, n)
  <2>1. d + 1 \in Int /\ n \in Int /\ n >= (d + 1) - 1 /\ \A c \in d + 1 .. n : c \in 1 .. n
    BY <1>1
  <2>2. \A c \in d + 1 .. n : e[c] = shape[c]
    BY <1>3, <2>1
  <2> QED
    BY <2>1, <2>2, ProductsAgree
<1>7. Product(e, 1, n) = Numel
  <2>1. 0 \in 0 .. n /\ 0 + 1 = 1
    BY <1>1
  <2> QED
    BY <1>5, <1>6, <2>1
<1>8. ASSUME NEW m \in Nat, m < Numel PROVE Place(at(m), n) = m
  <2> DEFINE ix == at(m)
  <2>1. \A d \in 1 .. n : ix[d] = z[d] + ((m \div Product(e, d + 1, n)) % e[d])
    OBVIOUS
  <2> HIDE DEF ix
  <2>2. ASSUME NEW d \in 0 + 1 .. n
        PROVE  ix[d] = (m \div Product(shape, d + 1, n)) % shape[d]
    <3>1. d \in 1 .. n /\ d \in 0 .. n /\ d + 1 \in 1 .. n + 1 /\ n \in 0 .. n
          /\ n >= (d + 1) - 1
      BY <1>1
    <3>2. Product(shape, d + 1, n) \in Nat \ {0} /\ shape[d] \in Nat \ {0}
      BY <1>1, <3>1
    <3>3. (m \div Product(shape, d + 1, n)) % shape[d] \in Nat
      BY <3>2, DivMod
    <3>4. ix[d] = 0 + ((m \div Product(shape, d + 1, n)) % shape[d])
      BY <1>2, <1>3, <1>6, <2>1, <3>1
    <3> QED
      BY <3>3, <3>4
  <2>3. Place(ix, 0) = 0 + (m \div Product(shape, 0 + 1, n))
    <3>1. m < 1 * Numel
      BY <1>5, <1>8
    <3>2. m \div Numel \in Nat /\ m \div Numel < 1
      BY <1>5, <3>1, SmallQuotient
    <3>3. m \div Numel = 0 /\ 0 + 1 = 1
      BY <3>2
    <3> QED
      BY <1>5, <3>3, FirstPlace
  <2>4. Place(ix, n) = 0 * Product(shape, 0 + 1, n) + m
    <3>1. 0 \in 0 .. n /\ 0 \in Nat
      BY <1>1
    <3>2. Runs(ix, 0, 0, m)
      BY <2>2, <2>3 DEF n, Runs
    <3>3. 0 \in 0 .. Rank
      BY <3>1 DEF n
    <3> QED
      BY <3>1, <3>2, <3>3, PlaceOfRun DEF n
  <2>5. 0 * Product(shape, 0 + 1, n) = 0
    <3>1. 0 + 1 = 1
      OBVIOUS
    <3> QED
      BY <1>5, <3>1
  <2> QED
    BY <2>4, <2>5 DEF ix
<1>9. \A i \in 1 .. Numel : Place(at(i - 1), n) = i - 1
  <2> TAKE i \in 1 .. Numel
  <2>1. i - 1 \in Nat /\ i - 1 < Numel
    BY <1>5
  <2> QED
    BY <1>8, <2>1
<1>10. Elements(z, shape) = [i \in 1 .. Numel |-> i - 1]
  BY <1>4, <1>7, <1>9
<1> QED
  BY <1>4, <1>7, <1>10 DEF n, z

----------------------------------------------------------------------------
(* From one tile to the next.                                              *)
LEMMA TileTyped ==
  ASSUME shape \in Shapes, Numel > BlockSize, NEW lo, NEW hi, IsTile(lo, hi)
  PROVE  /\ \A d \in 1 .. Rank : lo[d] \in Nat /\ hi[d] \in Nat
         /\ \A d \in 1 .. SlicingDim - 1 :
              lo[d] \in Nat /\ shape[d] \in Nat \ {0} /\ lo[d] < shape[d] /\ hi[d] = lo[d] + 1
         /\ \A d \in SlicingDim + 1 .. Rank : lo[d] = 0 /\ hi[d] = shape[d]
<1>1. SlicingDim \in 1 .. Rank /\ Rank \in Nat /\ \A d \in 1 .. Rank : shape[d] \in Nat \ {0}
  BY Cuts, ShapeIs
<1>2. \A d \in 1 .. Rank : lo[d] \in Nat /\ hi[d] \in Nat
  BY DEF IsTile, Index
<1>3. \A d \in 1 .. SlicingDim - 1 : d \in 1 .. Rank
  BY <1>1
<1> QED
  BY <1>1, <1>2, <1>3 DEF IsTile

(* Where a tile ends, and the numbers of its row and column.               *)
LEMMA TileEnds ==
  ASSUME shape \in Shapes, Numel > BlockSize, NEW lo, NEW hi, IsTile(lo, hi)
  PROVE  /\ Place(lo, SlicingDim - 1) \in Nat /\ Place(lo, SlicingDim - 1) < Outer
         /\ Column(lo) \in Nat /\ Column(lo) < NumSliceDim
         /\ Start(lo) =
              (Place(lo, SlicingDim - 1) * shape[SlicingDim] + lo[SlicingDim]) * Inner
         /\ Stop(lo, hi) =
              (Place(lo, SlicingDim - 1) * shape[SlicingDim] + hi[SlicingDim]) * Inner
<1> DEFINE S == SlicingDim
           c == Place(lo, S - 1)
           j == Column(lo)
           a == shape[S]
           b == SliceStride
           R == NumSliceDim
           l == lo[S]
           h == hi[S]
<1>1. S \in Nat \ {0} /\ S - 1 \in Nat /\ a \in Nat \ {0} /\ b \in Nat \ {0}
      /\ Inner \in Nat \ {0} /\ Outer \in Nat \ {0}
  BY Cuts, ShapeIs
<1>2. R \in Nat \ {0} /\ (R - 1) * b < a /\ a <= R * b
  BY CutsAlong
<1>3. c \in Nat /\ c < Outer
  <2>1. \A d \in 1 .. S - 1 : shape[d] \in Nat \ {0} /\ lo[d] \in 0 .. shape[d] - 1
    <3> TAKE d \in 1 .. S - 1
    <3>1. lo[d] \in Nat /\ shape[d] \in Nat \ {0} /\ lo[d] < shape[d]
      BY TileTyped
    <3> QED
      BY <3>1
  <2>2. Outer = Product(shape, 1, S - 1)
    BY DEF Outer
  <2> HIDE DEF S
  <2> QED
    BY <1>1, <2>1, <2>2, PlaceWithin
<1>4. l \in Nat /\ h \in Nat /\ l < h /\ h <= a /\ l < a /\ l = j * b
  BY TileWidth DEF IsTile
<1>5. j \in Nat
  BY <1>1, <1>4, DivMod DEF Column
<1>6. Place(lo, S) = c * a + l
  BY <1>1, PlaceStep
<1>7. Start(lo) = Place(lo, S) * Inner /\ Stop(lo, hi) = Start(lo) + (h - l) * Inner
  BY DEF Start, Stop
<1> HIDE DEF S, c, j, a, b, R, l, h
<1>8. j < R
  <2> SUFFICES ASSUME R <= j PROVE FALSE
    BY <1>2, <1>5
  <2>1. R * b <= j * b /\ R * b \in Nat /\ j * b \in Nat
    BY <1>1, <1>2, <1>5
  <2> QED
    BY <1>1, <1>2, <1>4, <2>1
<1>9. Stop(lo, hi) = (c * a + h) * Inner
  <2>1. c * a \in Nat
    BY <1>1, <1>3
  <2>2. (c * a + l) * Inner + (h - l) * Inner = ((c * a + l) + (h - l)) * Inner
    BY <1>1, <1>4, <2>1
  <2>3. (c * a + l) + (h - l) = c * a + h
    BY <1>4, <2>1
  <2> QED
    BY <1>6, <1>7, <2>2, <2>3
<1> QED
  BY <1>3, <1>5, <1>6, <1>7, <1>8, <1>9 DEF S, c, j, a, b, R, l, h

LEMMA FirstTile ==
  ASSUME shape \in Shapes, Numel > BlockSize
  PROVE  /\ IsTile(FirstFrom, FirstTo) /\ Start(FirstFrom) = 0
         /\ Place(FirstFrom, SlicingDim - 1) = 0 /\ Column(FirstFrom) = 0
<1> DEFINE S == SlicingDim
           n == Rank
<1>1. /\ n \in Nat /\ S \in 1 .. n /\ SliceStride \in Nat \ {0} /\ SliceStride < shape[S]
      /\ Inner \in Nat /\ \A d \in 1 .. n : shape[d] \in Nat \ {0}
  BY Cuts, ShapeIs
<1>2. /\ \A d \in 1 .. n : FirstFrom[d] = 0
      /\ FirstFrom = [d \in 1 .. n |-> 0]
      /\ \A d \in 1 .. n : FirstTo[d] = IF d < S THEN 1
                                        ELSE IF d = S THEN SliceStride ELSE shape[d]
      /\ FirstTo = [d \in 1 .. n |-> IF d < S THEN 1
                                     ELSE IF d = S THEN SliceStride ELSE shape[d]]
  BY DEF FirstFrom, FirstTo
<1> HIDE DEF S, n
<1>3. FirstFrom \in [1 .. n -> Nat] /\ FirstTo \in [1 .. n -> Nat]
  <2>1. \A d \in 1 .. n : (IF d < S THEN 1 ELSE IF d = S THEN SliceStride ELSE shape[d]) \in Nat
    BY <1>1
  <2> QED
    BY <1>2, <2>1
<1>4. /\ \A d \in 1 .. S - 1 : d \in 1 .. n /\ d < S
      /\ \A d \in S + 1 .. n : d \in 1 .. n /\ ~ (d < S) /\ d # S
      /\ ~ (S < S) /\ S \in Nat \ {0} /\ S - 1 \in Nat /\ shape[S] \in Nat \ {0}
  BY <1>1
<1>5. Column(FirstFrom) = 0 /\ 0 * SliceStride = 0
  <2>1. 0 \div SliceStride = 0 /\ 0 * SliceStride = 0
    <3>1. 0 \in Nat /\ 0 * SliceStride + 0 = 0 /\ 0 < SliceStride
      BY <1>1
    <3>2. (0 * SliceStride + 0) \div SliceStride = 0
      BY <1>1, <3>1, DivUnique
    <3> QED
      BY <1>1, <3>1, <3>2
  <2> QED
    BY <1>1, <1>2, <2>1 DEF Column, S
<1>6. Min({0 + SliceStride, shape[S]}) = SliceStride
  <2>1. 0 + SliceStride = SliceStride /\ SliceStride <= shape[S] /\ SliceStride \in Nat
        /\ shape[S] \in Nat
    BY <1>1, <1>4
  <2> QED
    BY <2>1, MinOfTwo
<1>7. \A d \in 1 .. S - 1 : FirstFrom[d] < shape[d] /\ FirstTo[d] = FirstFrom[d] + 1
  BY <1>1, <1>2, <1>4
<1>8. \A d \in S + 1 .. n : FirstFrom[d] = 0 /\ FirstTo[d] = shape[d]
  BY <1>2, <1>4
<1>9. FirstFrom[S] = 0 /\ FirstTo[S] = SliceStride /\ FirstFrom[S] < shape[S]
  BY <1>1, <1>2, <1>4
<1>10. IsTile(FirstFrom, FirstTo)
  BY <1>3, <1>5, <1>6, <1>7, <1>8, <1>9 DEF IsTile, Index, S, n
<1>11. Place(FirstFrom, S) = 0 /\ Place(FirstFrom, S - 1) = 0
  <2>1. /\ \A d \in 1 .. S : FirstFrom[d] = 0 /\ shape[d] \in Nat
        /\ \A d \in 1 .. S - 1 : FirstFrom[d] = 0 /\ shape[d] \in Nat
    BY <1>1, <1>2
  <2> QED
    BY <1>4, <2>1, ZeroPlace
<1> QED
  BY <1>1, <1>5, <1>10, <1>11 DEF Start, S

(* At the end of a row the carry counts the rows up; after the last row it *)
(* begins with the first again.                                            *)
LEMMA CarryCounts ==
  ASSUME shape \in Shapes, Numel > BlockSize, NEW p \in Parties, IsTile(from[p], to[p]),
         AtEnd(p)
  PROVE  \/ Place(NextFrom(p), SlicingDim - 1) = Place(from[p], SlicingDim - 1) + 1
         \/ /\ Place(NextFrom(p), SlicingDim - 1) = 0
            /\ Place(from[p], SlicingDim - 1) + 1 = Outer
<1> DEFINE S == SlicingDim
           lo == from[p]
           hi == to[p]
           nx == NextFrom(p)
           Up(k) == \/ Place(nx, k) = Place(lo, k) + 1
                    \/ Place(nx, k) = 0 /\ Place(lo, k) + 1 = Product(shape, 1, k)
           Q == {k \in Int : IF CarryReaches(p, k) THEN Up(k)
                             ELSE Place(nx, k) = Place(lo, k)}
<1>1. S \in Nat \ {0} /\ S \in 1 .. Rank /\ Rank \in Nat
  BY Cuts, ShapeIs
<1>2. \A d \in 1 .. S - 1 :
        /\ lo[d] \in Nat /\ shape[d] \in Nat \ {0} /\ lo[d] < shape[d] /\ hi[d] = lo[d] + 1
  BY TileTyped
<1>3. \A d \in 1 .. S - 1 :
        nx[d] = IF CarryReaches(p, d) THEN (lo[d] + 1) % shape[d] ELSE lo[d]
  <2> TAKE d \in 1 .. S - 1
  <2>1. d \in 1 .. Rank /\ d < S /\ d # S
    BY <1>1
  <2>2. /\ CarryReaches(p, d) => nx[d] = (lo[d] + 1) % shape[d]
        /\ ~ CarryReaches(p, d) => nx[d] = lo[d]
    BY <2>1 DEF NextFrom
  <2> QED
    BY <2>2
<1>4. \A k : CarryReaches(p, k) <=> \A d \in k + 1 .. S - 1 : hi[d] = shape[d]
  BY DEF CarryReaches
<1> HIDE DEF S, lo, hi, nx
<1>5. 0 \in Q
  <2>1. Place(nx, 0) = 0 /\ Place(lo, 0) = 0
    BY FirstPlace
  <2>2. Product(shape, 1, 0) = 1
    <3>1. 1 - 1 = 0 /\ 1 \in Int
      OBVIOUS
    <3> QED
      BY <3>1, EmptyProduct
  <2> QED
    BY <2>1, <2>2
<1>6. ASSUME NEW k \in 0 .. (S - 1) - 1, k \in Q PROVE k + 1 \in Q
  <2> DEFINE e == k + 1
             x == Place(lo, k)
             y == Place(nx, k)
             a == shape[e]
  <2>1. /\ k \in Nat /\ e \in Nat \ {0} /\ e \in Int /\ e - 1 = k /\ e \in 1 .. S - 1
        /\ e >= 1 /\ 1 \in Int
    BY <1>1
  <2>2. Place(lo, e) = x * a + lo[e] /\ Place(nx, e) = y * a + nx[e]
    BY <2>1, PlaceStep
  <2>3. Product(shape, 1, e) = Product(shape, 1, k) * a
    BY <2>1, ProductStep
  <2>4. a \in Nat \ {0} /\ lo[e] \in Nat /\ lo[e] < a /\ hi[e] = lo[e] + 1
    BY <1>2, <2>1
  <2>5. nx[e] = IF CarryReaches(p, e) THEN (lo[e] + 1) % a ELSE lo[e]
    BY <1>3, <2>1
  <2>6. CarryReaches(p, k) <=> CarryReaches(p, e) /\ hi[e] = a
    <3>1. k + 1 .. S - 1 = {e} \cup (e + 1 .. S - 1)
      BY <1>1, <2>1
    <3> QED
      BY <1>4, <3>1
  <2>7. x \in Nat
    <3>1. \A d \in 1 .. k : lo[d] \in Nat /\ shape[d] \in Nat
      BY <1>1, <1>2
    <3> QED
      BY <2>1, <3>1, PlaceIsNumber
  <2>8. IF CarryReaches(p, k) THEN Up(k) ELSE y = x
    BY <1>6
  <2> HIDE DEF e, x, y, a
  <2>9. CASE ~ CarryReaches(p, e)
    <3>1. Place(nx, e) = Place(lo, e)
      BY <2>2, <2>5, <2>6, <2>8, <2>9
    <3> QED
      BY <2>1, <2>9, <3>1 DEF e
  <2>10. CASE CarryReaches(p, e) /\ hi[e] # a
    <3>1. y = x /\ lo[e] + 1 < a /\ lo[e] + 1 \in Nat
      BY <2>4, <2>6, <2>8, <2>10
    <3>2. nx[e] = lo[e] + 1
      <4>1. 0 * a + (lo[e] + 1) = lo[e] + 1 /\ 0 \in Nat
        BY <2>4
      <4>2. (0 * a + (lo[e] + 1)) % a = lo[e] + 1
        BY <2>4, <3>1, DivUnique
      <4> QED
        BY <2>5, <2>10, <4>1, <4>2
    <3>3. Place(nx, e) = Place(lo, e) + 1
      <4>1. x * a \in Nat
        BY <2>4, <2>7
      <4> QED
        BY <2>2, <2>4, <3>1, <3>2, <4>1
    <3> QED
      BY <2>1, <2>10, <3>3 DEF e
  <2>11. CASE CarryReaches(p, e) /\ hi[e] = a
    <3>1. Up(k) /\ lo[e] + 1 = a
      BY <2>4, <2>6, <2>8, <2>11
    <3>2. nx[e] = 0
      <4>1. 1 * a + 0 = a /\ 0 \in Nat /\ 1 \in Nat /\ 0 < a
        BY <2>4
      <4>2. (1 * a + 0) % a = 0
        BY <2>4, <4>1, DivUnique
      <4> QED
        BY <2>5, <2>11, <3>1, <4>1, <4>2
    <3>3. Place(lo, e) + 1 = (x + 1) * a
      <4>1. x * a \in Nat /\ (x + 1) * a = x * a + a
        BY <2>4, <2>7
      <4> QED
        BY <2>2, <2>4, <3>1, <4>1
    <3>4. CASE y = x + 1
      <4>1. Place(nx, e) = Place(lo, e) + 1
        <5>1. (x + 1) * a \in Nat
          BY <2>4, <2>7
        <5> QED
          BY <2>2, <3>2, <3>3, <3>4, <5>1
      <4> QED
        BY <2>1, <2>11, <4>1 DEF e
    <3>5. CASE y = 0 /\ x + 1 = Product(shape, 1, k)
      <4>1. Place(nx, e) = 0 /\ Place(lo, e) + 1 = Product(shape, 1, e)
        BY <2>2, <2>3, <2>4, <3>2, <3>3, <3>5
      <4> QED
        BY <2>1, <2>11, <4>1 DEF e
    <3> QED
      BY <3>1, <3>4, <3>5 DEF x, y
  <2> QED
    BY <2>9, <2>10, <2>11
<1>7. 0 .. S - 1 \subseteq Q
  <2>1. S - 1 \in Int /\ 0 \in Int
    BY <1>1
  <2> HIDE DEF Q
  <2> QED
    BY <1>5, <1>6, <2>1, InductionUpTo
<1>8. S - 1 \in 0 .. S - 1 /\ \A d \in (S - 1) + 1 .. S - 1 : FALSE
  BY <1>1
<1>9. CarryReaches(p, S - 1)
  BY <1>4, <1>8
<1>10. Up(S - 1)
  BY <1>7, <1>8, <1>9
<1> QED
  BY <1>10 DEF Outer, S, lo, nx

(* The step within a row, and the step to the next row.                    *)
LEMMA StepWithinRow ==
  ASSUME shape \in Shapes, Numel > BlockSize, NEW p \in Parties, IsTile(from[p], to[p]),
         ~ AtEnd(p)
  PROVE  /\ IsTile(NextFrom(p), NextTo(p))
         /\ Place(NextFrom(p), SlicingDim - 1) = Place(from[p], SlicingDim - 1)
         /\ Column(NextFrom(p)) = Column(from[p]) + 1
         /\ NextFrom(p)[SlicingDim] = to[p][SlicingDim]
<1> DEFINE S == SlicingDim
           n == Rank
           lo == from[p]
           hi == to[p]
           nx == NextFrom(p)
           ny == NextTo(p)
           a == shape[S]
           b == SliceStride
           j == Column(lo)
<1>1. /\ S \in 1 .. n /\ S \in Nat \ {0} /\ n \in Nat /\ a \in Nat \ {0} /\ b \in Nat \ {0}
      /\ \A d \in 1 .. S - 1 : d \in 1 .. n
  BY Cuts, ShapeIs
<1>2. /\ lo[S] \in Nat /\ hi[S] \in Nat /\ hi[S] <= a
      /\ hi[S] = IF lo[S] + b <= a THEN lo[S] + b ELSE a
      /\ lo[S] = j * b /\ hi[S] # a /\ j \in Nat
  BY TileWidth, TileEnds DEF IsTile, AtEnd
<1>3. /\ \A d \in 1 .. n : lo[d] \in Nat /\ hi[d] \in Nat
      /\ \A d \in 1 .. S - 1 : lo[d] < shape[d] /\ hi[d] = lo[d] + 1
      /\ \A d \in S + 1 .. n : lo[d] = 0 /\ hi[d] = shape[d]
  BY TileTyped
<1>4. /\ nx = [d \in 1 .. n |-> IF d = S THEN lo[S] + b ELSE lo[d]]
      /\ ny = [d \in 1 .. n |-> IF d = S THEN Min({hi[S] + b, a}) ELSE hi[d]]
  BY DEF NextFrom, NextTo, AtEnd
<1> HIDE DEF S, n, lo, hi, nx, ny, a, b, j
<1>5. hi[S] = lo[S] + b /\ hi[S] < a /\ lo[S] + b \in Nat
  BY <1>1, <1>2
<1>6. nx[S] = hi[S] /\ ny[S] = Min({nx[S] + b, a})
  BY <1>1, <1>4, <1>5
<1>7. \A d \in 1 .. n : d # S => nx[d] = lo[d] /\ ny[d] = hi[d]
  BY <1>4
<1>8. ny[S] \in Nat
  <2>1. hi[S] + b \in Nat /\ a \in Nat
    BY <1>1, <1>2
  <2> QED
    BY <1>5, <1>6, <2>1, MinOfTwo
<1>9. nx \in [1 .. n -> Nat] /\ ny \in [1 .. n -> Nat]
  <2>1. \A d \in 1 .. n : nx[d] \in Nat /\ ny[d] \in Nat
    BY <1>2, <1>3, <1>6, <1>7, <1>8
  <2>2. nx = [d \in 1 .. n |-> nx[d]] /\ ny = [d \in 1 .. n |-> ny[d]]
    BY <1>4
  <2> QED
    BY <2>1, <2>2
<1>10. nx[S] = (j + 1) * b /\ Column(nx) = j + 1
  <2>1. (j + 1) * b = j * b + b /\ j + 1 \in Nat /\ 0 \in Nat /\ 0 < b
    BY <1>1, <1>2
  <2>2. nx[S] = (j + 1) * b /\ (j + 1) * b \in Nat
    BY <1>1, <1>2, <1>5, <1>6, <2>1
  <2>3. ((j + 1) * b + 0) \div b = j + 1
    BY <1>1, <2>1, DivUnique
  <2>4. (j + 1) * b + 0 = (j + 1) * b
    BY <2>2
  <2> QED
    BY <2>2, <2>3, <2>4 DEF Column, S, b
<1>11. /\ \A d \in 1 .. S - 1 : nx[d] < shape[d] /\ ny[d] = nx[d] + 1 /\ nx[d] = lo[d]
       /\ \A d \in S + 1 .. n : nx[d] = 0 /\ ny[d] = shape[d]
  <2>1. \A d \in 1 .. S - 1 : d \in 1 .. n /\ d # S
    BY <1>1
  <2>2. \A d \in S + 1 .. n : d \in 1 .. n /\ d # S
    BY <1>1
  <2> QED
    BY <1>3, <1>7, <2>1, <2>2
<1>12. IsTile(nx, ny)
  BY <1>5, <1>6, <1>9, <1>10, <1>11 DEF IsTile, Index, S, n, a, b
<1>13. Place(nx, S - 1) = Place(lo, S - 1)
  <2>1. S - 1 \in Nat
    BY <1>1
  <2> QED
    BY <1>11, <2>1, PlacesAgree
<1> QED
  BY <1>6, <1>10, <1>12, <1>13 DEF S, lo, hi, nx, ny, j

LEMMA StepToNextRow ==
  ASSUME shape \in Shapes, Numel > BlockSize, NEW p \in Parties, IsTile(from[p], to[p]),
         AtEnd(p)
  PROVE  /\ IsTile(NextFrom(p), NextTo(p)) /\ Column(NextFrom(p)) = 0
         /\ NextFrom(p)[SlicingDim] = 0
<1> DEFINE S == SlicingDim
           n == Rank
           lo == from[p]
           hi == to[p]
           nx == NextFrom(p)
           ny == NextTo(p)
           a == shape[S]
           b == SliceStride
<1>1. /\ S \in 1 .. n /\ S \in Nat \ {0} /\ n \in Nat /\ a \in Nat \ {0} /\ b \in Nat \ {0}
      /\ \A d \in 1 .. S - 1 : d \in 1 .. n /\ d < S /\ d # S
      /\ \A d \in S + 1 .. n : d \in 1 .. n /\ ~ (d < S) /\ d # S
      /\ b < a /\ \A d \in 1 .. n : shape[d] \in Nat \ {0}
  <2>1. n \in Nat /\ \A d \in 1 .. n : shape[d] \in Nat \ {0}
    BY ShapeIs
  <2>2. S \in 1 .. n /\ S \in Nat \ {0} /\ b \in Nat \ {0} /\ b < a
    BY Cuts
  <2> HIDE DEF S, n, b
  <2>3. a \in Nat \ {0}
    BY <2>1, <2>2
  <2>4. /\ \A d \in 1 .. S - 1 : d \in 1 .. n /\ d < S /\ d # S
        /\ \A d \in S + 1 .. n : d \in 1 .. n /\ ~ (d < S) /\ d # S
    BY ONLY <2>1, <2>2
  <2> QED
    BY <2>1, <2>2, <2>3, <2>4
<1>2. /\ \A d \in 1 .. n : lo[d] \in Nat /\ hi[d] \in Nat
      /\ \A d \in 1 .. S - 1 : lo[d] < shape[d] /\ hi[d] = lo[d] + 1
      /\ \A d \in S + 1 .. n : lo[d] = 0 /\ hi[d] = shape[d]
  BY TileTyped
<1>3. /\ nx[S] = 0 /\ ny[S] = b
      /\ \A d \in 1 .. n : d < S =>
           /\ nx[d] = IF CarryReaches(p, d) THEN (lo[d] + 1) % shape[d] ELSE lo[d]
           /\ ny[d] = IF CarryReaches(p, d) THEN (hi[d] % shape[d]) + 1 ELSE hi[d]
      /\ \A d \in 1 .. n : ~ (d < S) /\ d # S => nx[d] = lo[d] /\ ny[d] = hi[d]
      /\ nx = [d \in 1 .. n |-> nx[d]] /\ ny = [d \in 1 .. n |-> ny[d]]
  <2>1. \A d \in 1 .. n : d < S => d # S
    BY <1>1
  <2>2. nx[S] = 0 /\ ny[S] = b
    BY <1>1 DEF NextFrom, NextTo
  <2>3. ASSUME NEW d \in 1 .. n, d < S
        PROVE  /\ nx[d] = IF CarryReaches(p, d) THEN (lo[d] + 1) % shape[d] ELSE lo[d]
               /\ ny[d] = IF CarryReaches(p, d) THEN (hi[d] % shape[d]) + 1 ELSE hi[d]
    <3>1. d # S
      BY <2>1, <2>3
    <3>2. CASE CarryReaches(p, d)
      BY <2>3, <3>1, <3>2 DEF NextFrom, NextTo
    <3>3. CASE ~ CarryReaches(p, d)
      BY <2>3, <3>1, <3>3 DEF NextFrom, NextTo
    <3> QED
      BY <3>2, <3>3
  <2>4. ASSUME NEW d \in 1 .. n, ~ (d < S), d # S
        PROVE  nx[d] = lo[d] /\ ny[d] = hi[d]
    BY <2>4 DEF NextFrom, NextTo
  <2>5. nx = [d \in 1 .. n |-> nx[d]] /\ ny = [d \in 1 .. n |-> ny[d]]
    BY DEF NextFrom, NextTo
  <2> QED
    BY <2>2, <2>3, <2>4, <2>5
<1> HIDE DEF S, n, lo, hi, nx, ny, a, b
<1>4. ASSUME NEW d \in 1 .. S - 1
      PROVE  nx[d] \in Nat /\ nx[d] < shape[d] /\ ny[d] = nx[d] + 1
  <2>1. d \in 1 .. n /\ d < S /\ lo[d] \in Nat /\ lo[d] < shape[d] /\ hi[d] = lo[d] + 1
        /\ shape[d] \in Nat \ {0}
    BY <1>1, <1>2
  <2>2. CASE CarryReaches(p, d)
    <3>1. nx[d] = (lo[d] + 1) % shape[d] /\ ny[d] = ((lo[d] + 1) % shape[d]) + 1
      BY <1>3, <2>1, <2>2
    <3>2. lo[d] + 1 \in Nat
      BY <2>1
    <3> QED
      BY <2>1, <3>1, <3>2, DivMod
  <2>3. CASE ~ CarryReaches(p, d)
    <3>1. nx[d] = lo[d] /\ ny[d] = hi[d]
      BY <1>3, <2>1, <2>3
    <3> QED
      BY <2>1, <3>1
  <2> QED
    BY <2>2, <2>3
<1>5. \A d \in S + 1 .. n : nx[d] = 0 /\ ny[d] = shape[d]
  BY <1>1, <1>2, <1>3
<1>6. nx \in [1 .. n -> Nat] /\ ny \in [1 .. n -> Nat]
  <2>1. ASSUME NEW d \in 1 .. n PROVE nx[d] \in Nat /\ ny[d] \in Nat
    <3>1. d \in 1 .. S - 1 \/ d = S \/ d \in S + 1 .. n
      BY <1>1
    <3>2. CASE d \in 1 .. S - 1
      BY <1>4, <3>2
    <3>3. CASE d = S
      BY <1>1, <1>3, <3>3
    <3>4. CASE d \in S + 1 .. n
      BY <1>1, <1>5, <3>4
    <3> QED
      BY <3>1, <3>2, <3>3, <3>4
  <2> QED
    BY <1>3, <2>1
<1>7. Min({0 + b, a}) = b
  <2>1. 0 + b = b /\ b <= a /\ b \in Nat /\ a \in Nat
    BY <1>1
  <2> QED
    BY <2>1, MinOfTwo
<1>8. Column(nx) = 0 /\ 0 * b = 0
  <2>1. 0 \in Nat /\ 0 * b + 0 = 0 /\ 0 < b /\ 0 * b = 0
    BY <1>1
  <2>2. (0 * b + 0) \div b = 0
    BY <1>1, <2>1, DivUnique
  <2> QED
    BY <1>3, <2>1, <2>2 DEF Column, S, b
<1>9. nx[S] < a
  BY <1>1, <1>3
<1>10. IsTile(nx, ny)
  BY <1>3, <1>4, <1>5, <1>6, <1>7, <1>8, <1>9 DEF IsTile, Index, S, n, a, b
<1> QED
  BY <1>3, <1>8, <1>10 DEF S, nx, ny

(* A tile that is not the last one is followed by the next, and the array  *)
(* ends with the last.                                                     *)
LEMMA NextTile ==
  ASSUME shape \in Shapes, Numel > BlockSize, NEW p \in Parties, IsTile(from[p], to[p]),
         NEW k \in Nat,
         k = Place(from[p], SlicingDim - 1) * NumSliceDim + Column(from[p])
  PROVE  /\ IsTile(NextFrom(p), NextTo(p))
         /\ k + 1 < NumTiles =>
              /\ Start(NextFrom(p)) = Stop(from[p], to[p])
              /\ Place(NextFrom(p), SlicingDim - 1) * NumSliceDim + Column(NextFrom(p))
                   = k + 1
         /\ k + 1 = NumTiles => Stop(from[p], to[p]) = Numel
<1> DEFINE S == SlicingDim
           lo == from[p]
           hi == to[p]
           nx == NextFrom(p)
           ny == NextTo(p)
           a == shape[S]
           b == SliceStride
           R == NumSliceDim
           c == Place(lo, S - 1)
           j == Column(lo)
           e == Place(nx, S - 1)
<1>1. /\ a \in Nat \ {0} /\ b \in Nat \ {0} /\ Inner \in Nat \ {0} /\ Outer \in Nat \ {0}
      /\ Numel = (Outer * a) * Inner
  BY Cuts, ShapeIs
<1>2. /\ R \in Nat \ {0} /\ (R - 1) * b < a /\ a <= R * b /\ NumTiles = R * Outer
  BY CutsAlong
<1>3. /\ c \in Nat /\ c < Outer /\ j \in Nat /\ j < R /\ k = c * R + j
      /\ Stop(lo, hi) = (c * a + hi[S]) * Inner
  BY TileEnds
<1>4. /\ lo[S] \in Nat /\ hi[S] \in Nat /\ lo[S] = j * b
      /\ hi[S] = IF lo[S] + b <= a THEN lo[S] + b ELSE a
  BY TileWidth DEF IsTile
<1>5. IsTile(nx, ny)
  BY StepWithinRow, StepToNextRow
<1>6. e \in Nat /\ Start(nx) = (e * a + nx[S]) * Inner
  BY <1>5, TileEnds
<1>7. CASE ~ AtEnd(p)
  <2>1. e = c /\ Column(nx) = j + 1 /\ nx[S] = hi[S]
    BY <1>7, StepWithinRow
  <2>2. hi[S] # a
    BY <1>7 DEF AtEnd
  <2> HIDE DEF S, lo, hi, nx, ny, a, b, R, c, j, e
  <2>3. j + 1 < R
    <3> SUFFICES ASSUME R <= j + 1 PROVE FALSE
      BY <1>2, <1>3
    <3>1. R * b <= (j + 1) * b
      BY <1>1, <1>2, <1>3
    <3>2. (j + 1) * b = j * b + b /\ R * b \in Nat /\ j * b \in Nat
      BY <1>1, <1>2, <1>3
    <3> QED
      BY <1>1, <1>2, <1>4, <2>2, <3>1, <3>2
  <2>4. k + 1 < R * Outer
    <3>1. (c + 1) * R <= Outer * R /\ (c + 1) * R = c * R + R /\ Outer * R = R * Outer
      BY <1>1, <1>2, <1>3
    <3>2. c * R \in Nat /\ Outer * R \in Nat
      BY <1>1, <1>2, <1>3
    <3> QED
      BY <1>2, <1>3, <2>3, <3>1, <3>2
  <2>5. Start(nx) = Stop(lo, hi)
    BY <1>3, <1>6, <2>1
  <2>6. e * R + Column(nx) = k + 1
    <3>1. c * R \in Nat
      BY <1>2, <1>3
    <3> QED
      BY <1>3, <2>1, <3>1
  <2>7. k + 1 # NumTiles
    BY <1>1, <1>2, <1>3, <2>4
  <2> QED
    BY <1>5, <2>5, <2>6, <2>7 DEF S, lo, hi, nx, ny, R, e
<1>8. CASE AtEnd(p)
  <2>1. Column(nx) = 0 /\ nx[S] = 0
    BY <1>8, StepToNextRow
  <2>2. hi[S] = a
    BY <1>8 DEF AtEnd
  <2>3. e = c + 1 \/ (e = 0 /\ c + 1 = Outer)
    BY <1>8, CarryCounts
  <2> HIDE DEF S, lo, hi, nx, ny, a, b, R, c, j, e
  <2>4. j + 1 = R
    <3> SUFFICES ASSUME j + 1 <= R - 1 PROVE FALSE
      BY <1>2, <1>3
    <3>1. (j + 1) * b <= (R - 1) * b
      BY <1>1, <1>2, <1>3
    <3>2. (j + 1) * b = j * b + b /\ (R - 1) * b \in Int /\ j * b \in Nat
      BY <1>1, <1>2, <1>3
    <3> QED
      BY <1>1, <1>2, <1>4, <2>2, <3>1, <3>2
  <2>5. k + 1 = (c + 1) * R
    <3>1. c * R \in Nat /\ (c + 1) * R = c * R + R
      BY <1>2, <1>3
    <3> QED
      BY <1>2, <1>3, <2>4, <3>1
  <2>6. Stop(lo, hi) = ((c + 1) * a) * Inner
    <3>1. (c + 1) * a = c * a + a
      BY <1>1, <1>3
    <3> QED
      BY <1>3, <2>2, <3>1
  <2>7. R * Outer = Outer * R
    BY <1>1, <1>2
  <2>8. ASSUME k + 1 < NumTiles
        PROVE  Start(nx) = Stop(lo, hi) /\ e * R + Column(nx) = k + 1
    <3>1. c + 1 # Outer
      <4> SUFFICES ASSUME c + 1 = Outer PROVE FALSE
        OBVIOUS
      <4>1. k + 1 = NumTiles
        BY <1>2, <2>5, <2>7
      <4> QED
        BY <1>3, <2>8, <4>1
    <3>2. e = c + 1
      BY <2>3, <3>1
    <3>3. (c + 1) * a + 0 = (c + 1) * a /\ (c + 1) * R + 0 = (c + 1) * R
      BY <1>1, <1>2, <1>3
    <3> QED
      BY <1>6, <2>1, <2>5, <2>6, <3>2, <3>3
  <2>9. ASSUME k + 1 = NumTiles PROVE Stop(lo, hi) = Numel
    <3>1. c + 1 = Outer
      <4> SUFFICES ASSUME c + 1 < Outer PROVE FALSE
        BY <1>1, <1>3
      <4>1. (c + 1) + 1 <= Outer
        BY <1>1, <1>3
      <4>2. ((c + 1) + 1) * R <= Outer * R
        BY <1>1, <1>2, <1>3, <4>1
      <4>3. ((c + 1) + 1) * R = (c + 1) * R + R /\ (c + 1) * R \in Nat /\ Outer * R \in Nat
        BY <1>1, <1>2, <1>3
      <4> QED
        BY <1>2, <1>3, <2>5, <2>7, <2>9, <4>2, <4>3
    <3> QED
      BY <1>1, <2>6, <3>1
  <2> QED
    BY <1>5, <2>8, <2>9 DEF S, lo, hi, nx, ny, R, e
<1> QED
  BY <1>7, <1>8

----------------------------------------------------------------------------
(* What the invariant says of one party.                                   *)
PartyOK(p) ==
  /\ IF Numel > BlockSize THEN TilesInOrder(p) ELSE OneTile(p)
  /\ ContextsHeld(p)
  /\ pc[p] = "returned" => out[p] = [i \in 1 .. Numel |-> i - 1]

LEMMA PartyByParty ==
  IInv <=> StateTyped /\ \A p \in Parties : PartyOK(p)
BY DEF IInv, PartyOK, Assembled

LEMMA SameShape ==
  ASSUME shape' = shape
  PROVE  /\ Rank' = Rank /\ Numel' = Numel /\ Index' = Index
         /\ SlicingDim' = SlicingDim /\ NumSliceDim' = NumSliceDim /\ NumTiles' = NumTiles
         /\ FirstFrom' = FirstFrom /\ FirstTo' = FirstTo
         /\ \A ix, k : Place(ix, k)' = Place(ix, k)
         /\ \A lo : Start(lo)' = Start(lo) /\ Column(lo)' = Column(lo)
         /\ \A lo, hi : Stop(lo, hi)' = Stop(lo, hi) /\ (IsTile(lo, hi)' <=> IsTile(lo, hi))
<1>1. Rank' = Rank
  BY DEF Rank
<1>2. Numel' = Numel /\ Index' = Index /\ SlicingDim' = SlicingDim
  BY <1>1 DEF Numel, Index, SlicingDim
<1>3. SliceStride' = SliceStride /\ Inner' = Inner
  BY <1>1, <1>2 DEF SliceStride, Inner
<1>4. NumSliceDim' = NumSliceDim
  BY <1>2, <1>3 DEF NumSliceDim
<1>5. NumTiles' = NumTiles
  BY <1>2, <1>4 DEF NumTiles
<1>6. FirstFrom' = FirstFrom /\ FirstTo' = FirstTo
  BY <1>1, <1>2, <1>3 DEF FirstFrom, FirstTo
<1>7. \A ix, k : Place(ix, k)' = Place(ix, k)
  BY DEF Place
<1>8. \A lo : Start(lo)' = Start(lo) /\ Column(lo)' = Column(lo)
  BY <1>2, <1>3, <1>7 DEF Start, Column
<1>9. \A lo, hi : Stop(lo, hi)' = Stop(lo, hi)
  BY <1>2, <1>3, <1>8 DEF Stop
<1>10. \A lo, hi : IsTile(lo, hi)' <=> IsTile(lo, hi)
  BY <1>1, <1>2, <1>3, <1>8 DEF IsTile
<1> QED
  BY <1>1, <1>2, <1>4, <1>5, <1>6, <1>7, <1>8, <1>9, <1>10

(* The tiles stay in order when none is launched.                          *)
LEMMA TilesKept ==
  ASSUME NEW q \in Parties, shape' = shape, from'[q] = from[q], to'[q] = to[q],
         tasks'[q] = tasks[q], pc'[q] = pc[q] \/ pc'[q] \notin {"fork", "launch", "get"},
         IF Numel > BlockSize THEN TilesInOrder(q) ELSE OneTile(q)
  PROVE  (IF Numel > BlockSize THEN TilesInOrder(q) ELSE OneTile(q))'
<1>1. /\ Numel' = Numel /\ SlicingDim' = SlicingDim /\ NumSliceDim' = NumSliceDim
      /\ NumTiles' = NumTiles /\ FirstFrom' = FirstFrom /\ FirstTo' = FirstTo
      /\ \A ix, k : Place(ix, k)' = Place(ix, k)
      /\ \A lo : Start(lo)' = Start(lo) /\ Column(lo)' = Column(lo)
      /\ \A lo, hi : Stop(lo, hi)' = Stop(lo, hi) /\ (IsTile(lo, hi)' <=> IsTile(lo, hi))
  BY SameShape
<1>2. \A i : Reached(q, i)' = Reached(q, i)
  BY <1>1 DEF Reached
<1>3. ASSUME TilesInOrder(q) PROVE TilesInOrder(q)'
  <2>1. TilesFollow(q)'
    BY <1>1, <1>2, <1>3 DEF TilesFollow, TilesInOrder
  <2>2. Reached(q, Len(tasks[q]))' = Reached(q, Len(tasks[q]))
    BY <1>1 DEF Reached
  <2> QED
    BY <1>1, <1>3, <2>1, <2>2 DEF TilesInOrder
<1>4. ASSUME OneTile(q) PROVE OneTile(q)'
  BY <1>1, <1>4 DEF OneTile
<1> QED
  BY <1>1, <1>3, <1>4

LEMMA Bystander ==
  ASSUME NEW q \in Parties, PartyOK(q), shape' = shape, pc'[q] = pc[q],
         from'[q] = from[q], to'[q] = to[q], tasks'[q] = tasks[q], got'[q] = got[q],
         data'[q] = data[q], ctxs'[q] = ctxs[q], out'[q] = out[q]
  PROVE  PartyOK(q)'
<1>1. (IF Numel > BlockSize THEN TilesInOrder(q) ELSE OneTile(q))'
  BY TilesKept DEF PartyOK
<1>2. ContextsHeld(q)'
  BY DEF PartyOK, ContextsHeld
<1>3. (pc[q] = "returned" => out[q] = [i \in 1 .. Numel |-> i - 1])'
  BY SameShape DEF PartyOK
<1> QED
  BY <1>1, <1>2, <1>3 DEF PartyOK

LEMMA StepOfParty ==
  ASSUME IInv, NEW p \in Parties, shape' = shape, StateTyped', PartyOK(p)',
         \A q \in Parties \ {p} :
           /\ pc'[q] = pc[q] /\ from'[q] = from[q] /\ to'[q] = to[q]
           /\ tasks'[q] = tasks[q] /\ got'[q] = got[q] /\ data'[q] = data[q]
           /\ ctxs'[q] = ctxs[q] /\ out'[q] = out[q]
  PROVE  IInv'
<1>1. \A q \in Parties : PartyOK(q)
  BY PartyByParty
<1>2. ASSUME NEW q \in Parties PROVE PartyOK(q)'
  <2>1. CASE q = p
    BY <2>1
  <2>2. CASE q # p
    <3>1. PartyOK(q)
      BY <1>1
    <3> QED
      BY <2>2, <3>1, Bystander
  <2> QED
    BY <2>1, <2>2
<1> QED
  BY <1>2 DEF IInv, PartyOK, Assembled

TaskSet == [from : Index, to : Index, status : Statuses]

LEMMA StateShape ==
  ASSUME StateTyped, NEW p \in Parties
  PROVE  /\ tasks \in [Parties -> Seq(TaskSet)] /\ tasks[p] \in Seq(TaskSet)
         /\ Len(tasks[p]) \in Nat /\ DOMAIN tasks[p] = 1 .. Len(tasks[p])
         /\ \A i \in 1 .. Len(tasks[p]) : tasks[p][i] \in TaskSet
         /\ shape \in Shapes /\ got[p] \in Nat
<1>1. tasks \in [Parties -> Seq(TaskSet)] /\ shape \in Shapes /\ got[p] \in Nat
  BY DEF StateTyped, TaskSet
<1> QED
  BY <1>1

LEMMA ShapeIsIndex ==
  ASSUME shape \in Shapes
  PROVE  FirstFrom \in Index /\ shape \in Index
<1>1. shape \in Seq(Nat \ {0}) /\ Rank \in Nat
  BY ShapeIs
<1>2. shape \in [1 .. Rank -> Nat]
  BY <1>1 DEF Rank
<1> QED
  BY <1>2 DEF FirstFrom, Index

LEMMA InitIInv == Init => IInv
<1> SUFFICES ASSUME Init PROVE IInv
  OBVIOUS
<1>1. shape \in Shapes /\ FirstFrom \in Index /\ shape \in Index
  BY ShapeIsIndex DEF Init
<1>2. Numel > BlockSize => FirstTo \in Index
  BY <1>1, FirstTile DEF IsTile
<1>3. Numel \in Nat /\ BlockSize \in Nat
  BY <1>1, NumelIs, SizesAssumption
<1>4. (IF Numel <= BlockSize THEN shape ELSE FirstTo) \in Index
  BY <1>1, <1>2, <1>3
<1>5. StateTyped
  BY <1>1, <1>4 DEF Init, StateTyped
<1>6. ASSUME NEW p \in Parties PROVE PartyOK(p)
  <2>1. /\ pc[p] = "fork" /\ tasks[p] = <<>> /\ from[p] = FirstFrom
        /\ to[p] = (IF Numel <= BlockSize THEN shape ELSE FirstTo)
        /\ got[p] = 0 /\ data[p] /\ ctxs[p]
    BY DEF Init
  <2>2. ContextsHeld(p)
    BY <2>1 DEF ContextsHeld
  <2>3. CASE Numel > BlockSize
    <3>1. TilesInOrder(p)
      BY <1>3, <2>1, <2>3 DEF TilesInOrder, TilesFollow
    <3> QED
      BY <2>1, <2>2, <2>3, <3>1 DEF PartyOK
  <2>4. CASE ~ (Numel > BlockSize)
    BY <1>3, <2>1, <2>2, <2>4 DEF PartyOK, OneTile
  <2> QED
    BY <2>3, <2>4
<1> QED
  BY <1>5, <1>6, PartyByParty

(* A task that begins or ends.                                             *)
Becomes(p, i, s) == tasks' = [tasks EXCEPT ![p][i].status = s]

LEMMA StatusSet ==
  ASSUME StateTyped, NEW p \in Parties, NEW i \in DOMAIN tasks[p],
         NEW s \in Statuses, Becomes(p, i, s)
  PROVE  /\ tasks' \in [Parties -> Seq(TaskSet)]
         /\ Len(tasks'[p]) = Len(tasks[p])
         /\ DOMAIN tasks'[p] = 1 .. Len(tasks[p])
         /\ tasks'[p][i].status = s
         /\ tasks'[p][i].from = tasks[p][i].from /\ tasks'[p][i].to = tasks[p][i].to
         /\ \A k \in 1 .. Len(tasks[p]) : k # i => tasks'[p][k] = tasks[p][k]
         /\ \A q \in Parties \ {p} : tasks'[q] = tasks[q]
<1> DEFINE T == tasks[p]
           t == [T[i] EXCEPT !.status = s]
           U == [T EXCEPT ![i] = t]
<1>1. /\ tasks \in [Parties -> Seq(TaskSet)] /\ T \in Seq(TaskSet) /\ Len(T) \in Nat
      /\ DOMAIN T = 1 .. Len(T) /\ i \in 1 .. Len(T) /\ T[i] \in TaskSet
  BY StateShape
<1>2. /\ tasks'[p] = U /\ tasks' = [tasks EXCEPT ![p] = U]
      /\ \A q \in Parties \ {p} : tasks'[q] = tasks[q]
  BY <1>1 DEF Becomes
<1> HIDE DEF T
<1>3. t \in TaskSet /\ t.status = s /\ t.from = T[i].from /\ t.to = T[i].to
  BY <1>1 DEF TaskSet
<1> HIDE DEF t
<1>4. /\ U \in Seq(TaskSet) /\ Len(U) = Len(T) /\ DOMAIN U = 1 .. Len(T)
      /\ U[i] = t /\ \A k \in 1 .. Len(T) : k # i => U[k] = T[k]
  BY <1>1, <1>3
<1> HIDE DEF U
<1>5. tasks' \in [Parties -> Seq(TaskSet)]
  BY <1>1, <1>2, <1>4
<1> QED
  BY <1>2, <1>3, <1>4, <1>5 DEF T

LEMMA StatusStep ==
  ASSUME IInv, NEW p \in Parties, NEW i \in DOMAIN tasks[p],
         tasks[p][i].status # "done", pc[p] \notin {"returned", "threw"},
         NEW s \in {"working", "done", "threw"},
         tasks' = [tasks EXCEPT ![p][i].status = s],
         UNCHANGED <<shape, pc, forks, from, to, got, data, ctxs, out>>
  PROVE  IInv'
<1> DEFINE n == Len(tasks[p])
<1>1. StateTyped /\ PartyOK(p) /\ ContextsHeld(p)
  BY PartyByParty DEF PartyOK
<1>2. /\ n \in Nat /\ DOMAIN tasks[p] = 1 .. n /\ i \in 1 .. n
      /\ tasks \in [Parties -> Seq(TaskSet)] /\ got[p] \in Nat
  BY <1>1, StateShape
<1>3. s \in Statuses
  BY DEF Statuses
<1>4. /\ tasks' \in [Parties -> Seq(TaskSet)] /\ Len(tasks'[p]) = n
      /\ DOMAIN tasks'[p] = 1 .. n /\ tasks'[p][i].status = s
      /\ tasks'[p][i].from = tasks[p][i].from /\ tasks'[p][i].to = tasks[p][i].to
      /\ \A k \in 1 .. n : k # i => tasks'[p][k] = tasks[p][k]
      /\ \A q \in Parties \ {p} : tasks'[q] = tasks[q]
  <2>1. Becomes(p, i, s)
    BY DEF Becomes
  <2>2. i \in DOMAIN tasks[p] /\ p \in Parties
    OBVIOUS
  <2> HIDE DEF n
  <2> QED
    BY ONLY <1>1, <1>3, <2>1, <2>2, StatusSet DEF n
<1>5. /\ Numel' = Numel /\ SlicingDim' = SlicingDim /\ NumSliceDim' = NumSliceDim
      /\ NumTiles' = NumTiles /\ FirstFrom' = FirstFrom /\ FirstTo' = FirstTo
      /\ Index' = Index
      /\ \A ix, k : Place(ix, k)' = Place(ix, k)
      /\ \A lo : Start(lo)' = Start(lo) /\ Column(lo)' = Column(lo)
      /\ \A lo, hi : Stop(lo, hi)' = Stop(lo, hi) /\ (IsTile(lo, hi)' <=> IsTile(lo, hi))
  BY SameShape
<1>6. StateTyped'
  BY <1>1, <1>4, <1>5 DEF StateTyped, TaskSet, Statuses
<1>7. \A k \in 1 .. n :
        tasks'[p][k].from = tasks[p][k].from /\ tasks'[p][k].to = tasks[p][k].to
  BY <1>4
<1> HIDE DEF n
<1>8. \A k \in 0 .. n : Reached(p, k)' = Reached(p, k)
  <2> TAKE k \in 0 .. n
  <2>1. k # 0 => k \in 1 .. n
    BY <1>2
  <2> QED
    BY <1>5, <1>7, <2>1 DEF Reached
<1>9. ASSUME Numel > BlockSize PROVE TilesInOrder(p)'
  <2>1. TilesInOrder(p)
    BY <1>1, <1>9 DEF PartyOK
  <2>2. pc[p] # "fork"
    <3>1. tasks[p] # <<>>
      BY <1>2
    <3> QED
      BY <2>1, <3>1 DEF TilesInOrder
  <2>3. \A k \in 1 .. n : k - 1 \in 0 .. n
    BY <1>2
  <2>4. TilesFollow(p)'
    <3>1. \A k \in 1 .. n : Reached(p, k - 1)' = Reached(p, k - 1)
      BY <1>8, <2>3
    <3>2. \A k \in 1 .. n :
            /\ IsTile(tasks[p][k].from, tasks[p][k].to)
            /\ Start(tasks[p][k].from) = Reached(p, k - 1)
      BY <1>2, <2>1 DEF TilesInOrder, TilesFollow
    <3>3. \A k \in 1 .. n :
            /\ IsTile(tasks'[p][k].from, tasks'[p][k].to)
            /\ Start(tasks'[p][k].from) = Reached(p, k - 1)
      BY <1>7, <3>2
    <3> QED
      BY <1>4, <1>5, <3>1, <3>3 DEF TilesFollow
  <2>5. Reached(p, Len(tasks[p]))' = Reached(p, Len(tasks[p]))
    <3>1. n = Len(tasks[p]) /\ n = Len(tasks'[p]) /\ n \in 0 .. n
      BY <1>2, <1>4 DEF n
    <3>2. n # 0 => tasks'[p][n].from = tasks[p][n].from /\ tasks'[p][n].to = tasks[p][n].to
      BY <1>2, <1>7
    <3> QED
      BY <1>5, <3>1, <3>2 DEF Reached
  <2>6. Len(tasks'[p]) = Len(tasks[p])
    BY <1>4 DEF n
  <2> QED
    BY <1>5, <2>1, <2>2, <2>4, <2>5, <2>6 DEF TilesInOrder
<1>10. ASSUME ~ (Numel > BlockSize) PROVE OneTile(p)'
  <2>1. OneTile(p)
    BY <1>1, <1>10 DEF PartyOK
  <2>2. n = Len(tasks[p]) /\ n = Len(tasks'[p])
    BY <1>4 DEF n
  <2>3. pc[p] # "fork"
    <3>1. tasks[p] # <<>>
      BY <1>2
    <3> QED
      BY <2>1, <3>1 DEF OneTile
  <2> QED
    BY <1>2, <1>4, <1>5, <1>7, <2>1, <2>2, <2>3 DEF OneTile
<1>11. ContextsHeld(p)'
  <2>1. Len(tasks'[p]) = Len(tasks[p])
    BY <1>4 DEF n
  <2>2. ~ (i \in 1 .. got[p])
    BY <1>1 DEF ContextsHeld
  <2>3. \A k \in 1 .. got[p] : k \in 1 .. n
    <3>1. got[p] <= n
      BY <1>1 DEF ContextsHeld, n
    <3> QED
      BY <1>2, <3>1
  <2>4. \A k \in 1 .. got[p] : tasks'[p][k].status = "done"
    BY <1>1, <1>4, <2>2, <2>3 DEF ContextsHeld
  <2> QED
    BY <1>1, <2>1, <2>4 DEF ContextsHeld
<1>12. PartyOK(p)'
  BY <1>5, <1>9, <1>10, <1>11 DEF PartyOK
<1> QED
  BY <1>4, <1>6, <1>12, StepOfParty

LEMMA WholeStep ==
  ASSUME IInv, NEW p \in Parties, Whole(p)
  PROVE  IInv'
<1> DEFINE t == [from |-> from[p], to |-> to[p], status |-> "working"]
<1>1. StateTyped /\ PartyOK(p) /\ ContextsHeld(p) /\ shape \in Shapes
  BY PartyByParty DEF PartyOK, StateTyped
<1>2. /\ UNCHANGED <<shape, forks, from, to, got, data, ctxs, out>>
      /\ pc[p] = "fork" /\ Numel <= BlockSize
      /\ tasks' = [tasks EXCEPT ![p] = <<t>>] /\ pc' = [pc EXCEPT ![p] = "get"]
  BY DEF Whole
<1>3. Numel \in Nat /\ BlockSize \in Nat /\ ~ (Numel > BlockSize)
  BY <1>1, <1>2, NumelIs, SizesAssumption
<1>4. OneTile(p) /\ from[p] = FirstFrom /\ to[p] = shape
  BY <1>1, <1>3 DEF PartyOK, OneTile
<1>5. t \in TaskSet
  <2>1. from[p] \in Index /\ to[p] \in Index /\ "working" \in Statuses
    BY <1>1 DEF StateTyped, Statuses
  <2> QED
    BY <2>1 DEF TaskSet
<1>6. /\ Numel' = Numel /\ Index' = Index /\ FirstFrom' = FirstFrom
  BY <1>2, SameShape
<1>7. /\ pc'[p] = "get" /\ tasks'[p] = <<t>>
      /\ \A q \in Parties \ {p} : pc'[q] = pc[q] /\ tasks'[q] = tasks[q]
  BY <1>1, <1>2 DEF StateTyped
<1> HIDE DEF t
<1>8. <<t>> \in Seq(TaskSet) /\ Len(<<t>>) = 1 /\ DOMAIN <<t>> = {1} /\ <<t>>[1] = t
  BY <1>5
<1>9. StateTyped'
  <2>1. tasks' \in [Parties -> Seq(TaskSet)]
    BY <1>1, <1>2, <1>8 DEF StateTyped, TaskSet
  <2> QED
    BY <1>1, <1>2, <1>6, <2>1 DEF StateTyped, TaskSet, Statuses
<1>10. t.from = FirstFrom /\ t.to = shape
  BY <1>4 DEF t
<1>11. OneTile(p)'
  BY <1>2, <1>4, <1>6, <1>7, <1>8, <1>10 DEF OneTile
<1>12. ContextsHeld(p)'
  <2>1. got[p] = 0
    <3>1. got[p] \in Nat
      BY <1>1 DEF StateTyped
    <3>2. Len(tasks[p]) = 0
      BY <1>2, <1>4 DEF OneTile
    <3> QED
      BY <1>1, <3>1, <3>2 DEF ContextsHeld
  <2> QED
    BY <1>1, <1>2, <1>7, <1>8, <2>1 DEF ContextsHeld
<1>13. PartyOK(p)'
  BY <1>3, <1>2, <1>6, <1>7, <1>11, <1>12 DEF PartyOK
<1> QED
  BY <1>2, <1>7, <1>9, <1>13, StepOfParty

LEMMA ForkStep ==
  ASSUME IInv, NEW p \in Parties, Fork(p)
  PROVE  IInv'
<1>1. StateTyped /\ PartyOK(p) /\ ContextsHeld(p) /\ shape \in Shapes
  BY PartyByParty DEF PartyOK, StateTyped
<1>2. /\ UNCHANGED <<shape, from, to, tasks, got, data, ctxs, out>>
      /\ pc[p] = "fork" /\ Numel > BlockSize
      /\ IF forks[p] < NumTiles
         THEN forks' = [forks EXCEPT ![p] = @ + 1] /\ UNCHANGED pc
         ELSE pc' = [pc EXCEPT ![p] = "launch"] /\ UNCHANGED forks
  BY DEF Fork
<1>3. /\ Numel' = Numel /\ Index' = Index /\ SlicingDim' = SlicingDim
      /\ NumSliceDim' = NumSliceDim /\ NumTiles' = NumTiles
      /\ \A ix, k : Place(ix, k)' = Place(ix, k)
      /\ \A lo : Start(lo)' = Start(lo) /\ Column(lo)' = Column(lo)
      /\ \A lo, hi : Stop(lo, hi)' = Stop(lo, hi) /\ (IsTile(lo, hi)' <=> IsTile(lo, hi))
  BY <1>2, SameShape
<1>4. StateTyped'
  <2>1. forks' \in [Parties -> Nat]
    <3>1. forks \in [Parties -> Nat]
      BY <1>1 DEF StateTyped
    <3>2. forks' = forks \/ forks' = [forks EXCEPT ![p] = @ + 1]
      BY <1>2
    <3> QED
      BY <3>1, <3>2
  <2>2. pc' \in [Parties ->
            {"fork", "launch", "get", "unwind", "returned", "threw", "crashed"}]
    BY <1>1, <1>2 DEF StateTyped
  <2> QED
    BY <1>1, <1>2, <1>3, <2>1, <2>2 DEF StateTyped, Statuses
<1>5. \A q \in Parties \ {p} : pc'[q] = pc[q]
  BY <1>1, <1>2 DEF StateTyped
<1>6. CASE pc'[p] = pc[p]
  BY <1>1, <1>2, <1>4, <1>5, <1>6, Bystander, StepOfParty
<1>7. CASE pc'[p] # pc[p]
  <2>1. pc'[p] = "launch"
    BY <1>1, <1>2, <1>7 DEF StateTyped
  <2>2. TilesInOrder(p) /\ tasks[p] = <<>> /\ from[p] = FirstFrom /\ to[p] = FirstTo
    BY <1>1, <1>2 DEF PartyOK, TilesInOrder
  <2>3. /\ IsTile(from[p], to[p]) /\ Start(from[p]) = 0
        /\ Place(from[p], SlicingDim - 1) = 0 /\ Column(from[p]) = 0
    BY <1>1, <1>2, <2>2, FirstTile
  <2>4. Len(tasks[p]) = 0 /\ 0 < NumTiles /\ 0 = 0 * NumSliceDim + 0
    BY <1>1, <1>2, <2>2, CutsAlong
  <2>5. TilesFollow(p)'
    BY <1>2, <2>2 DEF TilesFollow
  <2>6. Reached(p, Len(tasks[p]))' = 0
    BY <1>2, <2>4 DEF Reached
  <2>7. TilesInOrder(p)'
    BY <1>2, <1>3, <2>1, <2>3, <2>4, <2>5, <2>6 DEF TilesInOrder
  <2>8. ContextsHeld(p)'
    BY <1>1, <1>2, <2>1 DEF ContextsHeld
  <2>9. PartyOK(p)'
    BY <1>2, <1>3, <2>1, <2>7, <2>8 DEF PartyOK
  <2> QED
    BY <1>2, <1>4, <1>5, <2>9, StepOfParty
<1> QED
  BY <1>6, <1>7

LEMMA LaunchStep ==
  ASSUME IInv, NEW p \in Parties, Launch(p)
  PROVE  IInv'
<1> DEFINE n == Len(tasks[p])
<1>1. StateTyped /\ PartyOK(p) /\ ContextsHeld(p) /\ shape \in Shapes
  BY PartyByParty DEF PartyOK, StateTyped
<1>2. PICK policy \in Policies :
        tasks' = [tasks EXCEPT ![p] =
                    Append(@, [from |-> from[p], to |-> to[p], status |-> policy])]
  BY DEF Launch
<1> DEFINE t == [from |-> from[p], to |-> to[p], status |-> policy]
           T == tasks[p]
           U == Append(T, t)
<1>3. /\ UNCHANGED <<shape, forks, got, data, ctxs, out>> /\ pc[p] = "launch"
      /\ from' = [from EXCEPT ![p] = NextFrom(p)] /\ to' = [to EXCEPT ![p] = NextTo(p)]
      /\ pc' = [pc EXCEPT ![p] = IF n + 1 = NumTiles THEN "get" ELSE "launch"]
  BY DEF Launch
<1>4. /\ n \in Nat /\ DOMAIN T = 1 .. n /\ T \in Seq(TaskSet)
      /\ tasks \in [Parties -> Seq(TaskSet)] /\ got[p] \in Nat
  BY <1>1, StateShape
<1>5. /\ Numel > BlockSize /\ TilesInOrder(p)
  BY <1>1, <1>3 DEF PartyOK, OneTile
<1>6. /\ IsTile(from[p], to[p]) /\ Start(from[p]) = Reached(p, n)
      /\ n = Place(from[p], SlicingDim - 1) * NumSliceDim + Column(from[p])
      /\ n < NumTiles /\ TilesFollow(p)
  BY <1>3, <1>5 DEF TilesInOrder
<1>7. NumTiles \in Nat
  BY <1>1, <1>5, CutsAlong
<1>8. /\ IsTile(NextFrom(p), NextTo(p))
      /\ n + 1 < NumTiles =>
           /\ Start(NextFrom(p)) = Stop(from[p], to[p])
           /\ Place(NextFrom(p), SlicingDim - 1) * NumSliceDim + Column(NextFrom(p)) = n + 1
      /\ n + 1 = NumTiles => Stop(from[p], to[p]) = Numel
  BY <1>1, <1>4, <1>5, <1>6, NextTile
<1>9. NextFrom(p) \in Index /\ NextTo(p) \in Index
  BY <1>8 DEF IsTile
<1>10. /\ Numel' = Numel /\ Index' = Index /\ SlicingDim' = SlicingDim
       /\ NumSliceDim' = NumSliceDim /\ NumTiles' = NumTiles
       /\ \A ix, k : Place(ix, k)' = Place(ix, k)
       /\ \A lo : Start(lo)' = Start(lo) /\ Column(lo)' = Column(lo)
       /\ \A lo, hi : Stop(lo, hi)' = Stop(lo, hi) /\ (IsTile(lo, hi)' <=> IsTile(lo, hi))
  BY <1>3, SameShape
<1>11. t \in TaskSet /\ t.from = from[p] /\ t.to = to[p] /\ t.status \in {"queued", "deferred"}
  <2>1. from[p] \in Index /\ to[p] \in Index /\ policy \in {"queued", "deferred"}
    BY <1>1, PoliciesAssumption DEF StateTyped
  <2> QED
    BY <2>1 DEF TaskSet, Statuses
<1>12. tasks'[p] = U /\ tasks' = [tasks EXCEPT ![p] = U]
       /\ \A q \in Parties \ {p} : tasks'[q] = tasks[q]
  BY <1>2, <1>4
<1> HIDE DEF t, T
<1>13. /\ U \in Seq(TaskSet) /\ Len(U) = Len(T) + 1 /\ DOMAIN U = 1 .. Len(T) + 1
       /\ U[Len(T) + 1] = t /\ \A i \in 1 .. Len(T) : U[i] = T[i]
  <2> USE DEF T
  <2>1. T \in Seq(TaskSet) /\ t \in TaskSet /\ Len(T) \in Nat
    BY <1>4, <1>11
  <2> HIDE DEF T
  <2> QED
    BY <2>1
<1> HIDE DEF U
<1>14. StateTyped'
  <2>1. tasks' \in [Parties -> Seq(TaskSet)]
    BY <1>4, <1>12, <1>13
  <2>2. from' \in [Parties -> Index] /\ to' \in [Parties -> Index]
    BY <1>1, <1>3, <1>9 DEF StateTyped
  <2>3. pc' \in [Parties ->
            {"fork", "launch", "get", "unwind", "returned", "threw", "crashed"}]
    BY <1>1, <1>3 DEF StateTyped
  <2> QED
    BY <1>1, <1>3, <1>10, <2>1, <2>2, <2>3 DEF StateTyped, TaskSet, Statuses
<1>15. /\ from'[p] = NextFrom(p) /\ to'[p] = NextTo(p)
       /\ pc'[p] = (IF n + 1 = NumTiles THEN "get" ELSE "launch")
       /\ \A q \in Parties \ {p} :
            pc'[q] = pc[q] /\ from'[q] = from[q] /\ to'[q] = to[q]
  BY <1>1, <1>3 DEF StateTyped
<1>16. /\ Len(tasks'[p]) = n + 1 /\ DOMAIN tasks'[p] = 1 .. n + 1
       /\ tasks'[p][n + 1] = t /\ \A i \in 1 .. n : tasks'[p][i] = tasks[p][i]
  BY <1>12, <1>13 DEF T
<1> HIDE DEF n
<1>17. \A i \in 0 .. n : Reached(p, i)' = Reached(p, i)
  <2> TAKE i \in 0 .. n
  <2>1. i # 0 => i \in 1 .. n
    BY <1>4
  <2> QED
    BY <1>10, <1>16, <2>1 DEF Reached
<1>18. TilesFollow(p)'
  <2>1. ASSUME NEW i \in 1 .. n + 1
        PROVE  /\ IsTile(tasks'[p][i].from, tasks'[p][i].to)
               /\ Start(tasks'[p][i].from) = Reached(p, i - 1)'
    <3>1. CASE i \in 1 .. n
      <4>1. /\ IsTile(tasks[p][i].from, tasks[p][i].to)
            /\ Start(tasks[p][i].from) = Reached(p, i - 1)
        BY <1>4, <1>6, <3>1 DEF TilesFollow, T
      <4>2. i - 1 \in 0 .. n
        BY <1>4, <3>1
      <4>3. Reached(p, i - 1)' = Reached(p, i - 1)
        BY <1>17, <4>2
      <4> QED
        BY <1>16, <3>1, <4>1, <4>3
    <3>2. CASE ~ (i \in 1 .. n)
      <4>1. i = n + 1 /\ i - 1 = n /\ n \in 0 .. n
        BY <1>4, <3>2
      <4>2. Reached(p, i - 1)' = Reached(p, n)
        BY <1>17, <4>1
      <4> QED
        BY <1>6, <1>11, <1>16, <4>1, <4>2
    <3> QED
      BY <3>1, <3>2
  <2> QED
    BY <1>10, <1>16, <2>1 DEF TilesFollow
<1>19. Reached(p, Len(tasks[p]))' = Stop(from[p], to[p])
  <2>1. Len(tasks'[p]) # 0 /\ Len(tasks'[p]) = n + 1
    BY <1>4, <1>16
  <2> QED
    BY <1>10, <1>11, <1>16, <2>1 DEF Reached
<1>20. TilesInOrder(p)'
  <2>1. n + 1 < NumTiles \/ n + 1 = NumTiles
    BY <1>4, <1>6, <1>7
  <2>2. CASE n + 1 = NumTiles
    <3>1. pc'[p] = "get" /\ Len(tasks'[p]) = NumTiles
      BY <1>15, <1>16, <2>2
    <3> QED
      BY <1>8, <1>10, <1>18, <1>19, <2>2, <3>1 DEF TilesInOrder
  <2>3. CASE n + 1 < NumTiles
    <3>1. n + 1 # NumTiles
      BY <1>4, <1>7, <2>3
    <3>2. pc'[p] = "launch" /\ Len(tasks'[p]) = n + 1
      BY <1>15, <1>16, <3>1
    <3> QED
      BY <1>8, <1>10, <1>15, <1>18, <1>19, <2>3, <3>2 DEF TilesInOrder
  <2> QED
    BY <2>1, <2>2, <2>3
<1>21. ContextsHeld(p)'
  <2>1. pc'[p] \in {"launch", "get"} /\ got'[p] = got[p] /\ ctxs'[p] = ctxs[p]
        /\ data'[p] = data[p]
    BY <1>3, <1>15
  <2>2. got[p] <= n /\ \A i \in 1 .. got[p] : tasks[p][i].status = "done"
    BY <1>1 DEF ContextsHeld, n
  <2>3. \A i \in 1 .. got[p] : i \in 1 .. n
    BY <1>4, <2>2
  <2>4. got[p] <= Len(tasks'[p]) /\ \A i \in 1 .. got[p] : tasks'[p][i].status = "done"
    BY <1>4, <1>16, <2>2, <2>3
  <2> QED
    BY <1>1, <1>3, <2>1, <2>4 DEF ContextsHeld
<1>22. PartyOK(p)'
  BY <1>5, <1>10, <1>15, <1>20, <1>21 DEF PartyOK
<1> QED
  BY <1>3, <1>12, <1>14, <1>15, <1>22, StepOfParty

(* A thread begins a task; the one that finds no array may crash, and then *)
(* the caller is waiting for it.                                           *)
LEMMA BeginStep ==
  ASSUME IInv, NEW p \in Parties, NEW i \in DOMAIN tasks[p], Begin(p, i)
  PROVE  IInv'
<1>1. StateTyped /\ PartyOK(p) /\ ContextsHeld(p)
  BY PartyByParty DEF PartyOK
<1>2. /\ tasks[p][i].status = "queued"
      /\ UNCHANGED <<shape, forks, from, to, got, data, ctxs, out>>
      /\ \/ tasks' = [tasks EXCEPT ![p][i].status = "working"] /\ UNCHANGED pc
         \/ tasks' = [tasks EXCEPT ![p][i].status = "threw"] /\ UNCHANGED pc
         \/ ~data[p] /\ pc' = [pc EXCEPT ![p] = "crashed"] /\ UNCHANGED tasks
  BY DEF Begin
<1>3. pc[p] \notin {"returned", "threw"} /\ tasks[p][i].status # "done"
  BY <1>1, <1>2 DEF ContextsHeld
<1>4. CASE tasks' = [tasks EXCEPT ![p][i].status = "working"] /\ UNCHANGED pc
  BY <1>2, <1>3, <1>4, StatusStep
<1>5. CASE tasks' = [tasks EXCEPT ![p][i].status = "threw"] /\ UNCHANGED pc
  BY <1>2, <1>3, <1>5, StatusStep
<1>6. CASE ~data[p] /\ pc' = [pc EXCEPT ![p] = "crashed"] /\ UNCHANGED tasks
  <2>1. /\ pc' \in [Parties ->
              {"fork", "launch", "get", "unwind", "returned", "threw", "crashed"}]
        /\ pc'[p] = "crashed" /\ \A q \in Parties \ {p} : pc'[q] = pc[q]
    BY <1>1, <1>6 DEF StateTyped
  <2>2. Numel' = Numel /\ Index' = Index
    BY <1>2, SameShape
  <2>3. StateTyped'
    BY <1>1, <1>2, <1>6, <2>1, <2>2 DEF StateTyped, Statuses
  <2>4. (IF Numel > BlockSize THEN TilesInOrder(p) ELSE OneTile(p))'
    BY <1>1, <1>2, <1>6, <2>1, TilesKept DEF PartyOK
  <2>5. ContextsHeld(p)'
    BY <1>1, <1>2, <1>3, <1>6, <2>1 DEF ContextsHeld
  <2>6. PartyOK(p)'
    BY <2>1, <2>4, <2>5 DEF PartyOK
  <2> QED
    BY <1>2, <1>6, <2>1, <2>3, <2>6, StepOfParty
<1> QED
  BY <1>2, <1>4, <1>5, <1>6

LEMMA KernelEnds ==
  ASSUME IInv, NEW p \in Parties, NEW i \in DOMAIN tasks[p],
         tasks[p][i].status = "working", NEW s \in {"done", "threw"},
         tasks' = [tasks EXCEPT ![p][i].status = s],
         UNCHANGED <<shape, pc, forks, from, to, got, data, ctxs, out>>
  PROVE  IInv'
<1>1. ContextsHeld(p)
  BY PartyByParty DEF PartyOK
<1>2. pc[p] \notin {"returned", "threw"}
  BY <1>1 DEF ContextsHeld
<1>3. s \in {"working", "done", "threw"} /\ tasks[p][i].status # "done"
  OBVIOUS
<1> QED
  BY <1>2, <1>3, StatusStep

LEMMA GetDeferredStep ==
  ASSUME IInv, NEW p \in Parties, GetDeferred(p)
  PROVE  IInv'
<1> DEFINE i == got[p] + 1
<1>1. StateTyped
  BY PartyByParty
<1>2. /\ pc[p] = "get" /\ got[p] < Len(tasks[p]) /\ tasks[p][i].status = "deferred"
      /\ tasks' = [tasks EXCEPT ![p][i].status = "working"]
      /\ UNCHANGED <<shape, pc, forks, from, to, got, data, ctxs, out>>
  BY DEF GetDeferred
<1>3. i \in DOMAIN tasks[p]
  <2>1. got[p] \in Nat /\ Len(tasks[p]) \in Nat /\ DOMAIN tasks[p] = 1 .. Len(tasks[p])
    BY <1>1, StateShape
  <2> QED
    BY <1>2, <2>1
<1> HIDE DEF i
<1>4. pc[p] \notin {"returned", "threw"} /\ tasks[p][i].status # "done"
  BY <1>2
<1> QED
  BY <1>2, <1>3, <1>4, StatusStep

LEMMA GetResultStep ==
  ASSUME IInv, NEW p \in Parties, GetResult(p)
  PROVE  IInv'
<1>1. StateTyped /\ PartyOK(p) /\ ContextsHeld(p)
  BY PartyByParty DEF PartyOK
<1>2. /\ pc[p] = "get" /\ got[p] < Len(tasks[p]) /\ tasks[p][got[p] + 1].status = "done"
      /\ got' = [got EXCEPT ![p] = @ + 1]
      /\ UNCHANGED <<shape, pc, forks, from, to, tasks, data, ctxs, out>>
  BY DEF GetResult
<1>3. got[p] \in Nat /\ Len(tasks[p]) \in Nat
  BY <1>1, StateShape
<1>4. /\ got' \in [Parties -> Nat] /\ got'[p] = got[p] + 1
      /\ \A q \in Parties \ {p} : got'[q] = got[q]
  BY <1>1, <1>2, <1>3 DEF StateTyped
<1>5. Numel' = Numel /\ Index' = Index
  BY <1>2, SameShape
<1>6. StateTyped'
  BY <1>1, <1>2, <1>4, <1>5 DEF StateTyped, Statuses
<1>7. (IF Numel > BlockSize THEN TilesInOrder(p) ELSE OneTile(p))'
  BY <1>1, <1>2, TilesKept DEF PartyOK
<1>8. ContextsHeld(p)'
  <2>1. got'[p] <= Len(tasks[p])
    BY <1>2, <1>3, <1>4
  <2>2. \A i \in 1 .. got'[p] : tasks[p][i].status = "done"
    <3> TAKE i \in 1 .. got'[p]
    <3>1. i \in 1 .. got[p] \/ i = got[p] + 1
      BY <1>3, <1>4
    <3> QED
      BY <1>1, <1>2, <3>1 DEF ContextsHeld
  <2> QED
    BY <1>1, <1>2, <2>1, <2>2 DEF ContextsHeld
<1>9. PartyOK(p)'
  BY <1>2, <1>7, <1>8 DEF PartyOK
<1> QED
  BY <1>2, <1>4, <1>6, <1>9, StepOfParty

LEMMA RethrowStep ==
  ASSUME IInv, NEW p \in Parties, Rethrow(p)
  PROVE  IInv'
<1>1. StateTyped /\ PartyOK(p) /\ ContextsHeld(p)
  BY PartyByParty DEF PartyOK
<1>2. /\ pc[p] = "get"
      /\ data' = [data EXCEPT ![p] = FALSE] /\ pc' = [pc EXCEPT ![p] = "unwind"]
      /\ UNCHANGED <<shape, forks, from, to, tasks, got, ctxs, out>>
  BY DEF Rethrow
<1>3. /\ pc' \in [Parties ->
            {"fork", "launch", "get", "unwind", "returned", "threw", "crashed"}]
      /\ data' \in [Parties -> BOOLEAN] /\ pc'[p] = "unwind"
      /\ \A q \in Parties \ {p} : pc'[q] = pc[q] /\ data'[q] = data[q]
  BY <1>1, <1>2 DEF StateTyped
<1>4. Numel' = Numel /\ Index' = Index
  BY <1>2, SameShape
<1>5. StateTyped'
  BY <1>1, <1>2, <1>3, <1>4 DEF StateTyped, Statuses
<1>6. (IF Numel > BlockSize THEN TilesInOrder(p) ELSE OneTile(p))'
  BY <1>1, <1>2, <1>3, TilesKept DEF PartyOK
<1>7. ContextsHeld(p)'
  BY <1>1, <1>2, <1>3 DEF ContextsHeld
<1>8. PartyOK(p)'
  BY <1>3, <1>6, <1>7 DEF PartyOK
<1> QED
  BY <1>2, <1>3, <1>5, <1>8, StepOfParty

(* The contexts go when the tasks that were waited for have ended.         *)
LEMMA JoinStep ==
  ASSUME IInv, NEW p \in Parties, Join(p)
  PROVE  IInv'
<1>1. StateTyped /\ PartyOK(p) /\ ContextsHeld(p)
  BY PartyByParty DEF PartyOK
<1>2. /\ \A i \in DOMAIN tasks[p] : tasks[p][i].status \notin {"queued", "working"}
      /\ ctxs' = [ctxs EXCEPT ![p] = FALSE] /\ pc' = [pc EXCEPT ![p] = "threw"]
      /\ UNCHANGED <<shape, forks, from, to, tasks, got, data, out>>
  BY DEF Join
<1>3. /\ pc' \in [Parties ->
            {"fork", "launch", "get", "unwind", "returned", "threw", "crashed"}]
      /\ ctxs' \in [Parties -> BOOLEAN] /\ pc'[p] = "threw"
      /\ \A q \in Parties \ {p} : pc'[q] = pc[q] /\ ctxs'[q] = ctxs[q]
  BY <1>1, <1>2 DEF StateTyped
<1>4. Numel' = Numel /\ Index' = Index
  BY <1>2, SameShape
<1>5. StateTyped'
  BY <1>1, <1>2, <1>3, <1>4 DEF StateTyped, Statuses
<1>6. (IF Numel > BlockSize THEN TilesInOrder(p) ELSE OneTile(p))'
  BY <1>1, <1>2, <1>3, TilesKept DEF PartyOK
<1>7. ContextsHeld(p)'
  BY <1>1, <1>2, <1>3 DEF ContextsHeld
<1>8. PartyOK(p)'
  BY <1>3, <1>6, <1>7 DEF PartyOK
<1> QED
  BY <1>2, <1>3, <1>5, <1>8, StepOfParty

----------------------------------------------------------------------------
(* The results of adjacent tiles, one after the other.                     *)
UpTo(n) == [i \in 1 .. n |-> i - 1]

LEMMA ElementsFollow ==
  ASSUME NEW a \in Nat, NEW b \in Nat, a <= b
  PROVE  UpTo(a) \o [i \in 1 .. b - a |-> a + i - 1] = UpTo(b)
<1> DEFINE s == UpTo(a)
           t == [i \in 1 .. b - a |-> a + i - 1]
           u == s \o t
<1>1. s \in Seq(Int) /\ Len(s) = a /\ \A i \in 1 .. a : s[i] = i - 1
  BY DEF UpTo
<1>2. b - a \in Nat
  OBVIOUS
<1>3. t \in Seq(Int) /\ Len(t) = b - a /\ \A i \in 1 .. b - a : t[i] = a + i - 1
  BY <1>2
<1> HIDE DEF s, t
<1>4. u \in Seq(Int) /\ Len(u) = b
  <2>1. u \in Seq(Int) /\ Len(u) = Len(s) + Len(t)
    BY <1>1, <1>3, ConcatProperties
  <2> QED
    BY <1>1, <1>3, <2>1
<1>5. ASSUME NEW i \in 1 .. b PROVE u[i] = i - 1
  <2>1. CASE i <= a
    BY <1>1, <1>3, <2>1
  <2>2. CASE ~ (i <= a)
    <3>1. i - a \in 1 .. b - a /\ u[i] = t[i - a]
      BY <1>1, <1>3, <2>2
    <3> QED
      BY <1>3, <3>1
  <2> QED
    BY <2>1, <2>2
<1> HIDE DEF u
<1>6. u = [i \in 1 .. b |-> u[i]]
  BY <1>4
<1>7. u = UpTo(b)
  BY <1>5, <1>6 DEF UpTo
<1> QED
  BY <1>7 DEF s, t, u

LEMMA FlattenAdjacent ==
  ASSUME NEW n \in Nat \ {0}, NEW B \in [0 .. n -> Nat], B[0] = 0,
         NEW seqs, Len(seqs) = n,
         \A w \in 1 .. n : /\ B[w - 1] <= B[w]
                           /\ seqs[w] = [i \in 1 .. B[w] - B[w - 1] |-> B[w - 1] + i - 1]
  PROVE  FlattenSeq(seqs) = UpTo(B[n])
<1> DEFINE Flat(f) == f = [i \in 1 .. n |-> IF i = 1 THEN seqs[i] ELSE f[i - 1] \o seqs[i]]
           g == [i \in 1 .. n |-> UpTo(B[i])]
           f == CHOOSE h : Flat(h)
<1>1. \A w \in 1 .. n : UpTo(B[w - 1]) \o seqs[w] = UpTo(B[w])
  <2> TAKE w \in 1 .. n
  <2> DEFINE a == B[w - 1]
             b == B[w]
  <2>1. a \in Nat /\ b \in Nat /\ a <= b /\ seqs[w] = [i \in 1 .. b - a |-> a + i - 1]
    OBVIOUS
  <2> HIDE DEF a, b
  <2>2. UpTo(a) \o [i \in 1 .. b - a |-> a + i - 1] = UpTo(b)
    BY ONLY <2>1, ElementsFollow
  <2>3. UpTo(a) \o seqs[w] = UpTo(b)
    BY <2>1, <2>2
  <2> QED
    BY <2>3 DEF a, b
<1>2. seqs[1] = UpTo(B[1])
  <2>1. B[1] \in Nat /\ 1 \in 1 .. n /\ 1 - 1 = 0
    OBVIOUS
  <2>2. seqs[1] = [i \in 1 .. B[1] - 0 |-> 0 + i - 1]
    BY <2>1
  <2>3. B[1] - 0 = B[1] /\ \A i \in 1 .. B[1] : 0 + i - 1 = i - 1
    BY <2>1
  <2> QED
    BY <2>2, <2>3 DEF UpTo
<1>3. Flat(g)
  <2>1. ASSUME NEW i \in 1 .. n
        PROVE  UpTo(B[i]) = IF i = 1 THEN seqs[i] ELSE g[i - 1] \o seqs[i]
    <3>1. i # 1 => i - 1 \in 1 .. n
      OBVIOUS
    <3>2. i # 1 => g[i - 1] = UpTo(B[i - 1])
      BY <3>1
    <3> QED
      BY <1>1, <1>2, <3>2
  <2>2. g = [i \in 1 .. n |-> UpTo(B[i])]
    OBVIOUS
  <2> HIDE DEF g
  <2> QED
    BY <2>1, <2>2
<1>4. Flat(f)
  <2> HIDE DEF Flat, g
  <2> QED
    BY <1>3
<1>5. FlattenSeq(seqs) = f[n]
  BY DEF FlattenSeq
<1> HIDE DEF f
<1>6. \A i \in 1 .. n : f[i] = IF i = 1 THEN seqs[i] ELSE f[i - 1] \o seqs[i]
  BY <1>4
<1> HIDE DEF Flat, g
<1> DEFINE S == {m \in Nat : m \in 1 .. n => f[m] = UpTo(B[m])}
<1>7. 0 \in S
  OBVIOUS
<1>8. ASSUME NEW m \in Nat, m \in S PROVE m + 1 \in S
  <2> SUFFICES ASSUME m + 1 \in 1 .. n PROVE f[m + 1] = UpTo(B[m + 1])
    OBVIOUS
  <2>1. CASE m = 0
    BY <1>2, <1>6, <2>1
  <2>2. CASE m # 0
    <3>1. m \in 1 .. n /\ m + 1 # 1 /\ (m + 1) - 1 = m
      BY <2>2
    <3>2. f[m] = UpTo(B[m]) /\ f[m + 1] = f[m] \o seqs[m + 1]
      BY <1>6, <1>8, <3>1
    <3>3. UpTo(B[m]) \o seqs[m + 1] = UpTo(B[m + 1])
      BY <1>1, <3>1
    <3> QED
      BY <3>2, <3>3
  <2> QED
    BY <2>1, <2>2
<1>9. Nat \subseteq S
  <2> HIDE DEF S
  <2> QED
    BY <1>7, <1>8, Induction
<1> QED
  BY <1>5, <1>9

(* What the concatenation of all tiles' results is.                        *)
LEMMA TilesAssemble ==
  ASSUME StateTyped, NEW p \in Parties, Numel > BlockSize, TilesFollow(p),
         tasks[p] # <<>>, Reached(p, Len(tasks[p])) = Numel
  PROVE  FlattenSeq([i \in DOMAIN tasks[p] |-> Elements(tasks[p][i].from, tasks[p][i].to)])
           = UpTo(Numel)
<1> DEFINE T == tasks[p]
           n == Len(T)
           seqs == [i \in 1 .. n |-> Elements(T[i].from, T[i].to)]
           B == [i \in 0 .. n |-> Reached(p, i)]
<1>1. n \in Nat \ {0} /\ DOMAIN T = 1 .. n /\ shape \in Shapes
  <2>1. T \in Seq(TaskSet) /\ n \in Nat /\ DOMAIN T = 1 .. n /\ shape \in Shapes
    BY StateShape
  <2>2. n # 0
    BY <2>1
  <2> QED
    BY <2>1, <2>2
<1>2. ASSUME NEW i \in 1 .. n
      PROVE  /\ Reached(p, i - 1) \in Nat /\ Reached(p, i) \in Nat
             /\ Reached(p, i - 1) <= Reached(p, i)
             /\ seqs[i] = [k \in 1 .. Reached(p, i) - Reached(p, i - 1) |->
                             Reached(p, i - 1) + k - 1]
  <2> DEFINE lo == T[i].from
             hi == T[i].to
  <2>1. IsTile(lo, hi) /\ Start(lo) = Reached(p, i - 1)
    BY <1>1 DEF TilesFollow
  <2>2. Stop(lo, hi) = Reached(p, i)
    BY <1>1 DEF Reached
  <2>3. seqs[i] = Elements(lo, hi)
    OBVIOUS
  <2> HIDE DEF lo, hi, seqs, T
  <2>4. /\ Start(lo) \in Nat /\ Stop(lo, hi) \in Nat /\ Start(lo) < Stop(lo, hi)
        /\ Elements(lo, hi) =
             [k \in 1 .. Stop(lo, hi) - Start(lo) |-> Start(lo) + k - 1]
    BY <1>1, <2>1, TileElements
  <2> QED
    BY <2>1, <2>2, <2>3, <2>4
<1>3. B[0] = 0 /\ B[n] = Numel
  BY <1>1 DEF Reached
<1>4. \A i \in 0 .. n : B[i] \in Nat
  <2> TAKE i \in 0 .. n
  <2>1. CASE i = 0
    BY <1>3, <2>1
  <2>2. CASE i # 0
    <3>1. i \in 1 .. n
      BY <1>1, <2>2
    <3> QED
      BY <1>2, <3>1
  <2> QED
    BY <2>1, <2>2
<1>5. B \in [0 .. n -> Nat] /\ Len(seqs) = n
  <2>1. B = [i \in 0 .. n |-> B[i]]
    OBVIOUS
  <2> HIDE DEF B, n
  <2> QED
    BY <1>1, <1>4, <2>1
<1>6. \A i \in 1 .. n : /\ B[i - 1] <= B[i]
                        /\ seqs[i] = [k \in 1 .. B[i] - B[i - 1] |-> B[i - 1] + k - 1]
  <2> TAKE i \in 1 .. n
  <2>1. i \in 0 .. n /\ i - 1 \in 0 .. n
    BY <1>1
  <2>2. B[i] = Reached(p, i) /\ B[i - 1] = Reached(p, i - 1)
    BY <2>1
  <2> HIDE DEF B, seqs, n
  <2> QED
    BY <1>2, <2>2
<1>7. [i \in DOMAIN T |-> Elements(T[i].from, T[i].to)] = seqs
  BY <1>1
<1> HIDE DEF B, seqs, n
<1>8. FlattenSeq(seqs) = UpTo(B[n])
  BY <1>1, <1>3, <1>5, <1>6, FlattenAdjacent
<1> QED
  BY <1>3, <1>7, <1>8

(* A small array's result is that of its only tile.                        *)
LEMMA OneTileAssembles ==
  ASSUME StateTyped, NEW p \in Parties, OneTile(p), Len(tasks[p]) = 1
  PROVE  FlattenSeq([i \in DOMAIN tasks[p] |-> Elements(tasks[p][i].from, tasks[p][i].to)])
           = UpTo(Numel)
<1> DEFINE T == tasks[p]
           seqs == [i \in 1 .. 1 |-> Elements(T[i].from, T[i].to)]
           B == [i \in 0 .. 1 |-> IF i = 0 THEN 0 ELSE Numel]
<1>1. DOMAIN T = 1 .. 1 /\ shape \in Shapes
  BY StateShape
<1>2. T[1].from = FirstFrom /\ T[1].to = shape
  BY <1>1 DEF OneTile
<1>3. Numel \in Nat /\ Elements(FirstFrom, shape) = [k \in 1 .. Numel |-> k - 1]
  BY <1>1, NumelIs, WholeElements
<1>4. seqs[1] = [k \in 1 .. Numel |-> k - 1] /\ Len(seqs) = 1
  BY <1>2, <1>3
<1>5. B \in [0 .. 1 -> Nat] /\ B[0] = 0 /\ B[1] = Numel
  BY <1>3
<1>6. [i \in DOMAIN T |-> Elements(T[i].from, T[i].to)] = seqs
  BY <1>1
<1> HIDE DEF B, seqs
<1>7. \A i \in 1 .. 1 : /\ B[i - 1] <= B[i]
                        /\ seqs[i] = [k \in 1 .. B[i] - B[i - 1] |-> B[i - 1] + k - 1]
  <2> TAKE i \in 1 .. 1
  <2>1. i = 1 /\ i - 1 = 0
    OBVIOUS
  <2>2. Numel - 0 = Numel /\ \A k \in 1 .. Numel : 0 + k - 1 = k - 1
    BY <1>3
  <2>3. seqs[1] = [k \in 1 .. Numel - 0 |-> 0 + k - 1]
    BY <1>4, <2>2
  <2> QED
    BY <1>3, <1>5, <2>1, <2>3
<1>8. FlattenSeq(seqs) = UpTo(B[1])
  <2>1. 1 \in Nat \ {0}
    OBVIOUS
  <2> QED
    BY <1>4, <1>5, <1>7, <2>1, FlattenAdjacent
<1> QED
  BY <1>5, <1>6, <1>8

LEMMA ReturnStep ==
  ASSUME IInv, NEW p \in Parties, Return(p)
  PROVE  IInv'
<1>1. StateTyped /\ PartyOK(p) /\ ContextsHeld(p) /\ shape \in Shapes
  BY PartyByParty DEF PartyOK, StateTyped
<1> DEFINE seqs == [i \in DOMAIN tasks[p] |-> Elements(tasks[p][i].from, tasks[p][i].to)]
<1>2. /\ pc[p] = "get" /\ got[p] = Len(tasks[p])
      /\ out' = [out EXCEPT ![p] = FlattenSeq(seqs)]
      /\ data' = [data EXCEPT ![p] = FALSE] /\ ctxs' = [ctxs EXCEPT ![p] = FALSE]
      /\ pc' = [pc EXCEPT ![p] = "returned"]
      /\ UNCHANGED <<shape, forks, from, to, tasks, got>>
  BY DEF Return
<1>3. FlattenSeq(seqs) = UpTo(Numel)
  <2>1. CASE Numel > BlockSize
    <3>1. /\ TilesFollow(p) /\ Len(tasks[p]) = NumTiles
          /\ Reached(p, Len(tasks[p])) = Numel
      BY <1>1, <1>2, <2>1 DEF PartyOK, TilesInOrder
    <3>2. tasks[p] # <<>>
      <4>1. NumTiles \in Nat \ {0}
        BY <1>1, <2>1, CutsAlong
      <4> QED
        BY <3>1, <4>1
    <3> QED
      BY <1>1, <2>1, <3>1, <3>2, TilesAssemble
  <2>2. CASE ~ (Numel > BlockSize)
    <3>1. OneTile(p) /\ Len(tasks[p]) = 1
      BY <1>1, <1>2, <2>2 DEF PartyOK, OneTile
    <3> QED
      BY <1>1, <3>1, OneTileAssembles
  <2> QED
    BY <2>1, <2>2
<1> HIDE DEF seqs
<1>4. UpTo(Numel) \in Seq(Nat)
  <2>1. Numel \in Nat
    BY <1>1, NumelIs
  <2>2. \A i \in 1 .. Numel : i - 1 \in Nat
    BY <2>1
  <2> QED
    BY <2>1, <2>2 DEF UpTo
<1>5. /\ pc' \in [Parties ->
            {"fork", "launch", "get", "unwind", "returned", "threw", "crashed"}]
      /\ ctxs' \in [Parties -> BOOLEAN] /\ data' \in [Parties -> BOOLEAN]
      /\ out' \in [Parties -> Seq(Nat)]
      /\ pc'[p] = "returned" /\ out'[p] = UpTo(Numel)
      /\ \A q \in Parties \ {p} :
           /\ pc'[q] = pc[q] /\ ctxs'[q] = ctxs[q] /\ data'[q] = data[q]
           /\ out'[q] = out[q]
  BY <1>1, <1>2, <1>3, <1>4 DEF StateTyped
<1>6. Numel' = Numel /\ Index' = Index
  BY <1>2, SameShape
<1>7. StateTyped'
  BY <1>1, <1>2, <1>5, <1>6 DEF StateTyped, Statuses
<1>8. (IF Numel > BlockSize THEN TilesInOrder(p) ELSE OneTile(p))'
  BY <1>1, <1>2, <1>5, TilesKept DEF PartyOK
<1>9. ContextsHeld(p)'
  <2>1. \A i \in DOMAIN tasks[p] : tasks[p][i].status = "done"
    <3>1. DOMAIN tasks[p] = 1 .. got[p]
      BY <1>1, <1>2, StateShape
    <3> QED
      BY <1>1, <3>1 DEF ContextsHeld
  <2> QED
    BY <1>1, <1>2, <1>5, <2>1 DEF ContextsHeld
<1>10. PartyOK(p)'
  BY <1>5, <1>6, <1>8, <1>9 DEF PartyOK, UpTo
<1> QED
  BY <1>2, <1>5, <1>7, <1>10, StepOfParty

----------------------------------------------------------------------------
LEMMA StepIInv == IInv /\ [Next]_vars => IInv'
<1> SUFFICES ASSUME IInv, [Next]_vars PROVE IInv'
  OBVIOUS
<1>1. CASE UNCHANGED vars
  <2>1. StateTyped /\ \A p \in Parties : PartyOK(p)
    BY PartyByParty
  <2>2. Index' = Index
    BY <1>1, SameShape DEF vars
  <2>3. StateTyped'
    BY <1>1, <2>1, <2>2 DEF StateTyped, vars, Statuses
  <2>4. \A p \in Parties : PartyOK(p)'
    BY <1>1, <2>1, Bystander DEF vars
  <2> QED
    BY <2>3, <2>4 DEF IInv, PartyOK, Assembled
<1>2. ASSUME NEW p \in Parties, CallerStep(p) PROVE IInv'
  BY <1>2, WholeStep, ForkStep, LaunchStep, GetDeferredStep, GetResultStep, RethrowStep,
     JoinStep, ReturnStep DEF CallerStep
<1>3. ASSUME NEW p \in Parties, NEW i \in 1 .. Len(tasks[p]), Kernel(p, i) PROVE IInv'
  <2>1. i \in DOMAIN tasks[p]
    BY PartyByParty, StateShape
  <2>2. CASE Begin(p, i)
    BY <2>1, <2>2, BeginStep
  <2>3. CASE Finish(p, i)
    BY <2>1, <2>3, KernelEnds DEF Finish
  <2>4. CASE Throw(p, i)
    BY <2>1, <2>4, KernelEnds DEF Throw
  <2> QED
    BY <1>3, <2>2, <2>3, <2>4 DEF Kernel
<1> QED
  BY <1>1, <1>2, <1>3 DEF Next

(* In every reachable state, for any shape, block size and mixture of      *)
(* threads and deferred tasks, the tiled run's inductive invariant holds.  *)
THEOREM Invariance == Spec => []IInv
<1>1. Init => IInv
  BY InitIInv
<1>2. IInv /\ [Next]_vars => IInv'
  BY StepIInv
<1> QED
  BY <1>1, <1>2, PTL DEF Spec

LEMMA TilesOfPartyFit ==
  ASSUME StateTyped, NEW p \in Parties, PartyOK(p), NEW i \in DOMAIN tasks[p]
  PROVE  LET t == tasks[p][i] IN
         /\ \A d \in 1 .. Rank : 0 <= t.from[d] /\ t.from[d] < t.to[d] /\ t.to[d] <= shape[d]
         /\ Product([d \in 1 .. Rank |-> t.to[d] - t.from[d]], 1, Rank) <= BlockSize
<1> DEFINE lo == tasks[p][i].from
           hi == tasks[p][i].to
<1>1. shape \in Shapes /\ Rank \in Nat /\ \A d \in 1 .. Rank : shape[d] \in Nat \ {0}
  BY ShapeIs DEF StateTyped
<1>2. Numel \in Nat /\ BlockSize \in Nat
  BY <1>1, NumelIs, SizesAssumption
<1> SUFFICES /\ \A d \in 1 .. Rank : 0 <= lo[d] /\ lo[d] < hi[d] /\ hi[d] <= shape[d]
             /\ Product([d \in 1 .. Rank |-> hi[d] - lo[d]], 1, Rank) <= BlockSize
  OBVIOUS
<1>3. CASE Numel > BlockSize
  <2>1. IsTile(lo, hi)
    BY <1>3 DEF PartyOK, TilesInOrder, TilesFollow
  <2> HIDE DEF lo, hi
  <2>2. Product([d \in 1 .. Rank |-> hi[d] - lo[d]], 1, Rank) <= BlockSize
    BY <1>1, <1>3, <2>1, TileElements
  <2>3. SlicingDim \in 1 .. Rank
    BY <1>1, <1>3, Cuts
  <2>4. ASSUME NEW d \in 1 .. Rank
        PROVE  0 <= lo[d] /\ lo[d] < hi[d] /\ hi[d] <= shape[d]
    <3>1. d \in 1 .. SlicingDim - 1 \/ d = SlicingDim \/ d \in SlicingDim + 1 .. Rank
      BY <1>1, <2>3
    <3>2. shape[d] \in Nat \ {0}
      BY <1>1
    <3>3. CASE d \in 1 .. SlicingDim - 1
      <4>1. lo[d] \in Nat /\ lo[d] < shape[d] /\ hi[d] = lo[d] + 1
        BY <1>1, <1>3, <2>1, <3>3, TileTyped
      <4> QED
        BY <3>2, <4>1
    <3>4. CASE d = SlicingDim
      BY <1>1, <1>3, <2>1, <3>4, TileWidth
    <3>5. CASE d \in SlicingDim + 1 .. Rank
      <4>1. lo[d] = 0 /\ hi[d] = shape[d]
        BY <1>1, <1>3, <2>1, <3>5, TileTyped
      <4> QED
        BY <3>2, <4>1
    <3> QED
      BY <3>1, <3>3, <3>4, <3>5
  <2> QED
    BY <2>2, <2>4
<1>4. CASE ~ (Numel > BlockSize)
  <2>1. lo = FirstFrom /\ hi = shape
    BY <1>4 DEF PartyOK, OneTile
  <2> HIDE DEF lo, hi
  <2>2. Product([d \in 1 .. Rank |-> hi[d] - lo[d]], 1, Rank) <= BlockSize
    BY <1>1, <1>2, <1>4, <2>1, WholeElements
  <2>3. \A d \in 1 .. Rank : lo[d] = 0 /\ hi[d] = shape[d]
    BY <2>1 DEF FirstFrom
  <2> QED
    BY <1>1, <2>2, <2>3
<1> QED
  BY <1>3, <1>4

LEMMA TypesFollow == IInv => TypeOK
<1> SUFFICES ASSUME IInv PROVE TypeOK
  OBVIOUS
<1>1. StateTyped /\ \A p \in Parties : PartyOK(p)
  BY PartyByParty
<1>2. TilesFit
  BY <1>1, TilesOfPartyFit DEF TilesFit
<1>3. ASSUME NEW p \in Parties
      PROVE  /\ from[p] \in Index /\ to[p] \in Index
             /\ \A i \in DOMAIN tasks[p] :
                  /\ tasks[p][i].from \in Index /\ tasks[p][i].to \in Index
                  /\ tasks[p][i].status \in Statuses
             /\ \A i \in DOMAIN out[p] : out[p][i] \in Nat
  <2>1. \A i \in DOMAIN tasks[p] : tasks[p][i] \in TaskSet
    BY <1>1, StateShape
  <2>2. out[p] \in Seq(Nat) /\ from[p] \in Index /\ to[p] \in Index
    BY <1>1 DEF StateTyped
  <2> QED
    BY <2>1, <2>2 DEF TaskSet
<1> QED
  BY <1>1, <1>2, <1>3 DEF TypeOK, StateTyped

(* The state of a tiled run is well typed; every tile lies within the      *)
(* array and holds at most a block of elements.                            *)
THEOREM TypeCorrect == Spec => []TypeOK
<1> QED
  BY Invariance, TypesFollow, PTL

(* What a tiled run returns holds every element of the array once, at its  *)
(* place: no carry of the index update skips or repeats a tile.            *)
THEOREM ArrayAssembled == Spec => []Assembled
<1>1. IInv => Assembled
  BY DEF IInv
<1> QED
  BY <1>1, Invariance, PTL

(* No queued or running task's context is destroyed, whichever kernels     *)
(* throw and whenever the caller unwinds.                                  *)
THEOREM ContextsStay == Spec => []ContextsOutlive
<1>1. IInv => ContextsOutlive
  <2> SUFFICES ASSUME IInv, NEW p \in Parties, NEW i \in DOMAIN tasks[p],
                      tasks[p][i].status \in {"queued", "working"}
               PROVE  ctxs[p]
    BY DEF ContextsOutlive
  <2>1. ContextsHeld(p)
    BY PartyByParty DEF PartyOK
  <2> QED
    BY <2>1 DEF ContextsHeld
<1> QED
  BY <1>1, Invariance, PTL
=============================================================================
