----------------------- MODULE RegionExecutor_proofs -----------------------
(***************************************************************************)
(* Proofs about runRegion after the deallocation pass: whatever the        *)
(* function and the regions nested in it, a value that is looked up is     *)
(* there, and a value whose last use has run is gone.                      *)
(*                                                                         *)
(* AncestorIn and TerminatorIn walk up the nesting by a recursive          *)
(* function.  The first part unfolds it by one step: an induction over the *)
(* natural numbers, from the least element of a set, shows that the        *)
(* function exists.                                                        *)
(***************************************************************************)
EXTENDS RegionExecutor, FiniteSetTheorems, SequenceTheorems,
        WellFoundedInduction, TLAPS

LEMMA LessThanWellFounded ==
  IsWellFoundedOn({ss \in Nat \X Nat : ss[1] < ss[2]}, Nat)
BY NatLessThanWellFounded DEF OpToRel

LEMMA LeastNumber ==
  ASSUME NEW T \in SUBSET Nat, T # {}
  PROVE  \E n \in T : \A m \in T : n <= m
<1> DEFINE R == {ss \in Nat \X Nat : ss[1] < ss[2]}
<1>1. PICK n \in T : \A m \in T : ~ (<<m, n>> \in R)
  BY WFMin, LessThanWellFounded
<1>2. ASSUME NEW m \in T PROVE n <= m
  <2>1. ~ (<<m, n>> \in R)
    BY <1>1
  <2> QED
    BY <2>1
<1> QED
  BY <1>2

LEMMA GreatestNumber ==
  ASSUME NEW T \in SUBSET Nat, T # {}, NEW k \in Nat, \A t \in T : t <= k
  PROVE  \E n \in T : \A m \in T : n >= m
<1> DEFINE U == {n \in Nat : \A t \in T : t <= n}
<1>1. PICK n \in U : \A m \in U : n <= m
  <2>1. k \in U
    OBVIOUS
  <2> HIDE DEF U
  <2>2. U \in SUBSET Nat
    BY DEF U
  <2> QED
    BY <2>1, <2>2, LeastNumber
<1>2. n \in T
  <2> SUFFICES ASSUME n \notin T PROVE FALSE
    OBVIOUS
  <2>1. ASSUME NEW t \in T PROVE t \in Nat /\ t <= n - 1
    <3>1. t \in Nat /\ t <= n /\ t # n
      OBVIOUS
    <3> QED
      BY <3>1
  <2>2. n - 1 \in Nat
    <3>1. PICK t \in T : TRUE
      OBVIOUS
    <3>2. n \in Nat /\ t \in Nat /\ t <= n - 1
      BY <2>1
    <3> QED
      BY <3>2
  <2>3. n - 1 \in U
    BY <2>1, <2>2
  <2> QED
    BY <1>1, <2>3
<1> QED
  BY <1>1, <1>2

LEMMA Induction ==
  ASSUME NEW S, 0 \in S, \A n \in Nat : n \in S => n + 1 \in S
  PROVE  Nat \subseteq S
<1> SUFFICES ASSUME Nat \ S # {} PROVE FALSE
  OBVIOUS
<1>1. PICK n \in Nat \ S : \A m \in Nat \ S : n <= m
  BY LeastNumber
<1>2. n - 1 \in Nat /\ n - 1 \notin Nat \ S
  BY <1>1
<1> QED
  BY <1>1, <1>2

(* The function by which AncestorIn walks up, as far as operation n.       *)
Walks(F, b, u, n) ==
  u = [x \in 0 .. n |->
        IF x = 0 \/ F.block[x] = b THEN x
        ELSE IF F.block[x] = 0 THEN 0 ELSE u[F.owner[F.block[x]]]]

LEMMA OwnerBefore ==
  ASSUME NEW F, WellFormed(F), NEW x \in OpsOf(F)
  PROVE  /\ F.size \in Nat /\ x \in Nat \ {0} /\ x <= F.size
         /\ F.block[x] \in BlocksOf(F)
         /\ F.block[x] = 0 \/ F.owner[F.block[x]] \in 1 .. x - 1
BY DEF WellFormed, OpsOf

LEMMA BlockIsNumber ==
  ASSUME NEW F, WellFormed(F), NEW b \in BlocksOf(F)
  PROVE  b \in Nat
<1>1. /\ IsFiniteSet(BlocksOf(F))
      /\ BlocksOf(F) = 0 .. Cardinality(BlocksOf(F)) - 1
  BY DEF WellFormed
<1>2. Cardinality(BlocksOf(F)) \in Nat
  BY <1>1, FS_CardinalityType
<1> QED
  BY <1>1, <1>2

LEMMA WalkExtends ==
  ASSUME NEW F, WellFormed(F), NEW b, NEW n \in Nat, n + 1 <= F.size,
         NEW g, Walks(F, b, g, n)
  PROVE  \E h : Walks(F, b, h, n + 1)
<1> DEFINE new == IF F.block[n + 1] = b THEN n + 1
                  ELSE IF F.block[n + 1] = 0 THEN 0 ELSE g[F.owner[F.block[n + 1]]]
           h == [x \in 0 .. n + 1 |-> IF x = n + 1 THEN new ELSE g[x]]
<1>0. ASSUME NEW x \in 0 .. n
      PROVE  g[x] = IF x = 0 \/ F.block[x] = b THEN x
                    ELSE IF F.block[x] = 0 THEN 0 ELSE g[F.owner[F.block[x]]]
  BY Zenon DEF Walks
<1>1. ASSUME NEW x \in 0 .. n + 1
      PROVE  h[x] = IF x = 0 \/ F.block[x] = b THEN x
                    ELSE IF F.block[x] = 0 THEN 0 ELSE h[F.owner[F.block[x]]]
  <2>0. x = 0 \/ x \in OpsOf(F)
    BY DEF OpsOf, WellFormed
  <2>1. x = 0 \/ F.block[x] = 0 \/ F.owner[F.block[x]] \in 1 .. x - 1
    BY <2>0, OwnerBefore
  <2> DEFINE w == F.owner[F.block[x]]
             B == F.block[x]
  <2>2. w \in 1 .. x - 1 => h[w] = g[w]
    OBVIOUS
  <2>3. CASE x = n + 1
    <3>1. h[x] = new
      BY <2>3
    <3>2. new = IF B = b THEN x ELSE IF B = 0 THEN 0 ELSE g[w]
      BY <2>3
    <3> HIDE DEF h, new, w, B
    <3> QED
      BY <2>1, <2>2, <2>3, <3>1, <3>2 DEF w, B
  <2>4. CASE x # n + 1
    <3>1. x \in 0 .. n
      BY <2>4
    <3> HIDE DEF new
    <3>2. h[x] = g[x]
      BY <2>4
    <3>3. g[x] = IF x = 0 \/ B = b THEN x ELSE IF B = 0 THEN 0 ELSE g[w]
      BY <3>1, <1>0
    <3>4. w \in 1 .. x - 1 => h[w] = g[w]
      BY <2>2
    <3>5. x = 0 \/ B = 0 \/ w \in 1 .. x - 1
      BY <2>1
    <3> HIDE DEF h, w, B
    <3>6. h[x] = IF x = 0 \/ B = b THEN x ELSE IF B = 0 THEN 0 ELSE h[w]
      BY <3>2, <3>3, <3>4, <3>5
    <3> QED
      BY <3>6 DEF w, B
  <2> QED
    BY <2>3, <2>4
<1>2. h = [x \in 0 .. n + 1 |->
            IF x = 0 \/ F.block[x] = b THEN x
            ELSE IF F.block[x] = 0 THEN 0 ELSE h[F.owner[F.block[x]]]]
  <2> HIDE DEF new
  <2> QED
    BY <1>1
<1>3. Walks(F, b, h, n + 1)
  BY <1>2, Zenon DEF Walks
<1> QED
  BY <1>3

LEMMA WalkExists ==
  ASSUME NEW F, WellFormed(F), NEW b
  PROVE  \E u : Walks(F, b, u, F.size)
<1> DEFINE S == {n \in Nat : n <= F.size => \E u : Walks(F, b, u, n)}
<1>1. 0 \in S
  <2>1. Walks(F, b, [x \in 0 .. 0 |-> 0], 0)
    BY DEF Walks
  <2> QED
    BY <2>1
<1>2. ASSUME NEW n \in Nat, n \in S PROVE n + 1 \in S
  <2>1. F.size \in Nat
    BY DEF WellFormed
  <2>2. n + 1 <= F.size => \E u : Walks(F, b, u, n + 1)
    BY <1>2, <2>1, WalkExtends
  <2> QED
    BY <2>2
<1>3. Nat \subseteq S
  <2> HIDE DEF S
  <2> QED
    BY <1>1, <1>2, Induction
<1> QED
  BY <1>3 DEF WellFormed

LEMMA AncestorUnfolds ==
  ASSUME NEW F, WellFormed(F), NEW b, NEW o \in OpsOf(F)
  PROVE  AncestorIn(F, o, b) =
           IF F.block[o] = b THEN o
           ELSE IF F.block[o] = 0 THEN 0 ELSE AncestorIn(F, F.owner[F.block[o]], b)
<1> DEFINE up == CHOOSE u : Walks(F, b, u, F.size)
<1>1. Walks(F, b, up, F.size)
  BY WalkExists
<1>2. \A x : AncestorIn(F, x, b) = up[x]
  BY DEF AncestorIn, Walks
<1> HIDE DEF up
<1>3. o \in 0 .. F.size /\ o # 0
  BY OwnerBefore
<1> QED
  BY <1>1, <1>2, <1>3 DEF Walks

LEMMA TerminatorUnfolds ==
  ASSUME NEW F, WellFormed(F), NEW b, NEW o \in OpsOf(F)
  PROVE  AncestorIn(F, o, b) =
           IF F.block[o] = b THEN o ELSE TerminatorIn(F, F.block[o], b)
BY AncestorUnfolds DEF TerminatorIn

(* What AncestorIn finds is an operation of the block, not after o.        *)
LEMMA AncestorIsInBlock ==
  ASSUME NEW F, WellFormed(F), NEW b
  PROVE  \A o \in OpsOf(F) : LET a == AncestorIn(F, o, b) IN
           a # 0 => a \in OpsOf(F) /\ F.block[a] = b /\ a <= o
<1> DEFINE Right(o) == LET a == AncestorIn(F, o, b) IN
             a # 0 => a \in OpsOf(F) /\ F.block[a] = b /\ a <= o
           S == {n \in Nat : \A o \in OpsOf(F) : o <= n => Right(o)}
<1>1. 0 \in S
  BY DEF OpsOf
<1>2. ASSUME NEW n \in Nat, n \in S PROVE n + 1 \in S
  <2> SUFFICES ASSUME NEW o \in OpsOf(F), o = n + 1 PROVE Right(o)
    BY <1>2 DEF OpsOf
  <2>1. CASE F.block[o] = b
    <3>1. AncestorIn(F, o, b) = o
      BY <2>1, AncestorUnfolds
    <3> QED
      BY <2>1, <3>1, OwnerBefore
  <2>2. CASE F.block[o] # b /\ F.block[o] = 0
    <3>1. AncestorIn(F, o, b) = 0
      BY <2>2, AncestorUnfolds
    <3> QED
      BY <3>1
  <2>3. CASE F.block[o] # b /\ F.block[o] # 0
    <3> DEFINE w == F.owner[F.block[o]]
    <3>1. AncestorIn(F, o, b) = AncestorIn(F, w, b)
      BY <2>3, AncestorUnfolds
    <3>2. w \in OpsOf(F) /\ w <= n /\ w < o
      BY <2>3, OwnerBefore DEF OpsOf
    <3>3. Right(w)
      BY <1>2, <3>2
    <3> HIDE DEF w
    <3> QED
      BY <3>1, <3>2, <3>3 DEF OpsOf
  <2> QED
    BY <2>1, <2>2, <2>3
<1>3. Nat \subseteq S
  <2> HIDE DEF S
  <2> QED
    BY <1>1, <1>2, Induction
<1>4. ASSUME NEW o \in OpsOf(F) PROVE Right(o)
  <2>1. o \in Nat /\ o \in S
    BY <1>3, OwnerBefore
  <2> QED
    BY <2>1
<1> QED
  BY <1>4

LEMMA TerminatorIsInBlock ==
  ASSUME NEW F, WellFormed(F), NEW b, NEW c \in BlocksOf(F),
         TerminatorIn(F, c, b) \notin {0, End(F)}
  PROVE  /\ TerminatorIn(F, c, b) \in OpsOf(F)
         /\ F.block[TerminatorIn(F, c, b)] = b
<1>1. c # b /\ c # 0 /\ TerminatorIn(F, c, b) = AncestorIn(F, F.owner[c], b)
  BY DEF TerminatorIn
<1>2. F.owner[c] \in OpsOf(F)
  BY <1>1 DEF WellFormed
<1> QED
  BY <1>1, <1>2, AncestorIsInBlock

----------------------------------------------------------------------------
(* Where block b uses a value: at an operation of its own, or at its end.  *)
LEMMA UsesAreInBlock ==
  ASSUME NEW F, WellFormed(F), NEW b, NEW v, NEW u \in UsesIn(F, v, b)
  PROVE  u = End(F) \/ (u \in OpsOf(F) /\ F.block[u] = b)
<1>1. CASE \E o \in OpsOf(F) : u = AncestorIn(F, o, b)
  BY <1>1, AncestorIsInBlock DEF UsesIn
<1>2. CASE \E c \in BlocksOf(F) : u = TerminatorIn(F, c, b)
  BY <1>2, TerminatorIsInBlock DEF UsesIn
<1> QED
  BY <1>1, <1>2 DEF UsesIn

LEMMA LastUse ==
  ASSUME NEW F, WellFormed(F), NEW b, NEW v, UsesIn(F, v, b) # {}
  PROVE  /\ Max(UsesIn(F, v, b)) \in UsesIn(F, v, b)
         /\ \A u \in UsesIn(F, v, b) : u <= Max(UsesIn(F, v, b))
<1> DEFINE U == UsesIn(F, v, b)
<1>1. ASSUME NEW u \in U PROVE u \in Nat /\ u <= F.size + 1
  BY UsesAreInBlock DEF End, OpsOf, WellFormed
<1>2. F.size + 1 \in Nat /\ U \in SUBSET Nat
  BY <1>1 DEF WellFormed
<1> HIDE DEF U
<1>3. \E n \in U : \A m \in U : n >= m
  BY <1>1, <1>2, GreatestNumber DEF U
<1>4. Max(U) \in U /\ \A u \in U : Max(U) >= u
  BY <1>3 DEF Max
<1>5. \A u \in U : u <= Max(U)
  BY <1>1, <1>4
<1> QED
  BY <1>4, <1>5 DEF U

(* The next operation of a block, or its end.                              *)
LEMMA FirstIsNext ==
  ASSUME NEW F, WellFormed(F), NEW b, NEW n \in 0 .. F.size
  PROVE  /\ First(F, b, n) \in n + 1 .. End(F)
         /\ First(F, b, n) = End(F) \/ F.block[First(F, b, n)] = b
         /\ \A o \in OpsOf(F) : F.block[o] = b /\ o > n => o >= First(F, b, n)
<1> DEFINE N == {x \in OpsOf(F) : F.block[x] = b /\ x > n} \cup {End(F)}
<1>1. ASSUME NEW x \in N
      PROVE  x \in n + 1 .. End(F) /\ (x = End(F) \/ F.block[x] = b)
  BY DEF End, OpsOf, WellFormed
<1>2. N \in SUBSET Nat /\ N # {}
  BY DEF End, OpsOf, WellFormed
<1>3. \A o \in OpsOf(F) : F.block[o] = b /\ o > n => o \in N
  OBVIOUS
<1>4. First(F, b, n) = Min(N)
  BY Zenon DEF First
<1> HIDE DEF N
<1>5. \E x \in N : \A y \in N : x <= y
  BY <1>2, LeastNumber
<1>6. Min(N) \in N /\ \A y \in N : Min(N) <= y
  BY <1>5 DEF Min
<1>7. \A o \in OpsOf(F) : F.block[o] = b /\ o > n => o >= Min(N)
  BY <1>2, <1>3, <1>6
<1> QED
  BY <1>1, <1>4, <1>6, <1>7

----------------------------------------------------------------------------
(* What is in scope at a position of a block.                              *)
LEMMA ScopeStarts ==
  ASSUME NEW F, WellFormed(F), NEW b
  PROVE  ScopeAt(F, b, First(F, b, 0)) = {Arg(b)}
<1>1. 0 \in 0 .. F.size
  BY DEF WellFormed
<1>2. \A o \in OpsOf(F) : F.block[o] = b => o >= First(F, b, 0)
  BY <1>1, FirstIsNext, OwnerBefore
<1>3. First(F, b, 0) \in Nat
  BY <1>1, FirstIsNext DEF End, WellFormed
<1> HIDE DEF First
<1>4. \A o \in OpsOf(F) : o \in Nat /\ ~ (F.block[o] = b /\ o < First(F, b, 0))
  BY <1>2, <1>3, OwnerBefore
<1> QED
  BY <1>4 DEF ScopeAt

LEMMA OperandsBefore ==
  ASSUME NEW F, WellFormed(F), NEW o \in OpsOf(F), NEW v \in F.operands[o],
         v \in OpsOf(F), F.block[v] = F.block[o]
  PROVE  v < o
<1>1. PICK b \in BlocksOf(F) : DefinedBefore(F, v, b, AncestorIn(F, o, b))
  BY DEF WellFormed
<1>2. b \in Nat
  BY BlockIsNumber
<1>3. v # Arg(b)
  BY <1>2, OwnerBefore DEF Arg
<1>4. F.block[o] = b
  BY <1>1, <1>3 DEF DefinedBefore
<1>5. AncestorIn(F, o, b) = o
  BY <1>4, AncestorUnfolds
<1> QED
  BY <1>1, <1>3, <1>5 DEF DefinedBefore

LEMMA ScopeSteps ==
  ASSUME NEW F, WellFormed(F), NEW o \in OpsOf(F)
  PROVE  (ScopeAt(F, F.block[o], o) \cup {o}) \ FreedAfter(F, o)
           = ScopeAt(F, F.block[o], First(F, F.block[o], o))
<1> DEFINE b == F.block[o]
           next == First(F, b, o)
<1>1. /\ o \in 0 .. F.size /\ b \in Nat
      /\ \A x \in OpsOf(F) : x \in Nat
  BY OwnerBefore, BlockIsNumber
<1>2. /\ next \in Nat /\ o < next
      /\ \A x \in OpsOf(F) : F.block[x] = b /\ x > o => x >= next
  BY <1>1, FirstIsNext DEF End, WellFormed
<1> HIDE DEF next
<1>3. \A x \in OpsOf(F) : F.block[x] = b => (x < next <=> x < o \/ x = o)
  BY <1>1, <1>2
<1>4. Arg(b) \notin FreedAfter(F, o)
  BY <1>1 DEF FreedAfter, IsArg, Arg
<1>5. \A x \in OpsOf(F) : F.block[x] = b /\ x <= o => o \notin FreedAfter(F, x)
  BY <1>1, OperandsBefore DEF FreedAfter
<1>6. ASSUME NEW v \in OpsOf(F), F.block[v] = b
      PROVE  v \in (ScopeAt(F, b, o) \cup {o}) \ FreedAfter(F, o)
               <=> v \in ScopeAt(F, b, next)
  <2>1. v # Arg(b)
    BY <1>1 DEF Arg
  <2>2. v \in ScopeAt(F, b, next)
          <=> /\ v < o \/ v = o
              /\ \A x \in OpsOf(F) : F.block[x] = b /\ (x < o \/ x = o)
                                       => v \notin FreedAfter(F, x)
    BY <1>3, <1>6, <2>1 DEF ScopeAt
  <2>3. v \in ScopeAt(F, b, o)
          <=> /\ v < o
              /\ \A x \in OpsOf(F) : F.block[x] = b /\ x < o
                                       => v \notin FreedAfter(F, x)
    BY <1>6, <2>1 DEF ScopeAt
  <2>4. CASE v = o
    BY <1>1, <1>5, <2>2, <2>3, <2>4
  <2>5. CASE v # o
    BY <1>1, <2>2, <2>3, <2>5
  <2> QED
    BY <2>4, <2>5
<1>7. ASSUME NEW v, ~ (v \in OpsOf(F) /\ F.block[v] = b)
      PROVE  v \in (ScopeAt(F, b, o) \cup {o}) \ FreedAfter(F, o)
               <=> v \in ScopeAt(F, b, next)
  BY <1>4, <1>7 DEF ScopeAt
<1> QED
  BY <1>6, <1>7 DEF next

LEMMA ScopeIsOfBlock ==
  ASSUME NEW F, WellFormed(F), NEW b \in BlocksOf(F), NEW n
  PROVE  /\ ScopeAt(F, b, n) \in SUBSET Int
         /\ \A v \in ScopeAt(F, b, n) :
              v = Arg(b) \/ (v \in OpsOf(F) /\ F.block[v] = b)
<1>1. b \in Int /\ \A x \in OpsOf(F) : x \in Int
  BY OwnerBefore, BlockIsNumber
<1> QED
  BY <1>1 DEF ScopeAt, Arg

(* A value that its block uses at u is still there when the block comes to *)
(* u: no operation before u can have been its last use.                    *)
LEMMA UsedIsInScope ==
  ASSUME NEW F, WellFormed(F), NEW b, NEW v, NEW u \in UsesIn(F, v, b),
         DefinedBefore(F, v, b, u)
  PROVE  v \in ScopeAt(F, b, u)
<1>1. CASE v = Arg(b)
  BY <1>1 DEF ScopeAt
<1>2. CASE v \in OpsOf(F) /\ F.block[v] = b /\ v < u
  <2>1. u \in Nat
    BY UsesAreInBlock, OwnerBefore DEF End, WellFormed
  <2>2. ASSUME NEW o \in OpsOf(F), F.block[o] = b, o < u
        PROVE  v \notin FreedAfter(F, o)
    <3>1. o \in Nat /\ ~ (u <= o)
      BY <2>1, <2>2, OwnerBefore
    <3> QED
      BY <2>2, <3>1 DEF FreedAfter, DeadAfter
  <2> QED
    BY <1>2, <2>2 DEF ScopeAt
<1> QED
  BY <1>1, <1>2 DEF DefinedBefore

(* And one whose last use is an operation before n is gone at n.           *)
LEMMA LastUsedIsFreed ==
  ASSUME NEW F, WellFormed(F), NEW b \in BlocksOf(F), NEW n \in 1 .. End(F),
         NEW v \in ScopeAt(F, b, n) \ {Arg(b)}, UsesIn(F, v, b) # {},
         Max(UsesIn(F, v, b)) < n
  PROVE  v \notin F.operands[Max(UsesIn(F, v, b))]
<1> DEFINE m == Max(UsesIn(F, v, b))
<1>1. m \in UsesIn(F, v, b) /\ \A u \in UsesIn(F, v, b) : u <= m
  BY LastUse
<1>2. m # End(F)
  BY DEF End, WellFormed
<1>3. m \in OpsOf(F) /\ F.block[m] = b
  BY <1>1, <1>2, UsesAreInBlock
<1>4. v \in OpsOf(F) /\ F.block[v] = b /\ v \notin FreedAfter(F, m)
  BY <1>3 DEF ScopeAt
<1>5. ~ IsArg(v)
  BY <1>4, OwnerBefore DEF IsArg
<1> QED
  BY <1>1, <1>3, <1>4, <1>5 DEF FreedAfter, DeadAfter

----------------------------------------------------------------------------
(* The frames of a run, one by one.                                        *)
FrameSet(F) ==
  [block : BlocksOf(F), at : 1 .. End(F), region : BlocksOf(F), scope : SUBSET Int]

LEMMA FramesShape ==
  ASSUME NEW F, NEW s, FramesTyped(F, s)
  PROVE  /\ s \in Seq(FrameSet(F))
         /\ Len(s) \in Nat \ {0} /\ DOMAIN s = 1 .. Len(s)
         /\ \A i \in 1 .. Len(s) : s[i] \in FrameSet(F)
         /\ \A i \in 1 .. Len(s) :
              s[i].block \in BlocksOf(F) /\ s[i].at \in 1 .. End(F)
<1>1. s \in Seq(FrameSet(F)) /\ s # <<>>
  BY DEF FramesTyped, FrameSet
<1>2. /\ Len(s) \in Nat \ {0} /\ DOMAIN s = 1 .. Len(s)
      /\ \A i \in 1 .. Len(s) : s[i] \in FrameSet(F)
  <2> HIDE DEF FrameSet
  <2> QED
    BY <1>1
<1>3. \A f \in FrameSet(F) : f.block \in BlocksOf(F) /\ f.at \in 1 .. End(F)
  BY DEF FrameSet
<1> HIDE DEF FrameSet
<1> QED
  BY <1>1, <1>2, <1>3

(* A run of F stands inside the blocks of its frames: a use by the         *)
(* operation or the terminator it is about to run sees its value.          *)
LEMMA UseIsVisible ==
  ASSUME NEW F, WellFormed(F), NEW s, Frames(F, s),
         NEW b \in BlocksOf(F), NEW v, NEW u \in UsesIn(F, v, b),
         DefinedBefore(F, v, b, u),
         NEW i \in DOMAIN s, s[i].block = b, s[i].at = u
  PROVE  v \in s[i].scope
BY UsedIsInScope DEF Frames, ScopesExact

LEMMA OperandIsVisible ==
  ASSUME NEW F, WellFormed(F), NEW s, Frames(F, s),
         NEW o \in OpsOf(F), s[Len(s)].at = o, NEW v \in F.operands[o]
  PROVE  \E i \in DOMAIN s : v \in s[i].scope
<1>1. PICK b \in BlocksOf(F) : DefinedBefore(F, v, b, AncestorIn(F, o, b))
  BY DEF WellFormed
<1> DEFINE u == AncestorIn(F, o, b)
           n == Len(s)
<1>2. n \in Nat /\ n \in DOMAIN s /\ DOMAIN s = 1 .. n
  BY FramesShape DEF Frames
<1>3. u # 0 /\ u \in UsesIn(F, v, b)
  BY <1>1 DEF UsesIn, DefinedBefore
<1>4. F.block[o] = s[n].block
  BY <1>2, OwnerBefore DEF Frames, FramesTyped, End
<1>5. \E i \in DOMAIN s : s[i].block = b /\ s[i].at = u
  <2>1. CASE F.block[o] = b
    <3>1. u = o
      BY <2>1, AncestorUnfolds
    <3> QED
      BY <1>2, <1>4, <2>1, <3>1
  <2>2. CASE F.block[o] # b
    <3>1. u = TerminatorIn(F, s[n].block, b)
      BY <1>4, <2>2, TerminatorUnfolds
    <3>2. PICK i \in 1 .. n : s[i].block = b
      BY <1>2, <1>3, <3>1 DEF Frames, FramesEnclose
    <3>3. i < n
      BY <1>2, <1>4, <2>2, <3>2
    <3>4. u = s[i].at
      BY <1>2, <3>1, <3>2, <3>3 DEF Frames, FramesEnclose
    <3> QED
      BY <1>2, <3>2, <3>4
  <2> QED
    BY <2>1, <2>2
<1> HIDE DEF u
<1>6. DefinedBefore(F, v, b, u)
  BY <1>1 DEF u
<1> QED
  BY <1>3, <1>5, <1>6, UseIsVisible

LEMMA YieldIsVisible ==
  ASSUME NEW F, WellFormed(F), NEW s, Frames(F, s),
         s[Len(s)].at = End(F), NEW v \in F.yields[s[Len(s)].block]
  PROVE  \E i \in DOMAIN s : v \in s[i].scope
<1> DEFINE n == Len(s)
           c == s[n].block
<1>1. n \in Nat /\ n \in DOMAIN s /\ DOMAIN s = 1 .. n /\ c \in BlocksOf(F)
  BY FramesShape DEF Frames
<1>2. PICK b \in BlocksOf(F) : DefinedBefore(F, v, b, TerminatorIn(F, c, b))
  BY <1>1 DEF WellFormed
<1> DEFINE u == TerminatorIn(F, c, b)
<1>3. u # 0 /\ u \in UsesIn(F, v, b)
  BY <1>1, <1>2 DEF UsesIn, DefinedBefore
<1>4. \E i \in DOMAIN s : s[i].block = b /\ s[i].at = u
  <2>1. CASE c = b
    BY <1>1, <2>1 DEF TerminatorIn
  <2>2. CASE c # b
    <3>1. PICK i \in 1 .. n : s[i].block = b
      BY <1>1, <1>3 DEF Frames, FramesEnclose
    <3>2. i < n
      BY <1>1, <2>2, <3>1
    <3>3. u = s[i].at
      BY <1>1, <3>1, <3>2 DEF Frames, FramesEnclose
    <3> QED
      BY <1>1, <3>1, <3>3
  <2> QED
    BY <2>1, <2>2
<1>5. DefinedBefore(F, v, b, u)
  BY <1>2
<1> HIDE DEF u
<1> QED
  BY <1>3, <1>4, <1>5, UseIsVisible

----------------------------------------------------------------------------
(* The frames below the innermost one are those of a run, too.             *)
LEMMA FrontFrames ==
  ASSUME NEW F, WellFormed(F), NEW s, Frames(F, s), Len(s) # 1
  PROVE  LET t == Front(s) IN
         /\ Frames(F, t) /\ t[Len(t)].at \in OpsOf(F)
         /\ s[Len(s)].block \in BlocksOf(F) \ {0}
         /\ F.owner[s[Len(s)].block] = t[Len(t)].at
<1> DEFINE t == Front(s)
           n == Len(s) - 1
<1>1. /\ n \in Nat \ {0} /\ DOMAIN s = 1 .. n + 1 /\ Len(s) = n + 1
      /\ s \in Seq(FrameSet(F))
      /\ \A i \in 1 .. n + 1 : s[i] \in FrameSet(F)
      /\ \A i \in 1 .. n + 1 : s[i].block \in BlocksOf(F)
  BY FramesShape DEF Frames
<1>2. /\ t \in Seq(FrameSet(F)) /\ Len(t) = n /\ DOMAIN t = 1 .. n
      /\ \A i \in 1 .. n : t[i] = s[i]
  <2> HIDE DEF FrameSet
  <2> QED
    BY <1>1 DEF Front
<1> HIDE DEF t, n
<1>3. /\ \A i \in 1 .. n : i \in 1 .. n + 1 /\ i + 1 \in 1 .. n + 1
      /\ \A i \in 1 .. n - 1 : i \in 1 .. n /\ i + 1 \in 1 .. n
      /\ \A j \in 1 .. n : \A i \in 1 .. j : i \in 1 .. n
      /\ 1 \in 1 .. n /\ n \in 1 .. n
  BY <1>1
<1>4. FramesTyped(F, t)
  <2>1. t # <<>> /\ t[1].block = 0
    BY <1>1, <1>2, <1>3 DEF Frames, FramesTyped
  <2>2. \A i \in 1 .. n : t[i].at = End(F) \/ F.block[t[i].at] = t[i].block
    BY <1>1, <1>2, <1>3 DEF Frames, FramesTyped
  <2> QED
    BY <1>2, <2>1, <2>2 DEF FramesTyped, FrameSet
<1>5. \A i \in 1 .. n :
        /\ s[i + 1].block # 0 /\ F.owner[s[i + 1].block] = s[i].at
        /\ s[i].region = s[i + 1].block
  <2>1. Len(s) - 1 = n
    BY <1>1
  <2> QED
    BY <2>1 DEF Frames, FramesChained
<1>6. FramesChained(F, t)
  <2>1. \A i \in 1 .. n - 1 :
        /\ t[i + 1].block # 0 /\ F.owner[t[i + 1].block] = t[i].at
        /\ t[i].region = t[i + 1].block
    BY <1>2, <1>3, <1>5
  <2>2. \A i, j \in 1 .. n : i < j => t[i].at < t[j].at
    BY <1>1, <1>2, <1>3 DEF Frames, FramesChained
  <2> QED
    BY <1>2, <2>1, <2>2 DEF FramesChained
<1>7. FramesEnclose(F, t)
  <2>1. \A i, j \in 1 .. n :
          i < j => TerminatorIn(F, t[j].block, t[i].block) = t[i].at
    BY <1>1, <1>2, <1>3 DEF Frames, FramesEnclose
  <2>2. \A j \in 1 .. n : \A c \in BlocksOf(F) :
          TerminatorIn(F, t[j].block, c) # 0 => \E i \in 1 .. j : t[i].block = c
    BY <1>1, <1>2, <1>3 DEF Frames, FramesEnclose
  <2> QED
    BY <1>2, <2>1, <2>2 DEF FramesEnclose
<1>8. ScopesExact(F, t)
  BY <1>1, <1>2, <1>3 DEF Frames, ScopesExact
<1>9. /\ s[n + 1].block \in BlocksOf(F) \ {0}
      /\ F.owner[s[n + 1].block] = s[n].at /\ s[n].at = t[n].at
  BY <1>1, <1>2, <1>3, <1>5
<1>10. t[n].at \in OpsOf(F)
  BY <1>9 DEF WellFormed
<1> QED
  BY <1>1, <1>2, <1>4, <1>6, <1>7, <1>8, <1>9, <1>10 DEF Frames, t

LEMMA TwoMore ==
  ASSUME NEW S, NEW p \in Seq(S), NEW f \in S, NEW g \in S
  PROVE  LET t == p \o <<f, g>>
             n == Len(p)
         IN /\ t \in Seq(S) /\ Len(t) = n + 2 /\ n \in Nat
            /\ \A i \in 1 .. n : t[i] = p[i]
            /\ t[n + 1] = f /\ t[n + 2] = g
<1> DEFINE q == <<f, g>>
<1>1. q \in Seq(S) /\ Len(q) = 2 /\ q[1] = f /\ q[2] = g
  OBVIOUS
<1> HIDE DEF q
<1>2. /\ Len(p \o q) = Len(p) + Len(q) /\ p \o q \in Seq(S)
      /\ \A i \in 1 .. Len(p) + Len(q) :
           (p \o q)[i] = IF i <= Len(p) THEN p[i] ELSE q[i - Len(p)]
  BY <1>1, ConcatProperties
<1> QED
  BY <1>1, <1>2 DEF q

(* A region of the innermost operation starts to run.                      *)
LEMMA EnterFrames ==
  ASSUME NEW F, WellFormed(F), NEW s, Frames(F, s), s[Len(s)].at \in OpsOf(F),
         NEW b \in BlocksOf(F) \ {0}, F.owner[b] = s[Len(s)].at
  PROVE  LET t == Front(s) \o <<[Last(s) EXCEPT !.region = b], Frame(F, b)>> IN
         Frames(F, t) /\ t[Len(t)].region = 0
<1> DEFINE t == Front(s) \o <<[Last(s) EXCEPT !.region = b], Frame(F, b)>>
           n == Len(s)
           f == [s[n] EXCEPT !.region = b]
           g == Frame(F, b)
<1>1. /\ n \in Nat \ {0} /\ DOMAIN s = 1 .. n /\ s \in Seq(FrameSet(F))
      /\ \A i \in 1 .. n : s[i] \in FrameSet(F)
      /\ \A i \in 1 .. n : s[i].block \in BlocksOf(F) /\ s[i].at \in 1 .. End(F)
  BY FramesShape DEF Frames
<1>2. /\ g \in FrameSet(F) /\ g.block = b /\ g.region = 0
      /\ g.at = First(F, b, 0) /\ g.scope = ScopeAt(F, b, g.at)
      /\ g.at = End(F) \/ F.block[g.at] = b
      /\ g.at > F.owner[b]
  <2>1. /\ g = [block |-> b, at |-> First(F, b, 0), region |-> 0, scope |-> {Arg(b)}]
        /\ 0 \in 0 .. F.size /\ 0 \in BlocksOf(F) /\ F.size \in Nat
    BY DEF Frame, WellFormed
  <2>2. /\ First(F, b, 0) \in 1 .. End(F)
        /\ First(F, b, 0) = End(F) \/ F.block[First(F, b, 0)] = b
    <3>1. 0 + 1 = 1
      OBVIOUS
    <3> QED
      BY <2>1, <3>1, FirstIsNext
  <2>3. Arg(b) \in Int /\ {Arg(b)} = ScopeAt(F, b, First(F, b, 0))
    BY ScopeStarts, BlockIsNumber DEF Arg
  <2>4. First(F, b, 0) > F.owner[b]
    <3>1. F.owner[b] \in OpsOf(F)
      BY DEF WellFormed
    <3>2. CASE First(F, b, 0) = End(F)
      BY <2>1, <3>1, <3>2 DEF End, OpsOf
    <3>3. CASE F.block[First(F, b, 0)] = b /\ First(F, b, 0) # End(F)
      <4>1. First(F, b, 0) \in OpsOf(F)
        BY <2>1, <2>2, <3>3 DEF End, OpsOf
      <4> QED
        BY <3>3, <4>1, OwnerBefore
    <3> QED
      BY <2>2, <3>2, <3>3
  <2> QED
    BY <2>1, <2>2, <2>3, <2>4 DEF FrameSet
<1>3. /\ f \in FrameSet(F) /\ f.block = s[n].block /\ f.at = s[n].at
      /\ f.scope = s[n].scope /\ f.region = b
  BY <1>1 DEF FrameSet
<1>4. /\ t \in Seq(FrameSet(F)) /\ Len(t) = n + 1 /\ DOMAIN t = 1 .. n + 1
      /\ t[n + 1] = g /\ t[n] = f
      /\ \A i \in 1 .. n : i # n => t[i] = s[i]
  <2>1. t = Front(s) \o <<f, g>>
    BY DEF Last
  <2> HIDE DEF FrameSet, t, f, g
  <2>2. /\ Front(s) \in Seq(FrameSet(F)) /\ Len(Front(s)) = n - 1
        /\ \A i \in 1 .. n - 1 : Front(s)[i] = s[i]
    BY <1>1 DEF Front
  <2>3. LET k == Len(Front(s)) IN
        /\ t \in Seq(FrameSet(F)) /\ Len(t) = k + 2
        /\ \A i \in 1 .. k : t[i] = Front(s)[i]
        /\ t[k + 1] = f /\ t[k + 2] = g
    BY <1>2, <1>3, <2>1, <2>2, TwoMore
  <2>4. Len(Front(s)) + 1 = n /\ Len(Front(s)) + 2 = n + 1
    BY <1>1, <2>2
  <2>5. /\ t \in Seq(FrameSet(F)) /\ Len(t) = n + 1
        /\ t[n + 1] = g /\ t[n] = f
    BY <2>3, <2>4
  <2>6. ASSUME NEW i \in 1 .. n, i # n PROVE t[i] = s[i]
    <3> HIDE DEF n
    <3>2. n \in Nat /\ Len(Front(s)) = n - 1
      BY <1>1, <2>2
    <3>1. i \in 1 .. n - 1 /\ i \in 1 .. Len(Front(s))
      BY <2>6, <3>2
    <3> QED
      BY <2>2, <2>3, <3>1
  <2> QED
    BY <2>5, <2>6
<1> HIDE DEF t, f, g, n
<1>5. /\ \A i \in 1 .. n + 1 : i = n + 1 \/ i \in 1 .. n
      /\ \A i \in 1 .. n : t[i].block = s[i].block /\ t[i].at = s[i].at
                            /\ t[i].scope = s[i].scope
      /\ n \in 1 .. n /\ n + 1 \in 1 .. n + 1 /\ 1 \in 1 .. n
      /\ \A i \in 1 .. n : i \in 1 .. n + 1
      /\ n + 1 \notin 1 .. n
  BY <1>1, <1>3, <1>4
<1>6. FramesTyped(F, t)
  <2>1. t # <<>> /\ t[1].block = 0
    BY <1>4, <1>5 DEF Frames, FramesTyped
  <2>2. \A i \in 1 .. n : t[i].at = End(F) \/ F.block[t[i].at] = t[i].block
    BY <1>1, <1>5 DEF Frames, FramesTyped
  <2>3. \A i \in 1 .. n + 1 : t[i].at = End(F) \/ F.block[t[i].at] = t[i].block
    BY <1>2, <1>4, <1>5, <2>2
  <2> QED
    BY <1>4, <2>1, <2>3 DEF FramesTyped, FrameSet
<1>7. s[n].at \in OpsOf(F) /\ F.owner[b] = s[n].at
  BY DEF n
<1>8. FramesChained(F, t)
  <2>1. ASSUME NEW i \in 1 .. n
        PROVE  /\ t[i + 1].block # 0 /\ F.owner[t[i + 1].block] = t[i].at
               /\ t[i].region = t[i + 1].block
    <3>1. CASE i = n
      BY <1>2, <1>3, <1>4, <1>5, <1>7, <3>1
    <3>2. CASE i # n
      <4>1. i \in 1 .. n - 1 /\ i + 1 \in 1 .. n
        BY <1>1, <3>2
      <4>2. /\ s[i + 1].block # 0 /\ F.owner[s[i + 1].block] = s[i].at
            /\ s[i].region = s[i + 1].block
        BY <4>1 DEF Frames, FramesChained, n
      <4> QED
        BY <1>4, <1>5, <3>2, <4>1, <4>2
    <3> QED
      BY <3>1, <3>2
  <2>2. ASSUME NEW i \in 1 .. n + 1, NEW j \in 1 .. n + 1, i < j
        PROVE  t[i].at < t[j].at
    <3>1. i \in 1 .. n
      BY <1>1, <2>2
    <3>2. ASSUME NEW k \in 1 .. n PROVE s[k].at <= s[n].at /\ s[k].at \in Int
      <4>1. s[k].at \in Int /\ s[n].at \in Int
        BY <1>1, <1>5 DEF End, WellFormed
      <4>2. k = n \/ k < n
        BY <1>1
      <4>3. k < n => s[k].at < s[n].at
        BY <1>1, <1>5 DEF Frames, FramesChained
      <4> QED
        BY <4>1, <4>2, <4>3
    <3>3. CASE j = n + 1
      <4>1. g.at \in Int /\ s[n].at \in Int /\ g.at > s[n].at
        BY <1>2, <1>5, <1>7, <3>2 DEF FrameSet, End, WellFormed
      <4> QED
        BY <1>4, <1>5, <3>1, <3>2, <3>3, <4>1
    <3>4. CASE j # n + 1
      BY <1>1, <1>5, <2>2, <3>1, <3>4 DEF Frames, FramesChained
    <3> QED
      BY <3>3, <3>4
  <2>3. Len(t) - 1 = n
    BY <1>1, <1>4
  <2> QED
    BY <1>4, <2>1, <2>2, <2>3 DEF FramesChained
<1>9. \A c \in BlocksOf(F) : c # b =>
        TerminatorIn(F, b, c) =
          IF s[n].block = c THEN s[n].at ELSE TerminatorIn(F, s[n].block, c)
  <2>1. F.block[s[n].at] = s[n].block
    BY <1>1, <1>5, <1>7, OwnerBefore DEF Frames, FramesTyped, End
  <2> QED
    BY <1>7, <2>1, TerminatorUnfolds DEF TerminatorIn
<1>10. \A i \in 1 .. n : s[i].block # b
  <2> SUFFICES ASSUME NEW i \in 1 .. n, s[i].block = b PROVE FALSE
    OBVIOUS
  <2>1. i # 1
    BY DEF Frames, FramesTyped
  <2>2. i - 1 \in 1 .. n /\ i - 1 \in 1 .. n - 1 /\ i - 1 < n /\ (i - 1) + 1 = i
    BY <1>1, <2>1
  <2>3. F.owner[s[i].block] = s[i - 1].at
    BY <2>2 DEF Frames, FramesChained, n
  <2>4. s[i - 1].at < s[n].at
    BY <1>1, <1>5, <2>2 DEF Frames, FramesChained
  <2> QED
    BY <1>7, <2>3, <2>4 DEF OpsOf
<1>11. FramesEnclose(F, t)
  <2>1. ASSUME NEW i \in 1 .. n + 1, NEW j \in 1 .. n + 1, i < j
        PROVE  TerminatorIn(F, t[j].block, t[i].block) = t[i].at
    <3>1. i \in 1 .. n
      BY <1>1, <2>1
    <3>2. CASE j = n + 1
      <4>1. /\ TerminatorIn(F, t[j].block, t[i].block) = TerminatorIn(F, b, s[i].block)
            /\ t[i].at = s[i].at /\ s[i].block \in BlocksOf(F) /\ s[i].block # b
        BY <1>1, <1>2, <1>4, <1>5, <1>10, <3>1, <3>2
      <4>2. CASE i = n
        BY <1>9, <4>1, <4>2
      <4>3. CASE i # n
        <5>1. i < n
          BY <1>1, <3>1, <4>3
        <5>2. TerminatorIn(F, s[n].block, s[i].block) = s[i].at
          BY <1>1, <1>5, <3>1, <5>1 DEF Frames, FramesEnclose
        <5>3. s[n].block # s[i].block
          <6>1. s[i].at < s[n].at
            BY <1>1, <1>5, <3>1, <5>1 DEF Frames, FramesChained
          <6>2. s[i].at # End(F)
            BY <1>1, <1>7, <3>1, <6>1 DEF End, OpsOf, WellFormed
          <6> QED
            BY <5>2, <6>2 DEF TerminatorIn
        <5> QED
          BY <1>9, <4>1, <5>2, <5>3
      <4> QED
        BY <4>2, <4>3
    <3>3. CASE j # n + 1
      BY <1>1, <1>5, <2>1, <3>1, <3>3 DEF Frames, FramesEnclose
    <3> QED
      BY <3>2, <3>3
  <2>2. ASSUME NEW j \in 1 .. n + 1, NEW c \in BlocksOf(F),
               TerminatorIn(F, t[j].block, c) # 0
        PROVE  \E i \in 1 .. j : t[i].block = c
    <3>1. CASE j = n + 1
      <4>1. CASE c = b
        BY <1>1, <1>2, <1>4, <3>1, <4>1
      <4>2. CASE c # b /\ c = s[n].block
        BY <1>1, <1>5, <3>1, <4>2
      <4>3. CASE c # b /\ c # s[n].block
        <5>1. TerminatorIn(F, s[n].block, c) # 0
          BY <1>2, <1>4, <1>9, <2>2, <3>1, <4>3
        <5>2. PICK i \in 1 .. n : s[i].block = c
          BY <1>1, <1>5, <5>1 DEF Frames, FramesEnclose
        <5> QED
          BY <1>1, <1>5, <3>1, <5>2
      <4> QED
        BY <4>1, <4>2, <4>3
    <3>2. CASE j \in 1 .. n
      <4>1. TerminatorIn(F, s[j].block, c) # 0
        BY <1>5, <2>2, <3>2
      <4>2. PICK i \in 1 .. j : s[i].block = c
        BY <1>1, <3>2, <4>1 DEF Frames, FramesEnclose
      <4>3. i \in 1 .. n
        BY <1>1, <3>2
      <4> QED
        BY <1>5, <4>2, <4>3
    <3> QED
      BY <1>5, <3>1, <3>2
  <2> QED
    BY <1>4, <2>1, <2>2 DEF FramesEnclose
<1>12. ScopesExact(F, t)
  <2>1. \A i \in 1 .. n : t[i].scope = ScopeAt(F, t[i].block, t[i].at)
    BY <1>1, <1>5 DEF Frames, ScopesExact
  <2>2. t[n + 1].scope = ScopeAt(F, t[n + 1].block, t[n + 1].at)
    BY <1>2, <1>4
  <2> QED
    BY <1>4, <1>5, <2>1, <2>2 DEF ScopesExact
<1> QED
  BY <1>2, <1>4, <1>6, <1>8, <1>11, <1>12 DEF Frames, t

LEMMA OneReplaced ==
  ASSUME NEW S, NEW s \in Seq(S), s # <<>>, NEW f \in S
  PROVE  LET t == Append(Front(s), f) IN
         /\ t \in Seq(S) /\ Len(t) = Len(s) /\ DOMAIN t = 1 .. Len(s)
         /\ \A i \in 1 .. Len(s) : i # Len(s) => t[i] = s[i]
         /\ t[Len(s)] = f
<1> DEFINE n == Len(s)
           p == Front(s)
<1>1. n \in Nat \ {0}
  OBVIOUS
<1>2. p \in Seq(S) /\ Len(p) = n - 1 /\ \A i \in 1 .. n - 1 : p[i] = s[i]
  <2>1. n - 1 \in Int /\ 1 \in Int /\ \A i \in 1 .. n - 1 : s[i] \in S
    BY <1>1
  <2>2. p = SubSeq(s, 1, n - 1)
    BY DEF Front
  <2> HIDE DEF n, p
  <2>3. /\ p \in Seq(S)
        /\ Len(p) = IF 1 <= n - 1 THEN n - 1 - 1 + 1 ELSE 0
        /\ \A i \in 1 .. n - 1 - 1 + 1 : p[i] = s[1 + i - 1]
    BY <2>1, <2>2, SubSeqProperties
  <2>4. /\ n - 1 - 1 + 1 = n - 1 /\ ~ (1 <= n - 1) => n - 1 = 0
        /\ \A i \in 1 .. n - 1 : 1 + i - 1 = i
    BY <1>1
  <2> QED
    BY <1>1, <2>3, <2>4
<1> HIDE DEF n, p
<1>3. /\ Append(p, f) \in Seq(S) /\ Len(Append(p, f)) = n
      /\ DOMAIN Append(p, f) = 1 .. n /\ Append(p, f)[n] = f
      /\ \A i \in 1 .. n - 1 : Append(p, f)[i] = p[i]
  BY <1>1, <1>2
<1>4. \A i \in 1 .. n : i # n => i \in 1 .. n - 1
  BY <1>1
<1> QED
  BY <1>2, <1>3, <1>4 DEF n, p

(* The frame of a block when its operation o is complete.                  *)
Advanced(F, f, o) ==
  [f EXCEPT !.at = First(F, f.block, o), !.region = 0,
            !.scope = (@ \cup {o}) \ FreedAfter(F, o)]

(* The innermost operation is complete: it adds its result and frees.      *)
LEMMA AdvanceFrames ==
  ASSUME NEW F, WellFormed(F), NEW s, Frames(F, s), NEW o \in OpsOf(F),
         s[Len(s)].at = o
  PROVE  LET t == Append(Front(s), Advanced(F, Last(s), o)) IN
         Frames(F, t) /\ t[Len(t)].region = 0
<1> DEFINE n == Len(s)
           g == Advanced(F, Last(s), o)
           t == Append(Front(s), g)
<1>1. /\ n \in Nat \ {0} /\ DOMAIN s = 1 .. n /\ s \in Seq(FrameSet(F))
      /\ \A i \in 1 .. n : s[i] \in FrameSet(F)
      /\ \A i \in 1 .. n : s[i].block \in BlocksOf(F) /\ s[i].at \in 1 .. End(F)
  BY FramesShape DEF Frames
<1>2. n \in 1 .. n /\ 1 \in 1 .. n /\ s[n].at = o
  BY <1>1
<1>3. F.block[o] = s[n].block
  <2>1. s[n].at = End(F) \/ F.block[s[n].at] = s[n].block
    BY <1>1, <1>2 DEF Frames, FramesTyped
  <2>2. o # End(F)
    BY OwnerBefore DEF End
  <2> QED
    BY <1>2, <2>1, <2>2
<1>4. /\ g \in FrameSet(F) /\ g.block = s[n].block /\ g.region = 0
      /\ g.at \in o + 1 .. End(F) /\ g.scope = ScopeAt(F, s[n].block, g.at)
      /\ g.at = End(F) \/ F.block[g.at] = s[n].block
  <2>1. o \in 0 .. F.size /\ o \in Nat /\ F.size \in Nat /\ 0 \in BlocksOf(F)
    BY OwnerBefore DEF WellFormed
  <2>2. /\ First(F, s[n].block, o) \in o + 1 .. End(F)
        /\ First(F, s[n].block, o) = End(F) \/ F.block[First(F, s[n].block, o)] = s[n].block
    BY <2>1, FirstIsNext
  <2>3. s[n].scope = ScopeAt(F, F.block[o], o)
    BY <1>1, <1>2, <1>3 DEF Frames, ScopesExact
  <2>4. (s[n].scope \cup {o}) \ FreedAfter(F, o)
           = ScopeAt(F, s[n].block, First(F, s[n].block, o))
    BY <1>3, <2>3, ScopeSteps
  <2>5. ScopeAt(F, s[n].block, First(F, s[n].block, o)) \in SUBSET Int
    BY <1>1, <1>2, ScopeIsOfBlock
  <2>6. s[n] \in FrameSet(F) /\ s[n].block \in BlocksOf(F)
    BY <1>1, <1>2
  <2>7. g = [s[n] EXCEPT !.at = First(F, s[n].block, o), !.region = 0,
               !.scope = ScopeAt(F, s[n].block, First(F, s[n].block, o))]
    BY <2>4 DEF Last, Advanced
  <2>8. /\ g.block = s[n].block /\ g.region = 0
        /\ g.at = First(F, s[n].block, o) /\ g.scope = ScopeAt(F, s[n].block, g.at)
    BY <2>6, <2>7 DEF FrameSet
  <2>9. First(F, s[n].block, o) \in 1 .. End(F)
    BY <2>1, <2>2 DEF End
  <2>10. g \in FrameSet(F)
    <3> HIDE DEF g
    <3> QED
      BY <2>1, <2>5, <2>6, <2>7, <2>9 DEF FrameSet
  <2> HIDE DEF g
  <2> QED
    BY <2>2, <2>8, <2>10
<1>5. /\ t \in Seq(FrameSet(F)) /\ Len(t) = n /\ DOMAIN t = 1 .. n
      /\ \A i \in 1 .. n : i # n => t[i] = s[i]
      /\ t[n] = g
  <2>1. s # <<>>
    BY DEF Frames, FramesTyped
  <2> HIDE DEF g, n
  <2>2. s \in Seq(FrameSet(F)) /\ g \in FrameSet(F)
    BY <1>1, <1>4
  <2> HIDE DEF FrameSet
  <2>3. /\ t \in Seq(FrameSet(F)) /\ Len(t) = Len(s) /\ DOMAIN t = 1 .. Len(s)
        /\ \A i \in 1 .. Len(s) : i # Len(s) => t[i] = s[i]
        /\ t[Len(s)] = g
    BY <2>1, <2>2, OneReplaced
  <2> QED
    BY <2>3 DEF n
<1> HIDE DEF t, g, n
<1>6. /\ \A i \in 1 .. n : t[i].block = s[i].block
      /\ \A i \in 1 .. n : i # n => t[i].at = s[i].at
  BY <1>4, <1>5
<1>7. FramesTyped(F, t)
  <2>1. t # <<>> /\ t[1].block = 0
    BY <1>1, <1>2, <1>5, <1>6 DEF Frames, FramesTyped
  <2>2. ASSUME NEW i \in 1 .. n
        PROVE  t[i].at = End(F) \/ F.block[t[i].at] = t[i].block
    <3>1. CASE i = n
      BY <1>4, <1>5, <3>1
    <3>2. CASE i # n
      BY <1>1, <1>5, <3>2 DEF Frames, FramesTyped
    <3> QED
      BY <3>1, <3>2
  <2> QED
    BY <1>5, <2>1, <2>2 DEF FramesTyped, FrameSet
<1>8. FramesChained(F, t)
  <2>1. ASSUME NEW i \in 1 .. n - 1
        PROVE  /\ t[i + 1].block # 0 /\ F.owner[t[i + 1].block] = t[i].at
               /\ t[i].region = t[i + 1].block
    <3>1. i \in 1 .. n /\ i + 1 \in 1 .. n /\ i # n
      BY <1>1
    <3>2. /\ s[i + 1].block # 0 /\ F.owner[s[i + 1].block] = s[i].at
          /\ s[i].region = s[i + 1].block
      BY DEF Frames, FramesChained, n
    <3> QED
      BY <1>5, <1>6, <3>1, <3>2
  <2>2. ASSUME NEW i \in 1 .. n, NEW j \in 1 .. n, i < j
        PROVE  t[i].at < t[j].at
    <3>1. i # n /\ t[i].at = s[i].at /\ s[i].at < s[j].at /\ s[i].at \in Int
      <4>1. i # n
        BY <1>1, <2>2
      <4>2. s[i].at < s[j].at
        BY <1>1, <2>2 DEF Frames, FramesChained
      <4>3. s[i].at \in Int
        BY <1>1 DEF End, WellFormed
      <4> QED
        BY <1>6, <4>1, <4>2, <4>3
    <3>2. CASE j = n
      <4>1. o \in Int /\ g.at \in Int /\ o < g.at
        BY <1>4, OwnerBefore DEF End, WellFormed
      <4> QED
        BY <1>2, <1>5, <3>1, <3>2, <4>1
    <3>3. CASE j # n
      BY <1>6, <3>1, <3>3
    <3> QED
      BY <3>2, <3>3
  <2> QED
    BY <1>5, <2>1, <2>2 DEF FramesChained
<1>9. FramesEnclose(F, t)
  <2>1. ASSUME NEW i \in 1 .. n, NEW j \in 1 .. n, i < j
        PROVE  TerminatorIn(F, t[j].block, t[i].block) = t[i].at
    <3>1. i # n
      BY <1>1, <2>1
    <3> QED
      BY <1>1, <1>6, <2>1, <3>1 DEF Frames, FramesEnclose
  <2>2. ASSUME NEW j \in 1 .. n, NEW c \in BlocksOf(F),
               TerminatorIn(F, t[j].block, c) # 0
        PROVE  \E i \in 1 .. j : t[i].block = c
    <3>1. PICK i \in 1 .. j : s[i].block = c
      BY <1>1, <1>6, <2>2 DEF Frames, FramesEnclose
    <3>2. i \in 1 .. n
      BY <1>1
    <3> QED
      BY <1>6, <3>1, <3>2
  <2> QED
    BY <1>5, <2>1, <2>2 DEF FramesEnclose
<1>10. ScopesExact(F, t)
  <2>1. ASSUME NEW i \in 1 .. n PROVE t[i].scope = ScopeAt(F, t[i].block, t[i].at)
    <3>1. CASE i = n
      BY <1>4, <1>5, <3>1
    <3>2. CASE i # n
      BY <1>1, <1>5, <3>2 DEF Frames, ScopesExact
    <3> QED
      BY <3>1, <3>2
  <2> QED
    BY <1>5, <2>1 DEF ScopesExact
<1> QED
  BY <1>2, <1>4, <1>5, <1>7, <1>8, <1>9, <1>10 DEF Frames, t, g

----------------------------------------------------------------------------
(* The region that a kernel runs next is one of its operation's.           *)
LEMMA NextIsRegion ==
  ASSUME WellFormed(fn), NEW o \in OpsOf(fn), NEW b, b = 0 \/ b \in RegionsOf(o),
         NEW n \in After(o, b), n # 0
  PROVE  n \in BlocksOf(fn) \ {0} /\ fn.owner[n] = o
<1> DEFINE r == RegionsOf(o)
<1>1. r \in SUBSET Nat
  BY BlockIsNumber DEF RegionsOf
<1>2. fn.kind[o] \in {"plain", "if", "while", "apply"}
  BY DEF WellFormed
<1>3. n \in r
  <2>1. CASE fn.kind[o] = "plain"
    BY <2>1 DEF After
  <2>2. CASE fn.kind[o] = "if"
    BY <2>2 DEF After
  <2>3. CASE fn.kind[o] = "apply"
    BY <2>3 DEF After
  <2>4. CASE fn.kind[o] = "while"
    <3>1. r # {}
      BY <2>4 DEF WellFormed, RegionsOf
    <3>2. Cardinality(BlocksOf(fn)) \in Nat
      BY FS_CardinalityType DEF WellFormed
    <3>3. \A x \in r : x <= Cardinality(BlocksOf(fn))
      BY <3>2 DEF RegionsOf, WellFormed
    <3>4. n \in {Min(r), Max(r), 0}
      BY <2>4 DEF After
    <3> HIDE DEF r
    <3>5. Min(r) \in r
      BY <1>1, <3>1, LeastNumber DEF Min
    <3>6. Max(r) \in r
      BY <1>1, <3>1, <3>2, <3>3, GreatestNumber DEF Max
    <3> QED
      BY <3>4, <3>5, <3>6
  <2> QED
    BY <1>2, <2>1, <2>2, <2>3, <2>4
<1> QED
  BY <1>3 DEF RegionsOf

LEMMA ContinueKeepsFrames ==
  ASSUME WellFormed(fn), NEW s, Frames(fn, s), NEW o \in OpsOf(fn),
         s[Len(s)].at = o, NEW b, b = 0 \/ b \in RegionsOf(o), Continue(s, o, b)
  PROVE  Frames(fn, stack') /\ stack'[Len(stack')].region = 0
<1>1. PICK n \in After(o, b) :
        IF n # 0
        THEN stack' = Front(s) \o <<[Last(s) EXCEPT !.region = n], Frame(fn, n)>>
        ELSE stack' = Append(Front(s),
               [Last(s) EXCEPT !.at = First(fn, Last(s).block, o), !.region = 0,
                               !.scope = (@ \cup {o}) \ FreedAfter(fn, o)])
  BY DEF Continue
<1>2. CASE n # 0
  <2>1. n \in BlocksOf(fn) \ {0} /\ fn.owner[n] = s[Len(s)].at
    BY <1>2, NextIsRegion
  <2>2. stack' = Front(s) \o <<[Last(s) EXCEPT !.region = n], Frame(fn, n)>>
    BY <1>1, <1>2
  <2> QED
    BY <2>1, <2>2, EnterFrames
<1>3. CASE n = 0
  <2>1. stack' = Append(Front(s),
               [Last(s) EXCEPT !.at = First(fn, Last(s).block, o), !.region = 0,
                               !.scope = (@ \cup {o}) \ FreedAfter(fn, o)])
    BY <1>1, <1>3
  <2>2. stack' = Append(Front(s), Advanced(fn, Last(s), o))
    BY <2>1 DEF Advanced
  <2> QED
    BY <2>2, AdvanceFrames
<1> QED
  BY <1>2, <1>3

----------------------------------------------------------------------------
(* The invariant holds at first, and every step keeps it.                  *)
LEMMA InitIInv == Init => IInv
<1> SUFFICES ASSUME Init PROVE IInv
  OBVIOUS
<1>1. WellFormed(fn) /\ stack = <<Frame(fn, 0)>> /\ status = "running"
  BY FunctionsAssumption DEF Init
<1> DEFINE g == Frame(fn, 0)
<1>2. 0 \in 0 .. fn.size /\ 0 \in BlocksOf(fn) /\ 0 + 1 = 1 /\ fn.size \in Nat
  BY <1>1 DEF WellFormed
<1>3. /\ g.block = 0 /\ g.at = First(fn, 0, 0) /\ g.region = 0 /\ g.scope = {Arg(0)}
      /\ g = [block |-> 0, at |-> First(fn, 0, 0), region |-> 0, scope |-> {Arg(0)}]
  BY DEF Frame
<1>4. /\ g.at \in 1 .. End(fn) /\ (g.at = End(fn) \/ fn.block[g.at] = 0)
      /\ g.scope = ScopeAt(fn, 0, g.at)
  BY <1>1, <1>2, <1>3, FirstIsNext, ScopeStarts
<1>5. g \in FrameSet(fn)
  BY <1>2, <1>3, <1>4 DEF FrameSet, Arg
<1> HIDE DEF g
<1>6. /\ stack \in Seq(FrameSet(fn)) /\ Len(stack) = 1 /\ stack[1] = g
      /\ stack # <<>> /\ DOMAIN stack = {1}
  BY <1>1, <1>5 DEF g
<1>7. FramesTyped(fn, stack)
  BY <1>3, <1>4, <1>6 DEF FramesTyped, FrameSet
<1>8. FramesChained(fn, stack)
  BY <1>6 DEF FramesChained
<1>9. FramesEnclose(fn, stack)
  <2>1. \A c : TerminatorIn(fn, 0, c) # 0 => c = 0
    BY DEF TerminatorIn
  <2>2. 1 \in 1 .. 1
    OBVIOUS
  <2> QED
    BY <1>3, <1>6, <2>1, <2>2 DEF FramesEnclose
<1>10. ScopesExact(fn, stack)
  BY <1>3, <1>4, <1>6 DEF ScopesExact
<1> QED
  BY <1>1, <1>3, <1>6, <1>7, <1>8, <1>9, <1>10 DEF IInv, Frames, Top, Last

LEMMA CallStep == IInv /\ Call => IInv'
<1> SUFFICES ASSUME IInv, Call PROVE IInv'
  OBVIOUS
<1> DEFINE o == stack[Len(stack)].at
<1>1. /\ WellFormed(fn) /\ Frames(fn, stack) /\ fn' = fn /\ o \in OpsOf(fn)
      /\ status = "running"
  BY DEF IInv, Call, Top, Last
<1>2. \A v \in fn.operands[o] : Visible(v)
  BY <1>1, OperandIsVisible DEF Visible
<1>3. Continue(stack, o, 0) /\ status' = status
  BY <1>2 DEF Call, Top, Last
<1>4. Frames(fn, stack') /\ stack'[Len(stack')].region = 0
  BY <1>1, <1>3, ContinueKeepsFrames
<1> QED
  BY <1>1, <1>3, <1>4 DEF IInv, Top, Last

LEMMA YieldStep == IInv /\ Yield => IInv'
<1> SUFFICES ASSUME IInv, Yield PROVE IInv'
  OBVIOUS
<1> DEFINE c == stack[Len(stack)].block
<1>1. /\ WellFormed(fn) /\ Frames(fn, stack) /\ fn' = fn
      /\ stack[Len(stack)].at = End(fn) /\ status = "running"
      /\ stack[Len(stack)].region = 0
  BY DEF IInv, Yield, Top, Last
<1>2. \A v \in fn.yields[c] : Visible(v)
  BY <1>1, YieldIsVisible DEF Visible
<1>3. CASE Len(stack) = 1
  <2>1. status' = "returned" /\ stack' = stack
    BY <1>2, <1>3 DEF Yield, Top, Last
  <2> QED
    BY <1>1, <2>1 DEF IInv, Top, Last
<1>4. CASE Len(stack) # 1
  <2> DEFINE outer == Front(stack)
             o == outer[Len(outer)].at
  <2>1. Continue(outer, o, c) /\ status' = status
    BY <1>2, <1>4 DEF Yield, Top, Last
  <2>2. /\ Frames(fn, outer) /\ o \in OpsOf(fn)
        /\ c \in BlocksOf(fn) \ {0} /\ fn.owner[c] = o
    BY <1>1, <1>4, FrontFrames
  <2>3. c \in RegionsOf(o)
    BY <2>2 DEF RegionsOf
  <2> HIDE DEF outer, c
  <2>4. Frames(fn, stack') /\ stack'[Len(stack')].region = 0
    BY <1>1, <2>1, <2>2, <2>3, ContinueKeepsFrames
  <2> QED
    BY <1>1, <2>1, <2>4 DEF IInv, Top, Last
<1> QED
  BY <1>3, <1>4

LEMMA RefuseStep == IInv /\ SecretCondition => IInv'
BY DEF IInv, SecretCondition, Top, Last

LEMMA StepInvariant == IInv /\ [Next]_vars => IInv'
<1>1. IInv /\ UNCHANGED vars => IInv'
  BY DEF IInv, Top, Last, vars
<1> QED
  BY <1>1, CallStep, YieldStep, RefuseStep DEF Next

(* The frames are a chain of nested regions, each with in scope exactly    *)
(* what it has defined and not freed (runRegion and the SymbolScopes).     *)
THEOREM Invariance == Spec => []IInv
BY InitIInv, StepInvariant, PTL DEF Spec

LEMMA IInvTyped == IInv => TypeOK
<1> SUFFICES ASSUME IInv PROVE TypeOK
  OBVIOUS
<1>1. WellFormed(fn) /\ Frames(fn, stack)
  BY DEF IInv
<1> DEFINE n == Len(stack)
<1>2. /\ n \in Nat \ {0} /\ DOMAIN stack = 1 .. n
      /\ \A i \in 1 .. n :
           stack[i].block \in BlocksOf(fn) /\ stack[i].at \in 1 .. End(fn)
  BY <1>1, FramesShape DEF Frames
<1>3. \A i \in 1 .. n : stack[i].at = End(fn) \/ fn.block[stack[i].at] = stack[i].block
  BY <1>1, <1>2 DEF Frames, FramesTyped
<1>4. \A i \in 1 .. n : \A v \in stack[i].scope :
        v = Arg(stack[i].block) \/ (v \in OpsOf(fn) /\ fn.block[v] = stack[i].block)
  BY <1>1, <1>2, ScopeIsOfBlock DEF Frames, ScopesExact
<1>5. ASSUME NEW i \in 1 .. n
      PROVE  IF i = n THEN stack[i].region = 0
             ELSE /\ stack[i].region \in RegionsOf(stack[i].at)
                  /\ stack[i + 1].block = stack[i].region
  <2>1. CASE i = n
    BY <2>1 DEF IInv, Top, Last
  <2>2. CASE i # n
    <3>1. i \in 1 .. n - 1 /\ i + 1 \in 1 .. n
      <4>1. n \in Nat
        BY <1>2
      <4> HIDE DEF n
      <4> QED
        BY <2>2, <4>1
    <3>2. /\ stack[i + 1].block # 0 /\ fn.owner[stack[i + 1].block] = stack[i].at
          /\ stack[i].region = stack[i + 1].block
      BY <1>1, <3>1 DEF Frames, FramesChained
    <3> QED
      BY <1>2, <2>2, <3>1, <3>2 DEF RegionsOf
  <2> QED
    BY <2>1, <2>2
<1>6. stack # <<>> /\ status \in {"running", "returned", "missing", "refused"}
  BY <1>1 DEF IInv, Frames, FramesTyped
<1> HIDE DEF n
<1> QED
  BY <1>2, <1>3, <1>4, <1>5, <1>6 DEF TypeOK, n

LEMMA IInvFreed == IInv => DeadValuesFreed
<1> SUFFICES ASSUME IInv, NEW i \in DOMAIN stack,
                    NEW v \in stack[i].scope \ {Arg(stack[i].block)},
                    UsesIn(fn, v, stack[i].block) # {},
                    ~ (Max(UsesIn(fn, v, stack[i].block)) >= stack[i].at)
             PROVE  v \notin fn.operands[Max(UsesIn(fn, v, stack[i].block))]
  BY DEF DeadValuesFreed
<1> DEFINE b == stack[i].block
           m == Max(UsesIn(fn, v, b))
<1>1. WellFormed(fn) /\ Frames(fn, stack)
  BY DEF IInv
<1>2. b \in BlocksOf(fn) /\ stack[i].at \in 1 .. End(fn)
  BY <1>1, FramesShape DEF Frames
<1>3. stack[i].scope = ScopeAt(fn, b, stack[i].at)
  BY <1>1 DEF Frames, ScopesExact
<1>4. m \in Int
  BY <1>1, LastUse, UsesAreInBlock, OwnerBefore DEF End, WellFormed
<1>5. m < stack[i].at
  BY <1>2, <1>4
<1> QED
  BY <1>1, <1>2, <1>3, <1>5, LastUsedIsFreed

(* The stack is a chain of regions, each run by the operation at which the *)
(* one below it stands, and a scope holds values of its own block only     *)
(* (runRegion, runBlock).                                                  *)
THEOREM TypeCorrect == Spec => []TypeOK
BY Invariance, IInvTyped, PTL

(* No operation, region or terminator ever looks up a value that the       *)
(* deallocation pass has freed (SymbolScope::lookupValue never throws).    *)
THEOREM NeverMissing == Spec => []NoMissingValue
<1>1. IInv => NoMissingValue
  BY DEF IInv, NoMissingValue
<1> QED
  BY <1>1, Invariance, PTL

(* A value whose last use in its block is an operation that has run is no  *)
(* longer in scope (the pass frees what it can).                           *)
THEOREM AlwaysFreed == Spec => []DeadValuesFreed
BY Invariance, IInvFreed, PTL
=============================================================================
