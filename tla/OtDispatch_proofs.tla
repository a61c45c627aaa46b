------------------------- MODULE OtDispatch_proofs -------------------------
(***************************************************************************)
(* Proofs about the dispatch of kernels that use oblivious transfer: for   *)
(* any number of parties, cores and calls, whichever tasks are deferred    *)
(* and whatever throws, the parties run the same kernels on a link in the  *)
(* same order, an OT instance is in the hands of one kernel at a time, and *)
(* the output has every element at its place.                              *)
(***************************************************************************)
EXTENDS OtDispatch, SequenceTheorems, WellFoundedInduction, TLAPS

LEMMA LessThanWellFounded ==
  IsWellFoundedOn({ss \in Nat \X Nat : ss[1] < ss[2]}, Nat)
BY NatLessThanWellFounded DEF OpToRel

LEMMA LeastNumber ==
  ASSUME NEW T \in SUBSET Nat, T # {}
  PROVE  \E n \in T : \A m \in T : n <= m
<1> DEFINE R == {ss \in Nat \X Nat : ss[1] < ss[2]}
<1>1. PICK n \in T : \A m \in T : ~ (<<m, n>> \in R)
  BY WFMin, LessThanWellFounded
<1>2. ASSUME NEW m \in T PROVE n <= m
  <2>1. ~ (<<m, n>> \in R)
    BY <1>1
  <2> QED
    BY <2>1
<1> QED
  BY <1>2

LEMMA Induction ==
  ASSUME NEW S, 0 \in S, \A n \in Nat : n \in S => n + 1 \in S
  PROVE  Nat \subseteq S
<1> SUFFICES ASSUME Nat \ S # {} PROVE FALSE
  OBVIOUS
<1>1. PICK n \in Nat \ S : \A m \in Nat \ S : n <= m
  BY LeastNumber
<1>2. n - 1 \in Nat /\ n - 1 \notin Nat \ S
  BY <1>1
<1> QED
  BY <1>1, <1>2

LEMMA MinIsLeast ==
  ASSUME NEW T \in SUBSET Nat, T # {}
  PROVE  Min(T) \in T /\ \A m \in T : Min(T) <= m
BY LeastNumber DEF Min

LEMMA MinOfTwo ==
  ASSUME NEW a \in Nat, NEW b \in Nat
  PROVE  Min({a, b}) = IF a <= b THEN a ELSE b
<1>1. Min({a, b}) \in {a, b} /\ Min({a, b}) <= a /\ Min({a, b}) <= b
  BY MinIsLeast
<1> QED
  BY <1>1

----------------------------------------------------------------------------
(* How an input is cut.                                                    *)
LEMMA CeilDivRounds ==
  ASSUME NEW a \in Nat \ {0}, NEW b \in Nat \ {0}
  PROVE  /\ CeilDiv(a, b) \in Nat \ {0}
         /\ (CeilDiv(a, b) - 1) * b < a /\ a <= CeilDiv(a, b) * b
<1> DEFINE x == a + b - 1
           c == x \div b
<1>1. x \in Nat /\ x >= b
  OBVIOUS
<1>2. c \in Int /\ c * b <= x /\ x < (c + 1) * b
  <2> HIDE DEF x
  <2> QED
    BY <1>1
<1> HIDE DEF c
<1>3. (c + 1) * b = c * b + b /\ (c - 1) * b = c * b - b
  BY <1>2
<1>4. c > 0
  <2> SUFFICES ASSUME c + 1 <= 1 PROVE FALSE
    BY <1>2
  <2>1. (c + 1) * b <= 1 * b
    BY <1>2
  <2> QED
    BY <1>1, <1>2, <2>1
<1>5. (c - 1) * b < a /\ a <= c * b
  BY <1>2, <1>3
<1> QED
  BY <1>2, <1>4, <1>5 DEF CeilDiv, c

LEMMA MaxSlicesBound ==
  /\ MaxSlices \in 1 .. MaxOTParallel
  /\ MaxOTParallel \in Nat \ {0} /\ MinWorkSize \in Nat \ {0}
  /\ MaxSlices <= MinWorkSize + 1
  /\ \A p : MaximumInstances(p) = MaxSlices
<1> DEFINE T == {MaxOTParallel} \cup {Cores[q] : q \in Parties}
<1>1. T \in SUBSET (Nat \ {0}) /\ MaxOTParallel \in T
  BY SizesAssumption
<1>2. MaxSlices = Min(T) /\ \A p : MaximumInstances(p) = Min(T)
  BY DEF MaxSlices, MaximumInstances
<1> HIDE DEF T
<1>3. Min(T) \in T /\ Min(T) <= MaxOTParallel
  BY <1>1, MinIsLeast
<1>4. Min(T) \in Nat \ {0} /\ MaxOTParallel \in Nat
  BY <1>1, <1>3
<1> QED
  BY <1>2, <1>3, <1>4, SizesAssumption, MinWorkAssumption

LEMMA WorkersBound ==
  ASSUME program \in Programs, NEW k \in 1 .. Len(program)
  PROVE  /\ program[k] \in Nat \ {0}
         /\ WorkersOf(k) \in 1 .. MaxSlices
         /\ WorkersOf(k) \in 1 .. MaxOTParallel
         /\ (WorkersOf(k) - 1) * MinWorkSize < program[k]
<1> DEFINE m == MinWorkSize
           c == CeilDiv(program[k], m)
           n == WorkersOf(k)
<1>1. program[k] \in Nat \ {0} /\ m \in Nat \ {0}
  BY ProgramsAssumption, SizesAssumption
<1>2. c \in Nat \ {0} /\ (c - 1) * m < program[k]
  BY <1>1, CeilDivRounds
<1>3. MaxSlices \in Nat \ {0} /\ MaxSlices \in 1 .. MaxOTParallel
  BY MaxSlicesBound
<1>4. n = IF MaxSlices <= c THEN MaxSlices ELSE c
  BY <1>2, <1>3, MinOfTwo DEF WorkersOf
<1> HIDE DEF c, n
<1>5. n \in 1 .. MaxSlices /\ n <= c
  BY <1>2, <1>3, <1>4
<1>6. (n - 1) * m <= (c - 1) * m
  BY <1>1, <1>2, <1>3, <1>5
<1>7. n \in 1 .. MaxOTParallel
  BY <1>3, <1>5, SizesAssumption
<1>8. (n - 1) * m < program[k]
  BY <1>1, <1>2, <1>3, <1>5, <1>6
<1> QED
  BY <1>1, <1>5, <1>7, <1>8 DEF n

(* All slices but the last have the same number of elements, at least one, *)
(* and the last has what is left, at least one, too.                       *)
LEMMA WorkloadFits ==
  ASSUME NEW size \in Nat \ {0}, NEW n \in Nat \ {0},
         n <= MinWorkSize + 1, (n - 1) * MinWorkSize < size
  PROVE  /\ CeilDiv(size, n) \in Nat \ {0}
         /\ (n - 1) * CeilDiv(size, n) < size /\ size <= n * CeilDiv(size, n)
<1> DEFINE W == CeilDiv(size, n)
           m == MinWorkSize
<1>1. W \in Nat \ {0} /\ (W - 1) * n < size /\ size <= W * n /\ m \in Nat \ {0}
  BY CeilDivRounds, SizesAssumption
<1> HIDE DEF W
<1>2. (n - 1) * W < size
  <2> SUFFICES ASSUME size <= (n - 1) * W PROVE FALSE
    BY <1>1
  <2>1. (W - 1) * n = W * n - n /\ (n - 1) * W = W * n - W
    BY <1>1
  <2>2. W < n
    BY <1>1, <2>1
  <2>3. W <= m
    BY <1>1, <2>2
  <2>4. (n - 1) * W <= (n - 1) * m
    BY <1>1, <2>3
  <2> QED
    BY <1>1, <2>4
<1>3. W * n = n * W
  BY <1>1
<1> QED
  BY <1>1, <1>2, <1>3 DEF W

LEMMA SliceBounds ==
  ASSUME StateTyped, NEW p \in Parties, NEW w \in 1 .. WorkersOf(call[p])
  PROVE  LET n == WorkersOf(call[p]) IN
         /\ NumWorkers(p) = n /\ Numel(p) \in Nat \ {0} /\ Workload(p) \in Nat \ {0}
         /\ Slice(p, w) = [from |-> (w - 1) * Workload(p),
                           to   |-> IF w < n THEN w * Workload(p) ELSE Numel(p)]
         /\ Slice(p, w) \in [from : Nat, to : Nat]
         /\ Slice(p, w).from < Slice(p, w).to
<1> DEFINE n == WorkersOf(call[p])
           N == Numel(p)
           W == Workload(p)
<1>1. /\ N \in Nat \ {0} /\ n \in 1 .. MaxSlices /\ (n - 1) * MinWorkSize < N
      /\ MinWorkSize \in Nat /\ n <= MinWorkSize + 1
  BY WorkersBound, MaxSlicesBound DEF StateTyped, Numel
<1>2. NumWorkers(p) = n
  BY MaxSlicesBound DEF NumWorkers, WorkersOf, Numel
<1>3. W \in Nat \ {0} /\ (n - 1) * W < N /\ N <= n * W
  BY <1>1, <1>2, WorkloadFits DEF Workload
<1> HIDE DEF n, N, W
<1>4. n \in Nat \ {0} /\ w \in Nat \ {0} /\ w <= n
  BY <1>1 DEF n
<1>5. ASSUME NEW v \in 0 .. n - 1
      PROVE  v * W \in Nat /\ v * W < N /\ SliceEnd(p, v) = v * W
  <2>1. v * W \in Nat /\ v * W <= (n - 1) * W
    BY <1>3, <1>4
  <2>2. v * W < N
    BY <1>1, <1>3, <1>4, <2>1
  <2>3. SliceEnd(p, v) = Min({N, v * W})
    BY DEF SliceEnd, N, W
  <2> QED
    BY <1>1, <2>1, <2>2, <2>3, MinOfTwo
<1>6. w - 1 \in 0 .. n - 1 /\ (w < n => w \in 0 .. n - 1) /\ (~ (w < n) => w = n)
  BY <1>4
<1>7. Slice(p, w) = [from |-> (w - 1) * W, to |-> IF w < n THEN w * W ELSE N]
  <2>1. CASE w < n
    BY <1>2, <1>5, <1>6, <2>1 DEF Slice, W
  <2>2. CASE ~ (w < n)
    BY <1>2, <1>5, <1>6, <2>2 DEF Slice, N
  <2> QED
    BY <2>1, <2>2
<1>8. (w - 1) * W \in Nat /\ (w - 1) * W < N /\ (w < n => w * W \in Nat)
  BY <1>5, <1>6
<1>9. (w - 1) * W < w * W
  BY <1>3, <1>4
<1> QED
  BY <1>1, <1>2, <1>3, <1>7, <1>8, <1>9 DEF n, N, W

(* A kernel runs on the link that has its worker's number.                 *)
LEMMA LinkOfWorker ==
  ASSUME NEW p \in Parties, InstancesInOrder(p), NEW w \in 1 .. Len(instances[p])
  PROVE  Link(p, w) = w
BY DEF InstancesInOrder, Link, Instance

LEMMA InitIInv == Init => IInv
<1> SUFFICES ASSUME Init PROVE IInv
  OBVIOUS
<1>1. /\ program \in Programs /\ Len(program) \in Nat \ {0}
  BY ProgramsAssumption DEF Init
<1>2. MaxOTParallel \in Nat \ {0} /\ MaxSlices \in Nat
  BY MaxSlicesBound
<1>3. StateTyped
  BY <1>1, <1>2 DEF StateTyped, Init
<1>4. \A p \in Parties : InstancesInOrder(p) /\ TasksOfCall(p)
  BY <1>2 DEF InstancesInOrder, TasksOfCall, Init
<1>5. \A p \in Parties : \A l \in 1 .. MaxOTParallel :
        used[p][l] = <<>> /\ Len(used[p][l]) = 0 /\ Calls(p, l) = {} /\ call[p] = 1
  BY DEF Init, Calls
<1>6. UsesOfCalls /\ \A p \in Parties : UsesOfThisCall(p)
  <2>1. \A x : x \notin 1 .. 0 /\ x \notin 1 .. 1 - 1
    OBVIOUS
  <2>2. UsesOfCalls
    BY <1>5, <2>1 DEF UsesOfCalls
  <2>3. \A p \in Parties : UsesOfThisCall(p)
    BY <1>5 DEF UsesOfThisCall, Init
  <2> QED
    BY <2>2, <2>3
<1>7. LinksConsistent
  <2>1. Min({0, 0}) = 0
    BY MinOfTwo
  <2> QED
    BY <1>5, <2>1 DEF LinksConsistent
<1>8. InstanceExclusive /\ OutputComplete
  BY DEF InstanceExclusive, OutputComplete, Init
<1> QED
  BY <1>3, <1>4, <1>6, <1>7, <1>8 DEF IInv

----------------------------------------------------------------------------
(* What each kind of step does to the links.                               *)
LEMMA StateShape ==
  ASSUME StateTyped, NEW p \in Parties
  PROVE  /\ program \in Programs /\ call[p] \in 1 .. Len(program) /\ call[p] \in Nat \ {0}
         /\ Len(program) \in Nat
         /\ WorkersOf(call[p]) \in 1 .. MaxSlices /\ WorkersOf(call[p]) \in 1 .. MaxOTParallel
         /\ WorkersOf(call[p]) \in Nat \ {0}
         /\ tasks[p] \in Seq(TaskSet) /\ Len(tasks[p]) \in Nat
         /\ DOMAIN tasks[p] = 1 .. Len(tasks[p])
         /\ \A w \in 1 .. Len(tasks[p]) : tasks[p][w] \in TaskSet
         /\ instances[p] \in Seq(Nat) /\ Len(instances[p]) \in Nat
         /\ \A l \in 1 .. MaxOTParallel :
              used[p][l] \in Seq(Nat \X Nat) /\ Len(used[p][l]) \in Nat
<1>1. /\ program \in Programs /\ call[p] \in 1 .. Len(program) /\ Len(program) \in Nat
      /\ call[p] \in Nat \ {0}
  BY ProgramsAssumption DEF StateTyped
<1>2. /\ WorkersOf(call[p]) \in 1 .. MaxSlices /\ WorkersOf(call[p]) \in 1 .. MaxOTParallel
      /\ WorkersOf(call[p]) \in Nat \ {0}
  BY <1>1, WorkersBound, MaxSlicesBound
<1>3. /\ tasks[p] \in Seq(TaskSet) /\ instances[p] \in Seq(Nat)
      /\ \A l \in 1 .. MaxOTParallel : used[p][l] \in Seq(Nat \X Nat)
  <2>1. tasks \in [Parties -> Seq(TaskSet)]
    BY DEF StateTyped
  <2>2. tasks[p] \in Seq(TaskSet)
    BY <2>1
  <2>3. instances[p] \in Seq(Nat)
    BY DEF StateTyped
  <2>4. \A l \in 1 .. MaxOTParallel : used[p][l] \in Seq(Nat \X Nat)
    <3> DEFINE S == Seq(Nat \X Nat)
    <3>1. used \in [Parties -> [1 .. MaxOTParallel -> S]]
      BY DEF StateTyped
    <3> HIDE DEF S
    <3>2. \A l \in 1 .. MaxOTParallel : used[p][l] \in S
      BY <3>1
    <3> QED
      BY <3>2 DEF S
  <2> QED
    BY <2>2, <2>3, <2>4
<1>4. /\ Len(tasks[p]) \in Nat /\ DOMAIN tasks[p] = 1 .. Len(tasks[p])
      /\ \A w \in 1 .. Len(tasks[p]) : tasks[p][w] \in TaskSet
      /\ Len(instances[p]) \in Nat
      /\ \A l \in 1 .. MaxOTParallel : Len(used[p][l]) \in Nat
  BY <1>3
<1> QED
  BY <1>1, <1>2, <1>3, <1>4

LEMMA LinksUntouched ==
  ASSUME UsesOfCalls, LinksConsistent, UNCHANGED <<program, call, used>>
  PROVE  /\ UsesOfCalls' /\ LinksConsistent'
         /\ \A q, l : Calls(q, l)' = Calls(q, l)
         /\ \A k : WorkersOf(k)' = WorkersOf(k)
<1>1. /\ \A q, l : Calls(q, l)' = Calls(q, l)
      /\ \A k : WorkersOf(k)' = WorkersOf(k)
  BY DEF Calls, WorkersOf
<1>2. UsesOfCalls'
  BY <1>1 DEF UsesOfCalls
<1>3. LinksConsistent'
  BY DEF LinksConsistent
<1> QED
  BY <1>1, <1>2, <1>3

(* A kernel is begun on link w: the first of this call on it.              *)
LEMMA UseNoted ==
  ASSUME StateTyped, UsesOfCalls, NEW p \in Parties, InstancesInOrder(p),
         NEW w \in 1 .. Len(instances[p]), w <= WorkersOf(call[p]),
         call[p] \notin Calls(p, w), NoteUse(p, w), UNCHANGED <<program, call>>
  PROVE  /\ w \in 1 .. MaxOTParallel
         /\ used' \in [Parties -> [1 .. MaxOTParallel -> Seq(Nat \X Nat)]]
         /\ Len(used'[p][w]) = Len(used[p][w]) + 1
         /\ \A i \in 1 .. Len(used[p][w]) : used'[p][w][i] = used[p][w][i]
         /\ used'[p][w][Len(used[p][w]) + 1] = <<call[p], w>>
         /\ \A q \in Parties : \A l \in 1 .. MaxOTParallel :
              <<q, l>> # <<p, w>> => used'[q][l] = used[q][l]
         /\ Calls(p, w)' = Calls(p, w) \cup {call[p]}
         /\ \A q \in Parties : \A l \in 1 .. MaxOTParallel :
              <<q, l>> # <<p, w>> => Calls(q, l)' = Calls(q, l)
         /\ \A k : WorkersOf(k)' = WorkersOf(k)
<1>1. /\ call[p] \in Nat \ {0} /\ WorkersOf(call[p]) \in 1 .. MaxOTParallel
      /\ MaxOTParallel \in Nat /\ w \in Nat \ {0}
      /\ \A l \in 1 .. MaxOTParallel :
              used[p][l] \in Seq(Nat \X Nat) /\ Len(used[p][l]) \in Nat
  <2>1. MaxOTParallel \in Nat /\ Len(instances[p]) \in Nat
    BY StateShape, SizesAssumption
  <2>2. w \in Nat \ {0}
    BY <2>1
  <2> QED
    BY <2>1, <2>2, StateShape
<1>2. w \in 1 .. MaxOTParallel
  BY <1>1
<1>3. used' = [used EXCEPT ![p][w] = Append(@, <<call[p], w>>)]
  BY LinkOfWorker DEF NoteUse
<1> DEFINE u == used[p][w]
           v == Append(u, <<call[p], w>>)
<1>4. <<call[p], w>> \in Nat \X Nat
  BY <1>1
<1>5. u \in Seq(Nat \X Nat) /\ Len(u) \in Nat
  BY <1>1, <1>2
<1>6. /\ v \in Seq(Nat \X Nat) /\ Len(v) = Len(u) + 1
      /\ \A i \in 1 .. Len(u) : v[i] = u[i]
      /\ v[Len(u) + 1] = <<call[p], w>>
  <2> HIDE DEF u
  <2> QED
    BY <1>4, <1>5
<1>7. /\ used'[p][w] = v
      /\ \A q \in Parties : \A l \in 1 .. MaxOTParallel :
            <<q, l>> # <<p, w>> => used'[q][l] = used[q][l]
  BY <1>2, <1>3 DEF StateTyped
<1>8. used' \in [Parties -> [1 .. MaxOTParallel -> Seq(Nat \X Nat)]]
  <2> HIDE DEF v
  <2>1. used' = [used EXCEPT ![p][w] = v]
    BY <1>3 DEF v
  <2>2. v \in Seq(Nat \X Nat)
    BY <1>6
  <2> DEFINE S == Seq(Nat \X Nat)
             D == 1 .. MaxOTParallel
  <2>3. used \in [Parties -> [D -> S]] /\ v \in S /\ w \in D
    BY <1>2, <2>2 DEF StateTyped
  <2> HIDE DEF S, D
  <2>4. used' \in [Parties -> [D -> S]]
    BY <2>1, <2>3
  <2> QED
    BY <2>4 DEF S, D
<1>9. Calls(p, w)' = Calls(p, w) \cup {call[p]}
  <2>1. Calls(p, w)' = {v[i][1] : i \in 1 .. Len(v)}
    BY <1>7 DEF Calls
  <2>2. Calls(p, w) = {u[i][1] : i \in 1 .. Len(u)}
    BY DEF Calls
  <2>3. 1 .. Len(v) = (1 .. Len(u)) \cup {Len(u) + 1}
    <3> HIDE DEF u, v
    <3>1. Len(u) \in Nat /\ Len(v) = Len(u) + 1
      BY <1>5, <1>6
    <3> QED
      BY <3>1
  <2>4. v[Len(u) + 1][1] = call[p]
    BY <1>6
  <2>5. \A i \in 1 .. Len(u) : v[i][1] = u[i][1]
    BY <1>6
  <2> DEFINE I == 1 .. Len(u)
             n == Len(u) + 1
  <2>6. /\ Calls(p, w)' = {v[i][1] : i \in I \cup {n}} /\ Calls(p, w) = {u[i][1] : i \in I}
        /\ v[n][1] = call[p] /\ \A i \in I : v[i][1] = u[i][1]
    BY <2>1, <2>2, <2>3, <2>4, <2>5
  <2> HIDE DEF u, v, I, n
  <2> QED
    BY <2>6
<1>10. \A q \in Parties : \A l \in 1 .. MaxOTParallel :
              <<q, l>> # <<p, w>> => Calls(q, l)' = Calls(q, l)
  BY <1>7 DEF Calls
<1>11. \A k : WorkersOf(k)' = WorkersOf(k)
  BY DEF WorkersOf
<1> HIDE DEF v
<1> QED
  BY <1>2, <1>6, <1>7, <1>8, <1>9, <1>10, <1>11

LEMMA UseIsOfCall ==
  ASSUME StateTyped, UsesOfCalls, NEW p \in Parties, InstancesInOrder(p),
         NEW w \in 1 .. Len(instances[p]), w <= WorkersOf(call[p]),
         call[p] \notin Calls(p, w), NoteUse(p, w), UNCHANGED <<program, call>>
  PROVE  UsesOfCalls'
<1> DEFINE u == used[p][w]
           v == used'[p][w]
           c == call[p]
<1>1. /\ w \in 1 .. MaxOTParallel /\ Len(v) = Len(u) + 1 /\ Len(u) \in Nat /\ c \in Nat \ {0}
      /\ \A i \in 1 .. Len(u) : v[i] = u[i]
      /\ v[Len(u) + 1] = <<c, w>> /\ v[Len(u) + 1][1] = c /\ v[Len(u) + 1][2] = w
      /\ Calls(p, w)' = Calls(p, w) \cup {c}
  <2>1. /\ w \in 1 .. MaxOTParallel /\ Len(v) = Len(u) + 1
        /\ \A i \in 1 .. Len(u) : v[i] = u[i]
        /\ v[Len(u) + 1] = <<c, w>> /\ Calls(p, w)' = Calls(p, w) \cup {c}
    BY UseNoted
  <2>2. Len(u) \in Nat /\ c \in Nat \ {0}
    BY <2>1, StateShape
  <2> HIDE DEF u, v, c
  <2>3. v[Len(u) + 1][1] = c /\ v[Len(u) + 1][2] = w
    BY <2>1
  <2> QED
    BY <2>1, <2>2, <2>3
<1>2. /\ \A i \in 1 .. Len(u) :
            u[i][2] = w /\ u[i][1] \in 1 .. c /\ w <= WorkersOf(u[i][1])
      /\ \A i, j \in 1 .. Len(u) : i < j => u[i][1] < u[j][1]
      /\ \A k \in 1 .. c - 1 : w <= WorkersOf(k) => k \in Calls(p, w)
  BY <1>1 DEF UsesOfCalls
<1>3. \A i \in 1 .. Len(u) : u[i][1] < c
  <2> TAKE i \in 1 .. Len(u)
  <2>1. u[i][1] \in Calls(p, w)
    BY DEF Calls
  <2>2. u[i][1] \in 1 .. c /\ u[i][1] # c
    BY <1>2, <2>1
  <2> HIDE DEF u, c
  <2> QED
    BY <1>1, <2>2
<1>4. \A k : WorkersOf(k)' = WorkersOf(k)
  BY UseNoted
<1>5. \A q \in Parties : \A l \in 1 .. MaxOTParallel :
        <<q, l>> # <<p, w>> => used'[q][l] = used[q][l] /\ Calls(q, l)' = Calls(q, l)
  BY UseNoted
<1>6. /\ \A i \in 1 .. Len(v) :
            v[i][2] = w /\ v[i][1] \in 1 .. c /\ w <= WorkersOf(v[i][1])
      /\ \A i, j \in 1 .. Len(v) : i < j => v[i][1] < v[j][1]
      /\ \A k \in 1 .. c - 1 : w <= WorkersOf(k) => k \in Calls(p, w)'
  <2>1. w <= WorkersOf(c)
    OBVIOUS
  <2> HIDE DEF u, v, c
  <2>2. \A i \in 1 .. Len(v) : i \in 1 .. Len(u) \/ i = Len(u) + 1
    BY <1>1
  <2>3. \A i \in 1 .. Len(v) :
            v[i][2] = w /\ v[i][1] \in 1 .. c /\ w <= WorkersOf(v[i][1])
    BY <1>1, <1>2, <2>1, <2>2
  <2>4. ASSUME NEW i \in 1 .. Len(v), NEW j \in 1 .. Len(v), i < j
        PROVE  v[i][1] < v[j][1]
    <3>1. i \in 1 .. Len(u)
      BY <1>1, <2>4
    <3>2. CASE j \in 1 .. Len(u)
      BY <1>1, <1>2, <2>4, <3>1, <3>2
    <3>3. CASE j = Len(u) + 1
      BY <1>1, <1>3, <3>1, <3>3
    <3> QED
      BY <2>2, <3>2, <3>3
  <2> QED
    BY <1>1, <1>2, <2>3, <2>4
<1>7. ASSUME NEW q \in Parties, NEW l \in 1 .. MaxOTParallel
      PROVE  /\ \A i \in 1 .. Len(used'[q][l]) :
                  /\ used'[q][l][i][2] = l /\ used'[q][l][i][1] \in 1 .. call[q]
                  /\ l <= WorkersOf(used'[q][l][i][1])
             /\ \A i, j \in 1 .. Len(used'[q][l]) :
                  i < j => used'[q][l][i][1] < used'[q][l][j][1]
             /\ \A k \in 1 .. call[q] - 1 : l <= WorkersOf(k) => k \in Calls(q, l)'
  <2>1. CASE <<q, l>> = <<p, w>>
    <3>1. q = p /\ l = w
      BY <2>1
    <3> QED
      BY <1>6, <3>1
  <2>2. CASE <<q, l>> # <<p, w>>
    <3>1. used'[q][l] = used[q][l] /\ Calls(q, l)' = Calls(q, l)
      BY <1>5, <2>2
    <3>2. /\ \A i \in 1 .. Len(used[q][l]) :
               /\ used[q][l][i][2] = l /\ used[q][l][i][1] \in 1 .. call[q]
               /\ l <= WorkersOf(used[q][l][i][1])
          /\ \A i, j \in 1 .. Len(used[q][l]) :
               i < j => used[q][l][i][1] < used[q][l][j][1]
          /\ \A k \in 1 .. call[q] - 1 : l <= WorkersOf(k) => k \in Calls(q, l)
      BY DEF UsesOfCalls
    <3> QED
      BY <3>1, <3>2
  <2> QED
    BY <2>1, <2>2
<1>8. call' = call
  OBVIOUS
<1> QED
  BY <1>4, <1>7, <1>8 DEF UsesOfCalls

(* Two parties have the same at a place of a link that both have reached:  *)
(* a party that runs the kernel of call c there has run those of all calls *)
(* before it, and none of one after.                                       *)
LEMMA UseIsConsistent ==
  ASSUME StateTyped, UsesOfCalls, LinksConsistent, NEW p \in Parties, InstancesInOrder(p),
         NEW w \in 1 .. Len(instances[p]), w <= WorkersOf(call[p]),
         call[p] \notin Calls(p, w), NoteUse(p, w), UNCHANGED <<program, call>>
  PROVE  LinksConsistent'
<1> DEFINE u == used[p][w]
           n == Len(u) + 1
           c == call[p]
<1>1. /\ w \in 1 .. MaxOTParallel /\ Len(used'[p][w]) = n /\ Len(u) \in Nat /\ c \in Nat \ {0}
      /\ \A i \in 1 .. Len(u) : used'[p][w][i] = u[i]
      /\ used'[p][w][n] = <<c, w>>
  BY UseNoted, StateShape
<1>2. \A q \in Parties : \A l \in 1 .. MaxOTParallel :
        <<q, l>> # <<p, w>> => used'[q][l] = used[q][l]
  BY UseNoted
<1>3. \A q \in Parties : \A l \in 1 .. MaxOTParallel :
        used[q][l] \in Seq(Nat \X Nat) /\ Len(used[q][l]) \in Nat
  BY StateShape
<1>4. \A q, r \in Parties : \A l \in 1 .. MaxOTParallel :
        \A i \in Nat \ {0} : i <= Len(used[q][l]) /\ i <= Len(used[r][l])
                             => used[q][l][i] = used[r][l][i]
  <2> TAKE q, r \in Parties
  <2> TAKE l \in 1 .. MaxOTParallel
  <2> TAKE i \in Nat \ {0}
  <2> HAVE i <= Len(used[q][l]) /\ i <= Len(used[r][l])
  <2> DEFINE a == Len(used[q][l])
             b == Len(used[r][l])
  <2>1. i \in 1 .. Min({a, b})
    <3>1. a \in Nat /\ b \in Nat
      BY <1>3
    <3> HIDE DEF a, b
    <3>2. Min({a, b}) = IF a <= b THEN a ELSE b
      BY <3>1, MinOfTwo
    <3>3. i <= a /\ i <= b
      BY DEF a, b
    <3> QED
      BY <3>1, <3>2, <3>3
  <2> QED
    BY <2>1 DEF LinksConsistent
<1>5. ASSUME NEW q \in Parties, q # p, n <= Len(used[q][w])
      PROVE  used[q][w][n] = <<c, w>>
  <2> DEFINE v == used[q][w]
             k == v[n][1]
  <2>1. /\ v \in Seq(Nat \X Nat) /\ Len(v) \in Nat /\ n \in 1 .. Len(v)
    BY <1>1, <1>3, <1>5
  <2>2. /\ \A i \in 1 .. Len(v) : v[i][2] = w /\ v[i][1] \in 1 .. call[q] /\ w <= WorkersOf(v[i][1])
        /\ \A i, j \in 1 .. Len(v) : i < j => v[i][1] < v[j][1]
        /\ \A i \in 1 .. call[q] - 1 : w <= WorkersOf(i) => i \in Calls(q, w)
        /\ \A i \in 1 .. c - 1 : w <= WorkersOf(i) => i \in Calls(p, w)
    BY <1>1 DEF UsesOfCalls
  <2>3. v[n] = <<k, w>> /\ k \in Nat \ {0} /\ k <= call[q] /\ w <= WorkersOf(k)
    <3>1. v[n] \in Nat \X Nat
      <4> DEFINE S == Nat \X Nat
      <4>1. v \in Seq(S) /\ n \in 1 .. Len(v)
        BY <2>1
      <4> HIDE DEF S, v, n
      <4>2. v[n] \in S
        BY <4>1
      <4> QED
        BY <4>2 DEF S
    <3>2. k \in 1 .. call[q] /\ call[q] \in Nat /\ v[n][2] = w /\ w <= WorkersOf(k)
      BY <2>1, <2>2, StateShape
    <3> HIDE DEF v
    <3> QED
      BY <3>1, <3>2
  <2>4. Calls(q, w) = {v[i][1] : i \in 1 .. Len(v)} /\ Calls(p, w) = {u[i][1] : i \in 1 .. Len(u)}
    BY DEF Calls
  <2>5. \A i \in 1 .. Len(u) : i \in 1 .. Len(v) /\ i < n /\ v[i] = u[i]
    <3> TAKE i \in 1 .. Len(u)
    <3>1. i \in Nat \ {0} /\ i <= Len(u) /\ i < n /\ i \in 1 .. Len(v)
      <4>1. Len(u) \in Nat /\ Len(v) \in Nat /\ Len(u) + 1 <= Len(v)
        BY <1>1, <2>1
      <4> HIDE DEF u, v
      <4> QED
        BY <4>1
    <3>2. i <= Len(used[p][w]) /\ i <= Len(used[q][w])
      BY <2>1, <3>1
    <3>3. used[p][w][i] = used[q][w][i]
      BY <1>1, <1>4, <3>1, <3>2
    <3> QED
      BY <3>1, <3>3
  <2>6. c \in 1 .. call[p] /\ call[q] \in Nat /\ w <= WorkersOf(c) /\ c \notin Calls(p, w)
    BY <1>1, StateShape
  <2> HIDE DEF u, v, c, k
  <2>7. ~ (k < c)
    <3> SUFFICES ASSUME k < c PROVE FALSE
      OBVIOUS
    <3>1. k \in Calls(p, w)
      BY <1>1, <2>2, <2>3
    <3>2. PICK i \in 1 .. Len(u) : u[i][1] = k
      BY <2>4, <3>1
    <3>3. v[i][1] = k /\ v[i][1] < v[n][1]
      BY <2>1, <2>2, <2>5, <3>2
    <3>4. v[n][1] = k
      BY DEF k
    <3> QED
      BY <2>3, <3>3, <3>4
  <2>8. ~ (c < k)
    <3> SUFFICES ASSUME c < k PROVE FALSE
      OBVIOUS
    <3>1. c \in Calls(q, w)
      BY <1>1, <2>2, <2>3, <2>6
    <3>2. PICK i \in 1 .. Len(v) : v[i][1] = c
      BY <2>4, <3>1
    <3>3. v[n][1] = k /\ i # n
      BY <2>3, <3>2 DEF k
    <3>4. i < n
      <4>0. i \in Nat /\ n \in Nat
        BY <1>1, <2>1
      <4> HIDE DEF n
      <4> SUFFICES ASSUME n < i PROVE FALSE
        BY <3>3, <4>0
      <4>1. v[n][1] < v[i][1]
        BY <2>1, <2>2
      <4> QED
        BY <2>3, <3>2, <3>3, <4>1, <1>1
    <3>5. i \in 1 .. Len(u)
      BY <1>1, <2>1, <3>4
    <3>6. u[i][1] = c
      BY <2>5, <3>2, <3>5
    <3> QED
      BY <2>4, <2>6, <3>5, <3>6
  <2>9. k = c
    <3>1. c \in Nat /\ k \in Nat
      BY <1>1, <2>3
    <3> QED
      BY <2>7, <2>8, <3>1
  <2> QED
    BY <2>3, <2>9 DEF v
<1>6. ASSUME NEW q \in Parties, NEW r \in Parties, NEW l \in 1 .. MaxOTParallel,
             NEW i \in 1 .. Min({Len(used'[q][l]), Len(used'[r][l])})
      PROVE  used'[q][l][i] = used'[r][l][i]
  <2>1. \A x \in Parties : Len(used'[x][l]) \in Nat
    <3> TAKE x \in Parties
    <3>1. CASE <<x, l>> = <<p, w>>
      <4>1. x = p /\ l = w /\ n \in Nat
        BY <1>1, <3>1
      <4> QED
        BY <1>1, <4>1
    <3>2. CASE <<x, l>> # <<p, w>>
      BY <1>2, <1>3, <3>2
    <3> QED
      BY <3>1, <3>2
  <2>2. i \in Nat \ {0} /\ i <= Len(used'[q][l]) /\ i <= Len(used'[r][l])
    <3> DEFINE a == Len(used'[q][l])
               b == Len(used'[r][l])
    <3>1. a \in Nat /\ b \in Nat /\ i \in 1 .. Min({a, b})
      BY <2>1
    <3> HIDE DEF a, b
    <3>2. Min({a, b}) = IF a <= b THEN a ELSE b
      BY <3>1, MinOfTwo
    <3>3. i \in Nat \ {0} /\ i <= a /\ i <= b
      BY <3>1, <3>2
    <3> QED
      BY <3>3 DEF a, b
  <2>3. CASE q = r
    BY <2>3
  <2>4. CASE l # w \/ (q # p /\ r # p)
    <3>1. used'[q][l] = used[q][l] /\ used'[r][l] = used[r][l]
      BY <1>2, <2>4
    <3> QED
      BY <1>4, <2>2, <3>1
  <2>5. ASSUME NEW x \in Parties, x # p, i <= n, i <= Len(used[x][w])
        PROVE  used'[x][w] = used[x][w] /\ used'[x][w][i] = used'[p][w][i]
    <3>1. used'[x][w] = used[x][w]
      BY <1>1, <1>2, <2>5
    <3>2. CASE i = n
      BY <1>1, <1>5, <2>5, <3>1, <3>2
    <3>3. CASE i # n
      <4>1. i \in 1 .. Len(u) /\ i <= Len(u)
        BY <1>1, <2>2, <2>5, <3>3
      <4> QED
        BY <1>1, <1>4, <2>2, <2>5, <3>1, <4>1
    <3> QED
      BY <3>1, <3>2, <3>3
  <2>6. CASE l = w /\ q = p /\ r # p
    <3>1. used'[r][w] = used[r][w]
      BY <1>1, <1>2, <2>6
    <3> QED
      BY <1>1, <2>2, <2>5, <2>6, <3>1
  <2>7. CASE l = w /\ r = p /\ q # p
    <3>1. used'[q][w] = used[q][w]
      BY <1>1, <1>2, <2>7
    <3> QED
      BY <1>1, <2>2, <2>5, <2>7, <3>1
  <2> QED
    BY <2>3, <2>4, <2>6, <2>7
<1> QED
  BY <1>6 DEF LinksConsistent

----------------------------------------------------------------------------
(* What the invariant says of one party.                                   *)
PartyOK(p) ==
  /\ InstancesInOrder(p) /\ TasksOfCall(p) /\ UsesOfThisCall(p)
  /\ \A w \in DOMAIN tasks[p] :
       tasks[p][w].status = "working" => tasks[p][w].turn = Len(used[p][Link(p, w)])
  /\ pc[p] = "returned" => out[p] = [i \in 1 .. Numel(p) |-> i - 1]

LEMMA PartyByParty ==
  IInv <=> /\ StateTyped /\ UsesOfCalls /\ LinksConsistent
           /\ \A p \in Parties : PartyOK(p)
BY DEF IInv, PartyOK, InstanceExclusive, OutputComplete

LEMMA SameCall ==
  ASSUME NEW q \in Parties, UNCHANGED program, call'[q] = call[q]
  PROVE  /\ Numel(q)' = Numel(q) /\ NumWorkers(q)' = NumWorkers(q)
         /\ \A w : Slice(q, w)' = Slice(q, w)
         /\ \A k : WorkersOf(k)' = WorkersOf(k)
<1>1. Numel(q)' = Numel(q)
  BY DEF Numel
<1>2. NumWorkers(q)' = NumWorkers(q)
  BY <1>1 DEF NumWorkers, MaximumInstances
<1>3. Workload(q)' = Workload(q)
  BY <1>1, <1>2 DEF Workload
<1>4. \A w : SliceEnd(q, w)' = SliceEnd(q, w)
  BY <1>1, <1>3 DEF SliceEnd
<1>5. \A w : Slice(q, w)' = Slice(q, w)
  BY <1>1, <1>2, <1>3, <1>4 DEF Slice
<1>6. \A k : WorkersOf(k)' = WorkersOf(k)
  BY DEF WorkersOf
<1> QED
  BY <1>1, <1>2, <1>5, <1>6

LEMMA TaskLink ==
  ASSUME StateTyped, NEW p \in Parties, InstancesInOrder(p), TasksOfCall(p),
         NEW w \in DOMAIN tasks[p]
  PROVE  /\ w \in 1 .. Len(tasks[p]) /\ w \in 1 .. Len(instances[p])
         /\ w \in 1 .. MaxOTParallel /\ Link(p, w) = w
<1>1. /\ Len(tasks[p]) \in Nat /\ DOMAIN tasks[p] = 1 .. Len(tasks[p])
      /\ Len(instances[p]) \in Nat
  BY StateShape
<1>2. /\ Len(tasks[p]) <= Len(instances[p]) /\ Len(instances[p]) <= MaxSlices
      /\ MaxSlices \in Nat /\ MaxSlices <= MaxOTParallel /\ MaxOTParallel \in Nat
  BY MaxSlicesBound DEF TasksOfCall, InstancesInOrder
<1>3. /\ w \in 1 .. Len(tasks[p]) /\ w \in 1 .. Len(instances[p])
      /\ w \in 1 .. MaxOTParallel
  BY <1>1, <1>2
<1> QED
  BY <1>3, LinkOfWorker

(* A step of one party leaves the others as they are.                      *)
LEMMA Bystander ==
  ASSUME StateTyped, NEW q \in Parties, PartyOK(q), UNCHANGED program,
         call'[q] = call[q], pc'[q] = pc[q], instances'[q] = instances[q],
         spawned'[q] = spawned[q], tasks'[q] = tasks[q], got'[q] = got[q],
         out'[q] = out[q], \A l \in 1 .. MaxOTParallel : used'[q][l] = used[q][l]
  PROVE  PartyOK(q)'
<1>1. /\ Numel(q)' = Numel(q) /\ \A w : Slice(q, w)' = Slice(q, w)
      /\ \A k : WorkersOf(k)' = WorkersOf(k)
  BY SameCall
<1>2. /\ \A l \in 1 .. MaxOTParallel : Calls(q, l)' = Calls(q, l)
      /\ \A w : Begun(q, w)' <=> Begun(q, w)
      /\ \A w : Link(q, w)' = Link(q, w)
  BY DEF Calls, Begun, Link, Instance
<1>3. InstancesInOrder(q)'
  BY DEF InstancesInOrder, PartyOK
<1>4. TasksOfCall(q)'
  BY <1>1 DEF TasksOfCall, PartyOK
<1>5. UsesOfThisCall(q)'
  BY <1>2 DEF UsesOfThisCall, PartyOK
<1>6. \A w \in DOMAIN tasks'[q] :
        tasks'[q][w].status = "working" => tasks'[q][w].turn = Len(used'[q][Link(q, w)'])
  <2> SUFFICES ASSUME NEW w \in DOMAIN tasks[q], tasks[q][w].status = "working"
               PROVE  tasks[q][w].turn = Len(used'[q][Link(q, w)])
    BY <1>2
  <2>1. Link(q, w) \in 1 .. MaxOTParallel
    BY TaskLink DEF PartyOK
  <2> QED
    BY <2>1 DEF PartyOK
<1>7. pc'[q] = "returned" => out'[q] = [i \in 1 .. Numel(q)' |-> i - 1]
  BY <1>1 DEF PartyOK
<1> QED
  BY <1>3, <1>4, <1>5, <1>6, <1>7 DEF PartyOK

LEMMA StepOfParty ==
  ASSUME IInv, NEW p \in Parties, UNCHANGED program,
         StateTyped', UsesOfCalls', LinksConsistent', PartyOK(p)',
         \A q \in Parties \ {p} :
           /\ call'[q] = call[q] /\ pc'[q] = pc[q] /\ instances'[q] = instances[q]
           /\ spawned'[q] = spawned[q] /\ tasks'[q] = tasks[q] /\ got'[q] = got[q]
           /\ out'[q] = out[q]
           /\ \A l \in 1 .. MaxOTParallel : used'[q][l] = used[q][l]
  PROVE  IInv'
<1>1. StateTyped /\ \A q \in Parties : PartyOK(q)
  BY PartyByParty
<1>2. ASSUME NEW q \in Parties PROVE PartyOK(q)'
  <2>1. CASE q = p
    BY <2>1
  <2>2. CASE q # p
    BY <1>1, <2>2, Bystander
  <2> QED
    BY <2>1, <2>2
<1> QED
  BY <1>2 DEF IInv, PartyOK, InstanceExclusive, OutputComplete

(* A task as it is when it is handed over, and when it begins.             *)
LEMMA NewTaskShape ==
  ASSUME StateTyped, NEW p \in Parties, InstancesInOrder(p),
         NEW w \in 1 .. WorkersOf(call[p]), w \in 1 .. Len(instances[p]),
         NEW s \in {"queued", "deferred", "working"}
  PROVE  /\ NewTask(p, w, s) \in TaskSet
         /\ NewTask(p, w, s).slice = Slice(p, w)
         /\ NewTask(p, w, s).slice.from < NewTask(p, w, s).slice.to
         /\ NewTask(p, w, s).status = s
         /\ NewTask(p, w, s).turn = Len(used[p][w]) + 1
<1> DEFINE t == NewTask(p, w, s)
<1>1. t = [slice |-> Slice(p, w), status |-> s, turn |-> Len(used[p][w]) + 1]
  BY LinkOfWorker DEF NewTask
<1>2. Slice(p, w) \in [from : Nat, to : Nat] /\ Slice(p, w).from < Slice(p, w).to
  BY SliceBounds
<1>3. Len(used[p][w]) + 1 \in Nat
  <2>1. w \in 1 .. MaxOTParallel
    BY StateShape, MaxSlicesBound
  <2>2. Len(used[p][w]) \in Nat
    BY <2>1, StateShape
  <2> QED
    BY <2>2
<1> HIDE DEF t
<1>4. t.slice = Slice(p, w) /\ t.status = s /\ t.turn = Len(used[p][w]) + 1
  BY <1>1
<1>5. t \in TaskSet
  BY <1>1, <1>2, <1>3 DEF TaskSet
<1> QED
  BY <1>2, <1>4, <1>5 DEF t

LEMMA TaskAppended ==
  ASSUME StateTyped, NEW p \in Parties, NEW t \in TaskSet,
         tasks' = [tasks EXCEPT ![p] = Append(@, t)]
  PROVE  /\ tasks' \in [Parties -> Seq(TaskSet)]
         /\ Len(tasks'[p]) = Len(tasks[p]) + 1
         /\ DOMAIN tasks'[p] = 1 .. Len(tasks[p]) + 1
         /\ tasks'[p][Len(tasks[p]) + 1] = t
         /\ \A v \in 1 .. Len(tasks[p]) : tasks'[p][v] = tasks[p][v]
         /\ \A q \in Parties \ {p} : tasks'[q] = tasks[q]
<1> DEFINE T == tasks[p]
           U == Append(T, t)
<1>1. tasks \in [Parties -> Seq(TaskSet)] /\ T \in Seq(TaskSet) /\ Len(T) \in Nat
  BY StateShape DEF StateTyped
<1>2. tasks'[p] = U /\ \A q \in Parties \ {p} : tasks'[q] = tasks[q]
  BY <1>1
<1> HIDE DEF T
<1>3. /\ U \in Seq(TaskSet) /\ Len(U) = Len(T) + 1 /\ DOMAIN U = 1 .. Len(T) + 1
      /\ U[Len(T) + 1] = t /\ \A v \in 1 .. Len(T) : U[v] = T[v]
  BY <1>1
<1>4. tasks' = [tasks EXCEPT ![p] = U]
  BY DEF T
<1> HIDE DEF U
<1>5. tasks' \in [Parties -> Seq(TaskSet)]
  BY <1>1, <1>3, <1>4
<1> QED
  BY <1>2, <1>3, <1>5 DEF T

LEMMA TaskReplaced ==
  ASSUME StateTyped, NEW p \in Parties, NEW w \in DOMAIN tasks[p], NEW t \in TaskSet,
         tasks' = [tasks EXCEPT ![p][w] = t]
  PROVE  /\ tasks' \in [Parties -> Seq(TaskSet)]
         /\ Len(tasks'[p]) = Len(tasks[p])
         /\ DOMAIN tasks'[p] = 1 .. Len(tasks[p])
         /\ tasks'[p][w] = t
         /\ \A v \in 1 .. Len(tasks[p]) : v # w => tasks'[p][v] = tasks[p][v]
         /\ \A q \in Parties \ {p} : tasks'[q] = tasks[q]
<1> DEFINE T == tasks[p]
           U == [T EXCEPT ![w] = t]
<1>1. /\ tasks \in [Parties -> Seq(TaskSet)] /\ T \in Seq(TaskSet) /\ Len(T) \in Nat
      /\ DOMAIN T = 1 .. Len(T) /\ w \in 1 .. Len(T)
  BY StateShape DEF StateTyped
<1>2. /\ tasks'[p] = U /\ tasks' = [tasks EXCEPT ![p] = U]
      /\ \A q \in Parties \ {p} : tasks'[q] = tasks[q]
  BY <1>1
<1> HIDE DEF T
<1>3. /\ U \in Seq(TaskSet) /\ Len(U) = Len(T) /\ DOMAIN U = 1 .. Len(T)
      /\ U[w] = t /\ \A v \in 1 .. Len(T) : v # w => U[v] = T[v]
  BY <1>1
<1> HIDE DEF U
<1>4. tasks' \in [Parties -> Seq(TaskSet)]
  BY <1>1, <1>2, <1>3
<1> QED
  BY <1>2, <1>3, <1>4 DEF T

----------------------------------------------------------------------------
(* The steps of the calling thread that begin no kernel.                   *)
LEMMA LazyInitStep ==
  ASSUME IInv, NEW p \in Parties, LazyInit(p)
  PROVE  IInv'
<1>1. StateTyped /\ UsesOfCalls /\ LinksConsistent /\ PartyOK(p)
  BY PartyByParty
<1>2. UNCHANGED <<program, call, used, out>> /\ pc[p] = "init"
  BY DEF LazyInit
<1>3. /\ UsesOfCalls' /\ LinksConsistent' /\ \A l : Calls(p, l)' = Calls(p, l)
      /\ \A k : WorkersOf(k)' = WorkersOf(k) /\ \A w : Slice(p, w)' = Slice(p, w)
  BY <1>1, <1>2, LinksUntouched, SameCall
<1> DEFINE n == WorkersOf(call[p])
           I == instances[p]
<1>4. /\ NumWorkers(p) = n /\ n \in Nat \ {0} /\ n <= MaxSlices /\ MaxSlices \in Nat
      /\ Len(I) \in Nat /\ I \in Seq(Nat) /\ Len(tasks[p]) \in Nat
  <2>1. n \in 1 .. MaxSlices /\ n \in Nat \ {0}
    BY <1>1, StateShape
  <2>2. NumWorkers(p) = n
    BY <1>1, <2>1, SliceBounds
  <2> QED
    BY <1>1, <2>1, <2>2, StateShape, MaxSlicesBound
<1>5. /\ spawned[p] = Len(I) /\ spawned[p] <= MaxSlices
      /\ \A i \in 1 .. Len(I) : I[i] = i
      /\ Len(tasks[p]) <= Len(I)
      /\ \A w \in 1 .. Len(tasks[p]) : tasks[p][w].slice.from < tasks[p][w].slice.to
      /\ \A w \in 1 .. Len(tasks[p]) : tasks[p][w].status = "done"
      /\ \A l \in 1 .. MaxOTParallel : call[p] \notin Calls(p, l)
  BY <1>1, <1>2 DEF PartyOK, InstancesInOrder, TasksOfCall, UsesOfThisCall
<1>6. CASE Len(I) < n
  <2> DEFINE J == Append(I, Len(I) + 1)
  <2>1. /\ spawned' = [spawned EXCEPT ![p] = Len(I) + 1]
        /\ instances' = [instances EXCEPT ![p] = J] /\ UNCHANGED <<pc, tasks, got>>
    BY <1>4, <1>5, <1>6 DEF LazyInit
  <2>2. /\ J \in Seq(Nat) /\ Len(J) = Len(I) + 1 /\ J[Len(I) + 1] = Len(I) + 1
        /\ \A i \in 1 .. Len(I) : J[i] = I[i]
    <3> HIDE DEF I
    <3> QED
      BY <1>4
  <2> HIDE DEF J
  <2>3. /\ spawned'[p] = Len(I) + 1 /\ instances'[p] = J
        /\ \A q \in Parties \ {p} : instances'[q] = instances[q] /\ spawned'[q] = spawned[q]
        /\ instances' \in [Parties -> Seq(Nat)] /\ spawned' \in [Parties -> Nat]
    BY <1>1, <1>4, <2>1, <2>2 DEF StateTyped
  <2>4. StateTyped'
    BY <1>1, <1>2, <2>1, <2>3 DEF StateTyped
  <2>5. InstancesInOrder(p)'
    <3>1. ASSUME NEW i \in 1 .. Len(J) PROVE J[i] = i
      <4> HIDE DEF I
      <4>1. i \in 1 .. Len(I) \/ i = Len(I) + 1
        BY <1>4, <2>2
      <4> QED
        BY <1>5, <2>2, <4>1
    <3>2. Len(I) + 1 <= MaxSlices
      BY <1>4, <1>6
    <3>3. MaxSlices' = MaxSlices
      BY DEF MaxSlices
    <3> QED
      BY <2>2, <2>3, <3>1, <3>2, <3>3 DEF InstancesInOrder
  <2>6. TasksOfCall(p)'
    <3>1. Len(tasks[p]) <= Len(J)
      BY <1>4, <1>5, <2>2
    <3> QED
      BY <1>2, <1>5, <2>1, <2>3, <3>1 DEF TasksOfCall
  <2>7. UsesOfThisCall(p)'
    BY <1>2, <1>3, <1>5, <2>1 DEF UsesOfThisCall
  <2>8. PartyOK(p)'
    <3>1. \A w \in DOMAIN tasks[p] : tasks[p][w].status # "working"
      BY <1>1, <1>5, StateShape
    <3> QED
      BY <1>2, <2>1, <2>5, <2>6, <2>7, <3>1 DEF PartyOK
  <2> QED
    BY <1>2, <1>3, <2>1, <2>3, <2>4, <2>8, StepOfParty
<1>7. CASE ~ (Len(I) < n)
  <2>1. /\ pc' = [pc EXCEPT ![p] = "launch"] /\ tasks' = [tasks EXCEPT ![p] = <<>>]
        /\ got' = [got EXCEPT ![p] = 0] /\ UNCHANGED <<spawned, instances>>
    BY <1>4, <1>7 DEF LazyInit
  <2>2. /\ pc'[p] = "launch" /\ tasks'[p] = <<>> /\ got'[p] = 0
        /\ \A q \in Parties \ {p} :
              pc'[q] = pc[q] /\ tasks'[q] = tasks[q] /\ got'[q] = got[q]
    BY <1>1, <2>1 DEF StateTyped
  <2>3. /\ tasks' \in [Parties -> Seq(TaskSet)]
        /\ pc' \in [Parties ->
             {"init", "launch", "last", "get", "unwind", "returned", "threw"}]
        /\ got' \in [Parties -> 0 .. MaxOTParallel]
    <3>1. 0 \in 0 .. MaxOTParallel
      BY SizesAssumption
    <3>2. <<>> \in Seq(TaskSet)
      OBVIOUS
    <3> QED
      BY <1>1, <2>1, <3>1, <3>2 DEF StateTyped
  <2>4. StateTyped'
    BY <1>1, <1>2, <2>1, <2>3 DEF StateTyped
  <2>5. InstancesInOrder(p)'
    BY <1>5, <2>1 DEF InstancesInOrder, MaxSlices
  <2>6. Len(tasks'[p]) = 0 /\ DOMAIN tasks'[p] = {} /\ 1 .. Len(tasks'[p]) = {}
    BY <2>2
  <2>7. TasksOfCall(p)'
    <3>1. n <= Len(I) /\ 0 <= Len(I) /\ 0 <= n /\ 0 < n
      BY <1>4, <1>7
    <3> QED
      BY <1>2, <1>3, <2>1, <2>2, <2>6, <3>1 DEF TasksOfCall
  <2>8. UsesOfThisCall(p)'
    <3>1. \A l \in 1 .. MaxOTParallel : ~ (l <= Len(tasks'[p]))
      BY <2>6
    <3> QED
      BY <1>2, <1>3, <1>5, <3>1 DEF UsesOfThisCall
  <2>9. PartyOK(p)'
    BY <2>2, <2>5, <2>6, <2>7, <2>8 DEF PartyOK
  <2> QED
    BY <1>2, <1>3, <2>1, <2>2, <2>4, <2>9, StepOfParty
<1> QED
  BY <1>6, <1>7

LEMMA InitThrowStep ==
  ASSUME IInv, NEW p \in Parties, InitThrow(p)
  PROVE  IInv'
<1>1. StateTyped /\ UsesOfCalls /\ LinksConsistent /\ PartyOK(p)
  BY PartyByParty
<1>2. /\ UNCHANGED <<program, call, instances, spawned, tasks, got, used, out>>
      /\ pc[p] = "init" /\ pc' = [pc EXCEPT ![p] = "threw"]
  BY DEF InitThrow
<1>3. /\ UsesOfCalls' /\ LinksConsistent' /\ \A l : Calls(p, l)' = Calls(p, l)
  BY <1>1, <1>2, LinksUntouched
<1>4. pc'[p] = "threw" /\ \A q \in Parties \ {p} : pc'[q] = pc[q]
  BY <1>1, <1>2 DEF StateTyped
<1>5. StateTyped'
  BY <1>1, <1>2 DEF StateTyped
<1>6. InstancesInOrder(p)'
  BY <1>1, <1>2 DEF PartyOK, InstancesInOrder, MaxSlices
<1>7. TasksOfCall(p)'
  BY <1>1, <1>2, <1>4 DEF PartyOK, TasksOfCall
<1>8. UsesOfThisCall(p)'
  BY <1>1, <1>2, <1>3, <1>4 DEF PartyOK, UsesOfThisCall
<1>9. PartyOK(p)'
  <2>1. \A w : Link(p, w)' = Link(p, w)
    BY <1>2 DEF Link, Instance
  <2> QED
    BY <1>1, <1>2, <1>4, <1>6, <1>7, <1>8, <2>1 DEF PartyOK
<1> QED
  BY <1>2, <1>3, <1>4, <1>5, <1>9, StepOfParty

LEMMA LaunchStep ==
  ASSUME IInv, NEW p \in Parties, Launch(p)
  PROVE  IInv'
<1>1. StateTyped /\ UsesOfCalls /\ LinksConsistent /\ PartyOK(p)
  BY PartyByParty
<1>2. /\ UNCHANGED <<program, call, pc, instances, spawned, got, used, out>>
      /\ pc[p] = "launch"
  BY DEF Launch
<1>3. /\ UsesOfCalls' /\ LinksConsistent' /\ \A l : Calls(p, l)' = Calls(p, l)
      /\ \A k : WorkersOf(k)' = WorkersOf(k) /\ \A w : Slice(p, w)' = Slice(p, w)
      /\ \A w : Link(p, w)' = Link(p, w)
  BY <1>1, <1>2, LinksUntouched, SameCall DEF Link, Instance
<1> DEFINE n == WorkersOf(call[p])
           k == Len(tasks[p])
           U == tasks'[p]
<1>4. /\ n \in Nat \ {0} /\ k \in Nat /\ Len(instances[p]) \in Nat
      /\ DOMAIN tasks[p] = 1 .. k
  BY <1>1, StateShape
<1>5. /\ k < n /\ n <= Len(instances[p]) /\ got[p] = 0
      /\ \A w \in 1 .. k : tasks[p][w].slice = Slice(p, w)
      /\ \A w \in 1 .. k : tasks[p][w].slice.from < tasks[p][w].slice.to
  BY <1>1, <1>2 DEF PartyOK, TasksOfCall
<1>6. k + 1 < n
  BY <1>1, <1>4, <1>5, SliceBounds DEF Launch
<1>7. PICK policy \in {"queued", "deferred"} :
        tasks' = [tasks EXCEPT ![p] = Append(@, NewTask(p, Len(@) + 1, policy))]
  BY PoliciesAssumption DEF Launch
<1> DEFINE t == NewTask(p, k + 1, policy)
<1>8. /\ t \in TaskSet /\ t.slice = Slice(p, k + 1) /\ t.slice.from < t.slice.to
      /\ t.status = policy
  <2>1. k + 1 \in 1 .. n /\ k + 1 \in 1 .. Len(instances[p])
    BY <1>4, <1>5, <1>6
  <2> QED
    BY <1>1, <2>1, NewTaskShape DEF PartyOK
<1>9. /\ tasks' \in [Parties -> Seq(TaskSet)] /\ Len(U) = k + 1 /\ DOMAIN U = 1 .. k + 1
      /\ U[k + 1] = t /\ \A v \in 1 .. k : U[v] = tasks[p][v]
      /\ \A q \in Parties \ {p} : tasks'[q] = tasks[q]
  <2>1. tasks' = [tasks EXCEPT ![p] = Append(@, t)]
    BY <1>7
  <2> HIDE DEF t
  <2> QED
    BY <1>1, <1>8, <2>1, TaskAppended
<1>10. \A v \in 1 .. k + 1 : v \in 1 .. k \/ v = k + 1
  BY <1>4
<1> HIDE DEF t, U, k, n
<1>11. StateTyped'
  BY <1>1, <1>2, <1>9 DEF StateTyped
<1>12. InstancesInOrder(p)'
  BY <1>1, <1>2 DEF PartyOK, InstancesInOrder, MaxSlices
<1>13. TasksOfCall(p)'
  <2>1. \A v \in 1 .. k + 1 : U[v].slice = Slice(p, v) /\ U[v].slice.from < U[v].slice.to
    BY <1>5, <1>8, <1>9, <1>10
  <2>2. k + 1 <= Len(instances[p]) /\ k + 1 <= n
    BY <1>4, <1>5, <1>6
  <2> QED
    BY <1>2, <1>3, <1>5, <1>6, <1>9, <2>1, <2>2 DEF TasksOfCall, U, n
<1>14. UsesOfThisCall(p)'
  <2>1. ASSUME NEW l \in 1 .. MaxOTParallel
        PROVE  /\ call[p] \in Calls(p, l) => l <= k + 1 /\ Begun(p, l)'
               /\ l <= k + 1 /\ Begun(p, l)' => call[p] \in Calls(p, l)
    <3>1. /\ call[p] \in Calls(p, l) => l <= k /\ Begun(p, l)
          /\ l <= k /\ Begun(p, l) => call[p] \in Calls(p, l)
      BY <1>1, <1>2 DEF PartyOK, UsesOfThisCall, k
    <3>2. CASE l <= k
      <4>1. l \in 1 .. k /\ l <= k + 1
        BY <1>4, <3>2
      <4>2. Begun(p, l)' <=> Begun(p, l)
        BY <1>9, <4>1 DEF Begun, U
      <4> QED
        BY <3>1, <4>1, <4>2
    <3>3. CASE ~ (l <= k)
      <4>1. l <= k + 1 => l = k + 1
        BY <1>4, <3>3
      <4>2. U[k + 1].status \in {"queued", "deferred"}
        BY <1>8, <1>9
      <4>3. l <= k + 1 => ~ Begun(p, l)'
        BY <4>1, <4>2 DEF Begun, U
      <4> QED
        BY <3>1, <3>3, <4>3
    <3> QED
      BY <3>2, <3>3
  <2> QED
    BY <1>2, <1>3, <1>9, <2>1 DEF UsesOfThisCall, U
<1>15. PartyOK(p)'
  <2>1. ASSUME NEW w \in DOMAIN U, U[w].status = "working"
        PROVE  U[w].turn = Len(used'[p][Link(p, w)'])
    <3>1. w \in 1 .. k /\ U[w] = tasks[p][w]
      BY <1>8, <1>9, <1>10, <2>1
    <3>2. tasks[p][w].turn = Len(used[p][Link(p, w)])
      BY <1>1, <1>4, <2>1, <3>1 DEF PartyOK
    <3> QED
      BY <1>2, <1>3, <3>1, <3>2
  <2> QED
    BY <1>2, <1>12, <1>13, <1>14, <2>1 DEF PartyOK, U
<1> QED
  BY <1>2, <1>3, <1>9, <1>11, <1>15, StepOfParty

LEMMA CallerGoesOn ==
  ASSUME IInv, NEW p \in Parties, pc[p] \in {"last", "get", "unwind"},
         UNCHANGED <<program, call, instances, spawned, tasks, used, out>>,
         NEW s \in {"last", "get", "unwind", "threw"}, pc' = [pc EXCEPT ![p] = s],
         NEW g \in 0 .. MaxOTParallel, got' = [got EXCEPT ![p] = g],
         TasksOfCall(p)'
  PROVE  IInv'
<1>1. StateTyped /\ UsesOfCalls /\ LinksConsistent /\ PartyOK(p)
  BY PartyByParty
<1>2. /\ UsesOfCalls' /\ LinksConsistent' /\ \A l : Calls(p, l)' = Calls(p, l)
  BY <1>1, LinksUntouched
<1>3. /\ pc'[p] = s /\ \A q \in Parties \ {p} : pc'[q] = pc[q] /\ got'[q] = got[q]
  BY <1>1 DEF StateTyped
<1>4. StateTyped'
  BY <1>1 DEF StateTyped
<1>5. InstancesInOrder(p)'
  BY <1>1 DEF PartyOK, InstancesInOrder, MaxSlices
<1>6. UsesOfThisCall(p)'
  <2>1. \A l : Begun(p, l)' <=> Begun(p, l)
    BY DEF Begun
  <2> QED
    BY <1>1, <1>2, <1>3, <2>1 DEF PartyOK, UsesOfThisCall
<1>7. PartyOK(p)'
  <2>1. \A w : Link(p, w)' = Link(p, w)
    BY DEF Link, Instance
  <2> QED
    BY <1>1, <1>3, <1>5, <1>6, <2>1 DEF PartyOK
<1> QED
  BY <1>2, <1>3, <1>4, <1>7, StepOfParty

LEMMA LastDoneStep ==
  ASSUME IInv, NEW p \in Parties, LastDone(p)
  PROVE  IInv'
<1>1. StateTyped /\ PartyOK(p)
  BY PartyByParty
<1> DEFINE n == WorkersOf(call[p])
           s == IF tasks[p][n].status = "done" THEN "get" ELSE "unwind"
<1>2. n \in Nat \ {0} /\ n \in 1 .. MaxOTParallel /\ NumWorkers(p) = n
  BY <1>1, StateShape, SliceBounds
<1>3. /\ UNCHANGED <<program, call, instances, spawned, tasks, got, used, out>>
      /\ pc[p] = "last" /\ pc' = [pc EXCEPT ![p] = s] /\ tasks[p][n].status \in {"done", "threw"}
  BY <1>2 DEF LastDone
<1>4. /\ \A k : WorkersOf(k)' = WorkersOf(k) /\ \A w : Slice(p, w)' = Slice(p, w)
  BY <1>3, SameCall
<1>5. pc'[p] = s
  BY <1>1, <1>3 DEF StateTyped
<1>6. /\ Len(tasks[p]) <= Len(instances[p]) /\ n <= Len(instances[p]) /\ Len(tasks[p]) = n
      /\ \A w \in 1 .. Len(tasks[p]) : tasks[p][w].slice.from < tasks[p][w].slice.to
      /\ \A w \in 1 .. Len(tasks[p]) : tasks[p][w].slice = Slice(p, w)
      /\ got[p] = 0 /\ Len(tasks[p]) <= n
  BY <1>1, <1>3 DEF PartyOK, TasksOfCall
<1>7. got' = [got EXCEPT ![p] = 0] /\ 0 \in 0 .. MaxOTParallel
  BY <1>1, <1>3, <1>6, SizesAssumption DEF StateTyped
<1>8. TasksOfCall(p)'
  <2>1. s = "get" => tasks[p][n].status = "done"
    OBVIOUS
  <2>2. s \in {"get", "unwind"} /\ 0 < n /\ 1 .. 0 = {}
    BY <1>2
  <2>3. n' = n
    BY <1>3, <1>4
  <2> HIDE DEF s, n
  <2> QED
    BY <1>3, <1>4, <1>5, <1>6, <2>1, <2>2, <2>3 DEF TasksOfCall, n
<1> QED
  <2>1. s \in {"last", "get", "unwind", "threw"}
    OBVIOUS
  <2> QED
    BY <1>3, <1>7, <1>8, <2>1, CallerGoesOn

LEMMA GetStep ==
  ASSUME IInv, NEW p \in Parties, Get(p)
  PROVE  IInv'
<1>1. StateTyped /\ PartyOK(p)
  BY PartyByParty
<1> DEFINE n == WorkersOf(call[p])
           g == got[p]
<1>2. /\ n \in Nat \ {0} /\ n \in 1 .. MaxOTParallel /\ NumWorkers(p) = n
      /\ g \in 0 .. MaxOTParallel /\ g \in Nat
  BY <1>1, StateShape, SliceBounds DEF StateTyped
<1>3. /\ UNCHANGED <<program, call, instances, spawned, tasks, used, out>>
      /\ pc[p] = "get" /\ g + 1 < n
  BY <1>2 DEF Get
<1>4. /\ \A k : WorkersOf(k)' = WorkersOf(k) /\ \A w : Slice(p, w)' = Slice(p, w)
      /\ n' = n
  BY <1>3, SameCall
<1>5. /\ Len(tasks[p]) <= Len(instances[p]) /\ n <= Len(instances[p]) /\ Len(tasks[p]) = n
      /\ \A w \in 1 .. Len(tasks[p]) : tasks[p][w].slice.from < tasks[p][w].slice.to
      /\ \A w \in 1 .. Len(tasks[p]) : tasks[p][w].slice = Slice(p, w)
      /\ Len(tasks[p]) <= n /\ tasks[p][n].status = "done"
      /\ \A w \in 1 .. g : tasks[p][w].status = "done"
  BY <1>1, <1>3 DEF PartyOK, TasksOfCall
<1> HIDE DEF n, g
<1>6. CASE tasks[p][g + 1].status = "done" /\ got' = [got EXCEPT ![p] = g + 1] /\ UNCHANGED pc
  <2>1. /\ pc' = [pc EXCEPT ![p] = "get"] /\ got'[p] = g + 1 /\ pc'[p] = "get"
        /\ g + 1 \in 0 .. MaxOTParallel
    <3>1. g + 1 \in 0 .. MaxOTParallel
      BY <1>2, <1>3, SizesAssumption
    <3>2. got'[p] = g + 1
      BY <1>1, <1>6 DEF StateTyped
    <3>3. pc' = [pc EXCEPT ![p] = "get"] /\ pc'[p] = "get"
      BY <1>1, <1>3, <1>6 DEF StateTyped
    <3> QED
      BY <3>1, <3>2, <3>3
  <2>2. \A w \in 1 .. g + 1 : tasks[p][w].status = "done"
    <3>1. \A w \in 1 .. g + 1 : w \in 1 .. g \/ w = g + 1
      BY <1>2
    <3> QED
      BY <1>5, <1>6, <3>1
  <2>3. TasksOfCall(p)'
    BY <1>3, <1>4, <1>5, <2>1, <2>2 DEF TasksOfCall, n
  <2> QED
    BY <1>3, <1>6, <2>1, <2>3, CallerGoesOn
<1>7. CASE pc' = [pc EXCEPT ![p] = "unwind"] /\ UNCHANGED got
  <2>1. got' = [got EXCEPT ![p] = g] /\ pc'[p] = "unwind"
    BY <1>1, <1>7 DEF StateTyped, g
  <2>2. TasksOfCall(p)'
    BY <1>3, <1>4, <1>5, <2>1 DEF TasksOfCall, n
  <2> QED
    BY <1>2, <1>3, <1>7, <2>1, <2>2, CallerGoesOn
<1> QED
  BY <1>6, <1>7 DEF Get, g

LEMMA JoinStep ==
  ASSUME IInv, NEW p \in Parties, Join(p)
  PROVE  IInv'
<1>1. StateTyped /\ PartyOK(p)
  BY PartyByParty
<1>2. /\ UNCHANGED <<program, call, instances, spawned, tasks, got, used, out>>
      /\ pc[p] = "unwind" /\ pc' = [pc EXCEPT ![p] = "threw"]
      /\ \A w \in DOMAIN tasks[p] : tasks[p][w].status \notin {"queued", "working"}
  BY DEF Join
<1>3. pc'[p] = "threw" /\ got' = [got EXCEPT ![p] = got[p]] /\ got[p] \in 0 .. MaxOTParallel
  BY <1>1, <1>2 DEF StateTyped
<1>4. \A w \in 1 .. Len(tasks[p]) : tasks[p][w].status \notin {"queued", "working"}
  BY <1>1, <1>2, StateShape
<1>5. TasksOfCall(p)'
  BY <1>1, <1>2, <1>3, <1>4 DEF PartyOK, TasksOfCall
<1> QED
  BY <1>2, <1>3, <1>5, CallerGoesOn

----------------------------------------------------------------------------
(* A kernel begins: of the party's call, and the first of it on its link.  *)
LEMMA KernelBegins ==
  ASSUME IInv, NEW p \in Parties,
         pc[p] \in {"launch", "last", "get", "unwind"},
         NEW w \in 1 .. WorkersOf(call[p]), call[p] \notin Calls(p, w), NoteUse(p, w),
         UNCHANGED <<program, call, instances, spawned, got, out>>,
         NEW s \in {"launch", "last", "get", "unwind"}, pc' = [pc EXCEPT ![p] = s],
         tasks' \in [Parties -> Seq(TaskSet)],
         NEW d \in Nat, Len(tasks[p]) <= d, w <= d, d <= WorkersOf(call[p]),
         Len(tasks'[p]) = d, tasks'[p][w] = NewTask(p, w, "working"),
         \A v \in 1 .. d : v # w => /\ v \in 1 .. Len(tasks[p])
                                    /\ tasks'[p][v] = tasks[p][v],
         \A q \in Parties \ {p} : tasks'[q] = tasks[q],
         s = "launch" => d < WorkersOf(call[p]),
         s # "launch" => d = WorkersOf(call[p]),
         s = "last" => got[p] = 0,
         s = "launch" => got[p] = 0,
         s = "get" => /\ pc[p] = "get" /\ w # WorkersOf(call[p])
                      /\ w \notin 1 .. got[p]
  PROVE  IInv'
<1> DEFINE n == WorkersOf(call[p])
           U == tasks'[p]
           t == NewTask(p, w, "working")
<1>1. StateTyped /\ UsesOfCalls /\ LinksConsistent /\ PartyOK(p) /\ InstancesInOrder(p)
  BY PartyByParty DEF PartyOK
<1>2. /\ n \in Nat \ {0} /\ n \in 1 .. MaxOTParallel /\ w \in Nat \ {0} /\ w <= n
      /\ Len(tasks[p]) \in Nat /\ DOMAIN tasks[p] = 1 .. Len(tasks[p])
      /\ Len(instances[p]) \in Nat /\ MaxOTParallel \in Nat
  <2>1. /\ n \in Nat \ {0} /\ n \in 1 .. MaxOTParallel
        /\ Len(tasks[p]) \in Nat /\ DOMAIN tasks[p] = 1 .. Len(tasks[p])
        /\ Len(instances[p]) \in Nat /\ MaxOTParallel \in Nat
    BY <1>1, StateShape, SizesAssumption
  <2> QED
    BY <2>1
<1>3. /\ Len(tasks[p]) <= Len(instances[p]) /\ n <= Len(instances[p])
      /\ \A v \in 1 .. Len(tasks[p]) : tasks[p][v].slice.from < tasks[p][v].slice.to
      /\ \A v \in 1 .. Len(tasks[p]) : tasks[p][v].slice = Slice(p, v)
      /\ pc[p] = "get" => /\ got[p] < n /\ tasks[p][n].status = "done"
                          /\ \A v \in 1 .. got[p] : tasks[p][v].status = "done"
  BY <1>1 DEF PartyOK, TasksOfCall
<1>4. w \in 1 .. Len(instances[p]) /\ w \in 1 .. MaxOTParallel /\ w \in 1 .. d
  BY <1>2, <1>3
<1>5. /\ t.slice = Slice(p, w) /\ t.slice.from < t.slice.to
      /\ t.status = "working" /\ t.turn = Len(used[p][w]) + 1
  BY <1>1, <1>4, NewTaskShape
<1>6. /\ used' \in [Parties -> [1 .. MaxOTParallel -> Seq(Nat \X Nat)]]
      /\ Len(used'[p][w]) = Len(used[p][w]) + 1
      /\ \A q \in Parties : \A l \in 1 .. MaxOTParallel :
           <<q, l>> # <<p, w>> => used'[q][l] = used[q][l] /\ Calls(q, l)' = Calls(q, l)
      /\ Calls(p, w)' = Calls(p, w) \cup {call[p]}
  <2>1. w <= WorkersOf(call[p]) /\ StateTyped /\ UsesOfCalls /\ InstancesInOrder(p)
    BY <1>1, <1>2
  <2> HIDE DEF t, U, n
  <2> QED
    BY <1>4, <2>1, UseNoted
<1>7. UsesOfCalls' /\ LinksConsistent'
  BY <1>1, <1>2, <1>4, UseIsOfCall, UseIsConsistent
<1>8. /\ \A k : WorkersOf(k)' = WorkersOf(k) /\ \A v : Slice(p, v)' = Slice(p, v)
      /\ \A v : Link(p, v)' = Link(p, v) /\ n' = n
  BY SameCall DEF Link, Instance
<1>9. pc'[p] = s /\ \A q \in Parties \ {p} : pc'[q] = pc[q]
  BY <1>1 DEF StateTyped
<1>10. DOMAIN U = 1 .. d
  <2>1. U \in Seq(TaskSet)
    OBVIOUS
  <2> HIDE DEF U
  <2>2. DOMAIN U = 1 .. Len(U)
    BY <2>1
  <2> QED
    BY <2>2 DEF U
<1>11. StateTyped'
  BY <1>1, <1>6 DEF StateTyped
<1>12. InstancesInOrder(p)'
  BY <1>1 DEF InstancesInOrder, MaxSlices
<1> HIDE DEF t, U, n
<1>13. \A v \in 1 .. d : U[v].slice = Slice(p, v) /\ U[v].slice.from < U[v].slice.to
  BY <1>3, <1>5 DEF U, t
<1>14. s = "get" => /\ got[p] < n /\ U[n].status = "done"
                    /\ \A v \in 1 .. got[p] : U[v].status = "done"
  <2> SUFFICES ASSUME s = "get" PROVE /\ got[p] < n /\ U[n].status = "done"
                                      /\ \A v \in 1 .. got[p] : U[v].status = "done"
    OBVIOUS
  <2>1. d = n /\ pc[p] = "get" /\ w # n /\ w \notin 1 .. got[p] /\ got[p] < n
    BY <1>3 DEF n
  <2>2. got[p] \in Nat
    BY <1>1, <1>2 DEF StateTyped
  <2>3. n \in 1 .. d /\ \A v \in 1 .. got[p] : v \in 1 .. d /\ v # w
    BY <1>2, <2>1, <2>2
  <2>4. \A v \in 1 .. d : v # w => U[v] = tasks[p][v]
    BY DEF U
  <2> QED
    BY <1>3, <2>1, <2>3, <2>4
<1>15. TasksOfCall(p)'
  <2>1. d <= Len(instances[p]) /\ d <= n
    BY <1>2, <1>3 DEF n
  <2>2. s \notin {"init", "returned", "threw"}
    OBVIOUS
  <2>3. /\ s = "launch" => d < n
        /\ s # "launch" => d = n
        /\ s \in {"launch", "last"} => got[p] = 0
        /\ Len(tasks'[p]) = d
    BY DEF n
  <2> QED
    BY <1>3, <1>8, <1>9, <1>13, <1>14, <2>1, <2>2, <2>3 DEF TasksOfCall, U, n
<1>16. UsesOfThisCall(p)'
  <2>1. ASSUME NEW l \in 1 .. MaxOTParallel
        PROVE  /\ call[p] \in Calls(p, l)' => l <= d /\ Begun(p, l)'
               /\ l <= d /\ Begun(p, l)' => call[p] \in Calls(p, l)'
    <3>1. CASE l = w
      <4>1. Begun(p, w)'
        BY <1>5 DEF Begun, t
      <4> QED
        BY <1>6, <3>1, <4>1
    <3>2. CASE l # w
      <4>1. Calls(p, l)' = Calls(p, l)
        BY <1>6, <3>2
      <4>2. /\ call[p] \in Calls(p, l) => l <= Len(tasks[p]) /\ Begun(p, l)
            /\ l <= Len(tasks[p]) /\ Begun(p, l) => call[p] \in Calls(p, l)
        BY <1>1 DEF PartyOK, UsesOfThisCall
      <4>3. l \in Nat /\ (l <= d <=> l \in 1 .. d) /\ (l <= Len(tasks[p]) => l <= d)
        BY <1>2
      <4>4. l <= d => l <= Len(tasks[p]) /\ (Begun(p, l)' <=> Begun(p, l))
        <5> SUFFICES ASSUME l <= d
                     PROVE  l <= Len(tasks[p]) /\ (Begun(p, l)' <=> Begun(p, l))
          OBVIOUS
        <5>1. l \in 1 .. Len(tasks[p]) /\ tasks'[p][l] = tasks[p][l]
          BY <3>2, <4>3
        <5> QED
          BY <1>2, <5>1 DEF Begun
      <4> QED
        BY <4>1, <4>2, <4>3, <4>4
    <3> QED
      BY <3>1, <3>2
  <2> QED
    BY <1>9, <2>1 DEF UsesOfThisCall
<1>17. PartyOK(p)'
  <2>1. ASSUME NEW v \in 1 .. d, U[v].status = "working"
        PROVE  U[v].turn = Len(used'[p][Link(p, v)'])
    <3>1. CASE v = w
      <4>1. Link(p, v)' = w
        BY <1>1, <1>4, <1>8, <3>1, LinkOfWorker
      <4> QED
        BY <1>5, <1>6, <3>1, <4>1 DEF U, t
    <3>2. CASE v # w
      <4>1. v \in DOMAIN tasks[p] /\ U[v] = tasks[p][v]
        BY <1>2, <3>2 DEF U
      <4>2. Link(p, v) = v /\ v \in 1 .. MaxOTParallel
        BY <1>1, <4>1, TaskLink DEF PartyOK
      <4>3. tasks[p][v].turn = Len(used[p][Link(p, v)])
        BY <1>1, <2>1, <4>1 DEF PartyOK
      <4>4. used'[p][v] = used[p][v]
        BY <1>6, <3>2, <4>2
      <4> QED
        BY <1>8, <4>1, <4>2, <4>3, <4>4
    <3> QED
      BY <3>1, <3>2
  <2>2. pc'[p] # "returned"
    BY <1>9
  <2> QED
    BY <1>10, <1>12, <1>15, <1>16, <2>1, <2>2 DEF PartyOK, U
<1> QED
  <2>1. \A q \in Parties \ {p} : \A l \in 1 .. MaxOTParallel : used'[q][l] = used[q][l]
    BY <1>6
  <2> QED
    BY <1>7, <1>9, <1>11, <1>17, <2>1, StepOfParty

LEMMA RunLastStep ==
  ASSUME IInv, NEW p \in Parties, RunLast(p)
  PROVE  IInv'
<1> DEFINE n == WorkersOf(call[p])
           k == Len(tasks[p])
<1>1. StateTyped /\ PartyOK(p) /\ InstancesInOrder(p)
  BY PartyByParty DEF PartyOK
<1>2. /\ n \in Nat \ {0} /\ n \in 1 .. MaxOTParallel /\ k \in Nat /\ NumWorkers(p) = n
      /\ Len(instances[p]) \in Nat /\ pc[p] = "launch"
  BY <1>1, StateShape, SliceBounds DEF RunLast
<1>3. k + 1 = n /\ n \in 1 .. n /\ n <= Len(instances[p]) /\ n \in 1 .. Len(instances[p]) /\ got[p] = 0
  BY <1>1, <1>2 DEF RunLast, PartyOK, TasksOfCall
<1>4. /\ tasks' = [tasks EXCEPT ![p] = Append(@, NewTask(p, n, "working"))]
      /\ NoteUse(p, n) /\ pc' = [pc EXCEPT ![p] = "last"]
      /\ UNCHANGED <<program, call, instances, spawned, got, out>>
  BY <1>3 DEF RunLast
<1>5. call[p] \notin Calls(p, n)
  BY <1>1, <1>2, <1>3 DEF PartyOK, UsesOfThisCall
<1>6. NewTask(p, n, "working") \in TaskSet
  BY <1>1, <1>3, NewTaskShape
<1>7. /\ tasks' \in [Parties -> Seq(TaskSet)] /\ Len(tasks'[p]) = n
      /\ tasks'[p][n] = NewTask(p, n, "working")
      /\ \A v \in 1 .. k : tasks'[p][v] = tasks[p][v]
      /\ \A q \in Parties \ {p} : tasks'[q] = tasks[q]
  <2> DEFINE t == NewTask(p, n, "working")
  <2>1. t \in TaskSet /\ tasks' = [tasks EXCEPT ![p] = Append(@, t)]
    BY <1>4, <1>6
  <2> HIDE DEF t, n, k
  <2>2. /\ tasks' \in [Parties -> Seq(TaskSet)] /\ Len(tasks'[p]) = Len(tasks[p]) + 1
        /\ tasks'[p][Len(tasks[p]) + 1] = t
        /\ \A v \in 1 .. Len(tasks[p]) : tasks'[p][v] = tasks[p][v]
        /\ \A q \in Parties \ {p} : tasks'[q] = tasks[q]
    BY <1>1, <2>1, TaskAppended
  <2> QED
    BY <1>3, <2>2 DEF k, t
<1>8. k <= n /\ n <= n /\ \A v \in 1 .. n : v # n => v \in 1 .. k
  BY <1>2, <1>3
<1> HIDE DEF n, k
<1> QED
  BY <1>2, <1>3, <1>4, <1>5, <1>7, <1>8, KernelBegins DEF n, k

LEMMA TaskBegins ==
  ASSUME IInv, NEW p \in Parties, NEW w \in DOMAIN tasks[p],
         tasks[p][w].status \in {"queued", "deferred"},
         pc[p] \in {"launch", "last", "get", "unwind"},
         tasks' = [tasks EXCEPT ![p][w] = NewTask(p, w, "working")], NoteUse(p, w),
         UNCHANGED <<program, call, pc, instances, spawned, got, out>>
  PROVE  IInv'
<1> DEFINE n == WorkersOf(call[p])
           k == Len(tasks[p])
<1>1. StateTyped /\ PartyOK(p) /\ InstancesInOrder(p) /\ TasksOfCall(p)
  BY PartyByParty DEF PartyOK
<1>2. /\ n \in Nat \ {0} /\ n \in 1 .. MaxOTParallel /\ k \in Nat
      /\ w \in 1 .. k /\ w \in 1 .. Len(instances[p]) /\ w \in 1 .. MaxOTParallel
  BY <1>1, StateShape, TaskLink
<1>3. /\ k <= n /\ (pc[p] = "launch" => k < n) /\ (pc[p] # "launch" => k = n)
      /\ (pc[p] \in {"launch", "last"} => got[p] = 0)
      /\ (pc[p] = "get" => /\ tasks[p][n].status = "done"
                           /\ \A v \in 1 .. got[p] : tasks[p][v].status = "done")
  BY <1>1 DEF TasksOfCall
<1>4. w \in 1 .. n /\ w <= k /\ k <= k
  BY <1>2, <1>3
<1>5. pc[p] = "get" => w # n /\ w \notin 1 .. got[p]
  BY <1>3
<1>6. call[p] \notin Calls(p, w)
  BY <1>1, <1>2 DEF PartyOK, UsesOfThisCall, Begun
<1>7. NewTask(p, w, "working") \in TaskSet
  BY <1>1, <1>2, <1>4, NewTaskShape
<1>8. /\ tasks' \in [Parties -> Seq(TaskSet)] /\ Len(tasks'[p]) = k
      /\ tasks'[p][w] = NewTask(p, w, "working")
      /\ \A v \in 1 .. k : v # w => tasks'[p][v] = tasks[p][v]
      /\ \A q \in Parties \ {p} : tasks'[q] = tasks[q]
  BY <1>1, <1>7, TaskReplaced
<1>9. pc' = [pc EXCEPT ![p] = pc[p]]
  BY <1>1 DEF StateTyped
<1> HIDE DEF n, k
<1> QED
  BY <1>2, <1>3, <1>4, <1>5, <1>6, <1>8, <1>9, KernelBegins DEF n, k

LEMMA BeginStep ==
  ASSUME IInv, NEW p \in Parties, NEW w \in 1 .. Len(tasks[p]), Begin(p, w)
  PROVE  IInv'
<1>1. StateTyped /\ TasksOfCall(p)
  BY PartyByParty DEF PartyOK
<1>2. w \in DOMAIN tasks[p] /\ tasks[p][w].status = "queued"
  BY DEF Begin
<1>3. pc[p] \in {"launch", "last", "get", "unwind"}
  <2>1. pc[p] \in {"init", "launch", "last", "get", "unwind", "returned", "threw"}
    BY <1>1 DEF StateTyped
  <2>2. pc[p] \notin {"init", "returned", "threw"}
    BY <1>1, <1>2 DEF TasksOfCall
  <2> QED
    BY <2>1, <2>2
<1> QED
  BY <1>2, <1>3, TaskBegins DEF Begin

LEMMA GetDeferredStep ==
  ASSUME IInv, NEW p \in Parties, GetDeferred(p)
  PROVE  IInv'
<1>1. StateTyped /\ TasksOfCall(p)
  BY PartyByParty DEF PartyOK
<1> DEFINE w == got[p] + 1
<1>2. /\ pc[p] = "get" /\ tasks[p][w].status = "deferred" /\ w < NumWorkers(p)
      /\ tasks' = [tasks EXCEPT ![p][w] = NewTask(p, w, "working")] /\ NoteUse(p, w)
      /\ UNCHANGED <<program, call, pc, instances, spawned, got, out>>
  BY DEF GetDeferred
<1>3. w \in DOMAIN tasks[p]
  <2>1. /\ NumWorkers(p) = WorkersOf(call[p]) /\ WorkersOf(call[p]) \in Nat
        /\ DOMAIN tasks[p] = 1 .. Len(tasks[p]) /\ got[p] \in Nat
    BY <1>1, StateShape, SliceBounds, SizesAssumption DEF StateTyped
  <2>2. Len(tasks[p]) = WorkersOf(call[p])
    BY <1>1, <1>2 DEF TasksOfCall
  <2> QED
    BY <1>2, <2>1, <2>2
<1> HIDE DEF w
<1> QED
  BY <1>2, <1>3, TaskBegins

LEMMA StatusSet ==
  ASSUME StateTyped, NEW p \in Parties, NEW w \in DOMAIN tasks[p],
         NEW s \in {"done", "threw"}, tasks' = [tasks EXCEPT ![p][w].status = s]
  PROVE  /\ tasks' \in [Parties -> Seq(TaskSet)]
         /\ Len(tasks'[p]) = Len(tasks[p])
         /\ DOMAIN tasks'[p] = 1 .. Len(tasks[p])
         /\ tasks'[p][w].status = s /\ tasks'[p][w].slice = tasks[p][w].slice
         /\ \A v \in 1 .. Len(tasks[p]) : v # w => tasks'[p][v] = tasks[p][v]
         /\ \A q \in Parties \ {p} : tasks'[q] = tasks[q]
<1> DEFINE T == tasks[p]
           t == [T[w] EXCEPT !.status = s]
           U == [T EXCEPT ![w] = t]
<1>1. /\ tasks \in [Parties -> Seq(TaskSet)] /\ T \in Seq(TaskSet) /\ Len(T) \in Nat
      /\ DOMAIN T = 1 .. Len(T) /\ w \in 1 .. Len(T) /\ T[w] \in TaskSet
  BY StateShape DEF StateTyped
<1>2. /\ tasks'[p] = U /\ tasks' = [tasks EXCEPT ![p] = U]
      /\ \A q \in Parties \ {p} : tasks'[q] = tasks[q]
  BY <1>1
<1> HIDE DEF T
<1>3. t \in TaskSet /\ t.status = s /\ t.slice = T[w].slice
  BY <1>1 DEF TaskSet
<1> HIDE DEF t
<1>4. /\ U \in Seq(TaskSet) /\ Len(U) = Len(T) /\ DOMAIN U = 1 .. Len(T)
      /\ U[w] = t /\ \A v \in 1 .. Len(T) : v # w => U[v] = T[v]
  BY <1>1, <1>3
<1> HIDE DEF U
<1>5. tasks' \in [Parties -> Seq(TaskSet)]
  BY <1>1, <1>2, <1>4
<1> QED
  BY <1>2, <1>3, <1>4, <1>5 DEF T

(* A kernel that has begun ends.                                           *)
LEMMA KernelEnds ==
  ASSUME IInv, NEW p \in Parties, NEW w \in DOMAIN tasks[p],
         tasks[p][w].status = "working", NEW s \in {"done", "threw"},
         tasks' = [tasks EXCEPT ![p][w].status = s],
         UNCHANGED <<program, call, pc, instances, spawned, got, used, out>>
  PROVE  IInv'
<1> DEFINE T == tasks[p]
           U == tasks'[p]
           k == Len(T)
<1>1. StateTyped /\ UsesOfCalls /\ LinksConsistent /\ PartyOK(p)
      /\ InstancesInOrder(p) /\ TasksOfCall(p)
  BY PartyByParty DEF PartyOK
<1>2. /\ w \in 1 .. k /\ k \in Nat /\ DOMAIN T = 1 .. k /\ T[w] \in TaskSet
  BY <1>1, StateShape
<1>3. /\ tasks' \in [Parties -> Seq(TaskSet)] /\ Len(U) = k /\ DOMAIN U = 1 .. k
      /\ U[w].status = s /\ U[w].slice = T[w].slice
      /\ \A v \in 1 .. k : v # w => U[v] = T[v]
      /\ \A q \in Parties \ {p} : tasks'[q] = tasks[q]
  BY <1>1, StatusSet
<1>6. /\ UsesOfCalls' /\ LinksConsistent' /\ \A l : Calls(p, l)' = Calls(p, l)
      /\ \A v : WorkersOf(v)' = WorkersOf(v)
      /\ \A v : Slice(p, v)' = Slice(p, v)
      /\ \A v : Link(p, v)' = Link(p, v)
  BY <1>1, LinksUntouched, SameCall DEF Link, Instance
<1>7. StateTyped'
  BY <1>1, <1>3 DEF StateTyped
<1>8. InstancesInOrder(p)'
  BY <1>1 DEF InstancesInOrder, MaxSlices
<1>9. \A v \in 1 .. k :
        /\ U[v].slice = T[v].slice
        /\ T[v].status \notin {"working"} => U[v].status = T[v].status
        /\ T[v].status = "working" => U[v].status \in {"working", "done", "threw"}
        /\ U[v].status = "working" => v # w
  <2> TAKE v \in 1 .. k
  <2>1. CASE v = w
    BY <1>3, <2>1
  <2>2. CASE v # w
    BY <1>3, <2>2
  <2> QED
    BY <2>1, <2>2
<1>10. TasksOfCall(p)'
  <2> DEFINE n == WorkersOf(call[p])
             P == pc[p]
             g == got[p]
  <2>1. /\ k <= Len(instances[p])
        /\ \A v \in 1 .. k : T[v].slice.from < T[v].slice.to
        /\ P \in {"launch", "last", "get", "unwind"} =>
            /\ n <= Len(instances[p]) /\ k <= n
            /\ \A v \in 1 .. k : T[v].slice = Slice(p, v)
        /\ P = "launch" => k < n
        /\ P \in {"last", "get", "unwind"} => k = n
        /\ P \in {"launch", "last"} => g = 0
        /\ P = "get" => g < n /\ T[n].status = "done" /\ \A v \in 1 .. g : T[v].status = "done"
        /\ P \in {"init", "returned"} => \A v \in 1 .. k : T[v].status = "done"
        /\ P = "threw" => \A v \in 1 .. k : T[v].status \notin {"queued", "working"}
    BY <1>1 DEF TasksOfCall
  <2>2. P \notin {"init", "returned", "threw"}
    BY <1>2, <2>1
  <2>3. P = "get" => U[n].status = "done" /\ \A v \in 1 .. g : U[v].status = "done"
    <3> SUFFICES ASSUME P = "get"
                 PROVE  U[n].status = "done" /\ \A v \in 1 .. g : U[v].status = "done"
      OBVIOUS
    <3>1. n \in Nat \ {0} /\ g \in Nat
      BY <1>1, StateShape, SizesAssumption DEF StateTyped
    <3> HIDE DEF T, U, k, n, g, P
    <3>2. n \in 1 .. k /\ \A v \in 1 .. g : v \in 1 .. k
      BY <1>2, <2>1, <3>1
    <3> QED
      BY <1>9, <2>1, <3>2
  <2>4. \A v \in 1 .. k : U[v].slice.from < U[v].slice.to
    BY <1>9, <2>1
  <2>5. P \in {"launch", "last", "get", "unwind"} => \A v \in 1 .. k : U[v].slice = Slice(p, v)
    BY <1>9, <2>1
  <2>6. n' = n /\ P' = P /\ g' = g
    BY <1>6
  <2> HIDE DEF T, U, k, n, g, P
  <2> QED
    BY <1>3, <1>6, <2>1, <2>2, <2>3, <2>4, <2>5, <2>6 DEF TasksOfCall, U, n, P, g
<1>11. UsesOfThisCall(p)'
  <2>1. ASSUME NEW l \in 1 .. MaxOTParallel, l <= k PROVE Begun(p, l)' <=> Begun(p, l)
    <3>1. l \in 1 .. k
      BY <1>2, <2>1
    <3>2. CASE l = w
      BY <1>3, <3>2 DEF Begun
    <3>3. CASE l # w
      BY <1>3, <3>1, <3>3 DEF Begun
    <3> QED
      BY <3>2, <3>3
  <2> QED
    BY <1>1, <1>3, <1>6, <2>1 DEF PartyOK, UsesOfThisCall
<1>12. PartyOK(p)'
  <2>1. ASSUME NEW v \in 1 .. k, U[v].status = "working"
        PROVE  U[v].turn = Len(used'[p][Link(p, v)'])
    <3>1. v # w /\ U[v] = T[v]
      BY <1>3, <1>9, <2>1
    <3>2. T[v].turn = Len(used[p][Link(p, v)])
      BY <1>1, <1>2, <2>1, <3>1 DEF PartyOK
    <3> QED
      BY <1>6, <3>1, <3>2
  <2>2. Numel(p)' = Numel(p)
    BY SameCall
  <2> QED
    BY <1>1, <1>3, <1>8, <1>10, <1>11, <2>1, <2>2 DEF PartyOK
<1> QED
  BY <1>3, <1>6, <1>7, <1>12, StepOfParty

----------------------------------------------------------------------------
(* The results of adjacent slices, one after the other.                    *)
UpTo(n) == [i \in 1 .. n |-> i - 1]

LEMMA ElementsFollow ==
  ASSUME NEW a \in Nat, NEW b \in Nat, a <= b
  PROVE  UpTo(a) \o [i \in 1 .. b - a |-> a + i - 1] = UpTo(b)
<1> DEFINE s == UpTo(a)
           t == [i \in 1 .. b - a |-> a + i - 1]
           u == s \o t
<1>1. s \in Seq(Int) /\ Len(s) = a /\ \A i \in 1 .. a : s[i] = i - 1
  BY DEF UpTo
<1>2. b - a \in Nat
  OBVIOUS
<1>3. t \in Seq(Int) /\ Len(t) = b - a /\ \A i \in 1 .. b - a : t[i] = a + i - 1
  BY <1>2
<1> HIDE DEF s, t
<1>4. u \in Seq(Int) /\ Len(u) = b
  <2>1. u \in Seq(Int) /\ Len(u) = Len(s) + Len(t)
    BY <1>1, <1>3, ConcatProperties
  <2> QED
    BY <1>1, <1>3, <2>1
<1>5. ASSUME NEW i \in 1 .. b PROVE u[i] = i - 1
  <2>1. CASE i <= a
    BY <1>1, <1>3, <2>1
  <2>2. CASE ~ (i <= a)
    <3>1. i - a \in 1 .. b - a /\ u[i] = t[i - a]
      BY <1>1, <1>3, <2>2
    <3> QED
      BY <1>3, <3>1
  <2> QED
    BY <2>1, <2>2
<1> HIDE DEF u
<1>6. u = [i \in 1 .. b |-> u[i]]
  BY <1>4
<1>7. u = UpTo(b)
  BY <1>5, <1>6 DEF UpTo
<1> QED
  BY <1>7 DEF s, t, u

LEMMA FlattenAdjacent ==
  ASSUME NEW n \in Nat \ {0}, NEW B \in [0 .. n -> Nat], B[0] = 0,
         NEW seqs, Len(seqs) = n,
         \A w \in 1 .. n : /\ B[w - 1] <= B[w]
                           /\ seqs[w] = [i \in 1 .. B[w] - B[w - 1] |-> B[w - 1] + i - 1]
  PROVE  FlattenSeq(seqs) = UpTo(B[n])
<1> DEFINE Flat(f) == f = [i \in 1 .. n |-> IF i = 1 THEN seqs[i] ELSE f[i - 1] \o seqs[i]]
           g == [i \in 1 .. n |-> UpTo(B[i])]
           f == CHOOSE h : Flat(h)
<1>1. \A w \in 1 .. n : UpTo(B[w - 1]) \o seqs[w] = UpTo(B[w])
  <2> TAKE w \in 1 .. n
  <2>1. B[w - 1] \in Nat /\ B[w] \in Nat
    OBVIOUS
  <2> QED
    BY <2>1, ElementsFollow
<1>2. seqs[1] = UpTo(B[1])
  <2>1. B[1] \in Nat /\ 1 \in 1 .. n /\ 1 - 1 = 0
    OBVIOUS
  <2>2. seqs[1] = [i \in 1 .. B[1] - 0 |-> 0 + i - 1]
    BY <2>1
  <2>3. B[1] - 0 = B[1] /\ \A i \in 1 .. B[1] : 0 + i - 1 = i - 1
    BY <2>1
  <2> QED
    BY <2>2, <2>3 DEF UpTo
<1>3. Flat(g)
  <2>1. ASSUME NEW i \in 1 .. n
        PROVE  UpTo(B[i]) = IF i = 1 THEN seqs[i] ELSE g[i - 1] \o seqs[i]
    <3>1. i # 1 => i - 1 \in 1 .. n
      OBVIOUS
    <3>2. i # 1 => g[i - 1] = UpTo(B[i - 1])
      BY <3>1
    <3> QED
      BY <1>1, <1>2, <3>2
  <2>2. g = [i \in 1 .. n |-> UpTo(B[i])]
    OBVIOUS
  <2> HIDE DEF g
  <2> QED
    BY <2>1, <2>2
<1>4. Flat(f)
  <2> HIDE DEF Flat, g
  <2> QED
    BY <1>3
<1>5. FlattenSeq(seqs) = f[n]
  BY DEF FlattenSeq
<1> HIDE DEF f
<1>6. \A i \in 1 .. n : f[i] = IF i = 1 THEN seqs[i] ELSE f[i - 1] \o seqs[i]
  BY <1>4
<1> HIDE DEF Flat, g
<1> DEFINE S == {m \in Nat : m \in 1 .. n => f[m] = UpTo(B[m])}
<1>7. 0 \in S
  OBVIOUS
<1>8. ASSUME NEW m \in Nat, m \in S PROVE m + 1 \in S
  <2> SUFFICES ASSUME m + 1 \in 1 .. n PROVE f[m + 1] = UpTo(B[m + 1])
    OBVIOUS
  <2>1. CASE m = 0
    BY <1>2, <1>6, <2>1
  <2>2. CASE m # 0
    <3>1. m \in 1 .. n /\ m + 1 # 1 /\ (m + 1) - 1 = m
      BY <2>2
    <3>2. f[m] = UpTo(B[m]) /\ f[m + 1] = f[m] \o seqs[m + 1]
      BY <1>6, <1>8, <3>1
    <3>3. UpTo(B[m]) \o seqs[m + 1] = UpTo(B[m + 1])
      BY <1>1, <3>1
    <3> QED
      BY <3>2, <3>3
  <2> QED
    BY <2>1, <2>2
<1>9. Nat \subseteq S
  <2> HIDE DEF S
  <2> QED
    BY <1>7, <1>8, Induction
<1> QED
  BY <1>5, <1>9

LEMMA ReturnStep ==
  ASSUME IInv, NEW p \in Parties, Return(p)
  PROVE  IInv'
<1> DEFINE c == call[p]
           n == WorkersOf(c)
           N == Numel(p)
           W == Workload(p)
           T == tasks[p]
           C == Len(program)
<1>1. StateTyped /\ UsesOfCalls /\ LinksConsistent /\ PartyOK(p)
      /\ InstancesInOrder(p) /\ TasksOfCall(p)
  BY PartyByParty DEF PartyOK
<1>2. /\ UNCHANGED <<program, instances, spawned, tasks, got, used>>
      /\ pc[p] = "get" /\ got[p] + 1 = NumWorkers(p)
      /\ out' = [out EXCEPT ![p] = FlattenSeq([w \in DOMAIN T |-> SliceElements(T[w].slice)])]
      /\ IF c < C
         THEN call' = [call EXCEPT ![p] = c + 1] /\ pc' = [pc EXCEPT ![p] = "init"]
         ELSE pc' = [pc EXCEPT ![p] = "returned"] /\ UNCHANGED call
  BY DEF Return
<1>3. /\ n \in Nat \ {0} /\ n \in 1 .. MaxOTParallel /\ NumWorkers(p) = n
      /\ N \in Nat \ {0} /\ W \in Nat \ {0} /\ got[p] \in Nat
      /\ c \in Nat \ {0} /\ C \in Nat /\ c \in 1 .. C
      /\ Len(T) \in Nat /\ DOMAIN T = 1 .. Len(T) /\ Len(instances[p]) \in Nat
  <2>1. /\ n \in Nat \ {0} /\ n \in 1 .. MaxOTParallel
        /\ c \in Nat \ {0} /\ C \in Nat /\ c \in 1 .. C
        /\ Len(T) \in Nat /\ DOMAIN T = 1 .. Len(T) /\ Len(instances[p]) \in Nat
    BY <1>1, StateShape
  <2>2. 1 \in 1 .. n
    BY <2>1
  <2>3. NumWorkers(p) = n /\ N \in Nat \ {0} /\ W \in Nat \ {0}
    BY <1>1, <2>2, SliceBounds
  <2>4. got[p] \in Nat
    BY <1>1, SizesAssumption DEF StateTyped
  <2> QED
    BY <2>1, <2>3, <2>4
<1>4. /\ Len(T) = n /\ Len(T) <= Len(instances[p])
      /\ \A w \in 1 .. n : T[w].slice.from < T[w].slice.to /\ T[w].slice = Slice(p, w)
      /\ T[n].status = "done" /\ \A w \in 1 .. got[p] : T[w].status = "done"
  BY <1>1, <1>2 DEF TasksOfCall
<1>5. \A w \in 1 .. n : T[w].status = "done"
  <2>1. \A w \in 1 .. n : w \in 1 .. got[p] \/ w = n
    BY <1>2, <1>3
  <2> QED
    BY <1>4, <2>1
<1>6. \A l \in 1 .. MaxOTParallel : l <= n => c \in Calls(p, l)
  <2> SUFFICES ASSUME NEW l \in 1 .. MaxOTParallel, l <= n PROVE c \in Calls(p, l)
    OBVIOUS
  <2>1. l \in 1 .. n
    BY <1>3
  <2>2. Begun(p, l)
    BY <1>5, <2>1 DEF Begun
  <2> QED
    BY <1>1, <1>2, <1>4, <2>2 DEF PartyOK, UsesOfThisCall
<1>7. out'[p] = UpTo(N)
  <2> DEFINE seqs == [w \in 1 .. n |-> SliceElements(Slice(p, w))]
             B == [w \in 0 .. n |-> IF w < n THEN w * W ELSE N]
  <2>1. [w \in DOMAIN T |-> SliceElements(T[w].slice)] = seqs
    BY <1>3, <1>4
  <2>2. out'[p] = FlattenSeq(seqs)
    BY <1>1, <1>2, <2>1 DEF StateTyped
  <2>3. B \in [0 .. n -> Nat] /\ B[0] = 0 /\ B[n] = N
    <3>1. \A w \in 0 .. n : w * W \in Nat
      BY <1>3
    <3>2. 0 * W = 0
      BY <1>3
    <3> HIDE DEF n, N, W
    <3> QED
      BY <1>3, <3>1, <3>2
  <2>4. Len(seqs) = n
    <3> HIDE DEF n
    <3> QED
      BY <1>3
  <2>5. ASSUME NEW w \in 1 .. n
        PROVE  /\ B[w - 1] <= B[w]
               /\ seqs[w] = [i \in 1 .. B[w] - B[w - 1] |-> B[w - 1] + i - 1]
    <3>1. /\ Slice(p, w) = [from |-> (w - 1) * W, to |-> IF w < n THEN w * W ELSE N]
          /\ Slice(p, w).from < Slice(p, w).to
      BY <1>1, SliceBounds
    <3> HIDE DEF n, N, W
    <3>2. B[w - 1] = (w - 1) * W /\ B[w] = IF w < n THEN w * W ELSE N
      BY <1>3
    <3>3. B[w - 1] = Slice(p, w).from /\ B[w] = Slice(p, w).to
      BY <3>1, <3>2
    <3>4. B[w - 1] <= B[w]
      <4>1. B[w - 1] \in Nat /\ B[w] \in Nat
        BY <1>3, <2>3
      <4> QED
        BY <3>1, <3>3, <4>1
    <3>5. seqs[w] = SliceElements(Slice(p, w))
      OBVIOUS
    <3> QED
      BY <3>3, <3>4, <3>5 DEF SliceElements
  <2> HIDE DEF seqs, B, n, N
  <2>6. FlattenSeq(seqs) = UpTo(B[n])
    BY <1>3, <2>3, <2>4, <2>5, FlattenAdjacent
  <2> QED
    BY <2>2, <2>3, <2>6
<1>8. \A q \in Parties \ {p} :
        /\ call'[q] = call[q] /\ pc'[q] = pc[q] /\ out'[q] = out[q]
  BY <1>1, <1>2 DEF StateTyped
<1>9. IF c < C THEN call'[p] = c + 1 /\ pc'[p] = "init" ELSE call'[p] = c /\ pc'[p] = "returned"
  BY <1>1, <1>2 DEF StateTyped
<1>10. StateTyped'
  <2>1. call' \in [Parties -> Nat] /\ \A q \in Parties : call'[q] \in 1 .. Len(program)
    <3>1. c < C => c + 1 \in Nat /\ c + 1 \in 1 .. C
      BY <1>3
    <3>2. call' \in [Parties -> Nat]
      BY <1>1, <1>2, <3>1 DEF StateTyped
    <3>3. \A q \in Parties : call'[q] \in 1 .. Len(program)
      <4> TAKE q \in Parties
      <4>1. CASE q = p
        BY <1>3, <1>9, <3>1, <4>1
      <4>2. CASE q # p
        BY <1>1, <1>8, <4>2 DEF StateTyped
      <4> QED
        BY <4>1, <4>2
    <3> QED
      BY <3>2, <3>3
  <2>2. pc' \in [Parties ->
            {"init", "launch", "last", "get", "unwind", "returned", "threw"}]
    BY <1>1, <1>2 DEF StateTyped
  <2>3. out' = [q \in Parties |-> out'[q]]
    BY <1>1, <1>2 DEF StateTyped
  <2> QED
    BY <1>1, <1>2, <2>1, <2>2, <2>3 DEF StateTyped
<1>11. /\ \A q, l : Calls(q, l)' = Calls(q, l)
       /\ \A k : WorkersOf(k)' = WorkersOf(k)
       /\ \A w : Link(p, w)' = Link(p, w)
  BY <1>2 DEF Calls, WorkersOf, Link, Instance
<1>12. \A l \in 1 .. MaxOTParallel : \A k \in Calls(p, l) : k \in 1 .. c
  BY <1>1 DEF UsesOfCalls, Calls
<1>13. UsesOfCalls'
  <2>1. ASSUME NEW q \in Parties, NEW l \in 1 .. MaxOTParallel
        PROVE  /\ \A i \in 1 .. Len(used[q][l]) :
                    /\ used[q][l][i][2] = l /\ used[q][l][i][1] \in 1 .. call'[q]
                    /\ l <= WorkersOf(used[q][l][i][1])
               /\ \A i, j \in 1 .. Len(used[q][l]) :
                    i < j => used[q][l][i][1] < used[q][l][j][1]
               /\ \A k \in 1 .. call'[q] - 1 : l <= WorkersOf(k) => k \in Calls(q, l)
    <3>1. /\ \A i \in 1 .. Len(used[q][l]) :
               /\ used[q][l][i][2] = l /\ used[q][l][i][1] \in 1 .. call[q]
               /\ l <= WorkersOf(used[q][l][i][1])
          /\ \A i, j \in 1 .. Len(used[q][l]) :
               i < j => used[q][l][i][1] < used[q][l][j][1]
          /\ \A k \in 1 .. call[q] - 1 : l <= WorkersOf(k) => k \in Calls(q, l)
      BY <1>1 DEF UsesOfCalls
    <3>2. CASE call'[q] = call[q]
      BY <3>1, <3>2
    <3>3. CASE call'[q] # call[q]
      <4>1. q = p /\ call'[q] = c + 1 /\ call[q] = c
        BY <1>8, <1>9, <3>3
      <4>2. \A k \in 1 .. c : k \in 1 .. c + 1
        BY <1>3
      <4>3. \A k \in 1 .. c : k \in 1 .. c - 1 \/ k = c
        BY <1>3
      <4>4. \A i \in 1 .. Len(used[q][l]) : used[q][l][i][1] \in 1 .. call'[q]
        BY <3>1, <4>1, <4>2
      <4>5. \A k \in 1 .. c : l <= WorkersOf(k) => k \in Calls(q, l)
        <5> TAKE k \in 1 .. c
        <5>1. CASE k \in 1 .. c - 1
          BY <3>1, <4>1, <5>1
        <5>2. CASE k = c
          BY <1>6, <4>1, <5>2
        <5> QED
          BY <4>3, <5>1, <5>2
      <4>6. \A k \in 1 .. call'[q] - 1 : l <= WorkersOf(k) => k \in Calls(q, l)
        <5>1. call'[q] - 1 = c
          <6>1. c \in Nat /\ call'[q] = c + 1
            BY <1>3, <4>1
          <6> HIDE DEF c
          <6> QED
            BY <6>1
        <5> HIDE DEF c
        <5> QED
          BY <4>5, <5>1
      <4>7. \A i \in 1 .. Len(used[q][l]) :
              /\ used[q][l][i][2] = l /\ used[q][l][i][1] \in 1 .. call'[q]
              /\ l <= WorkersOf(used[q][l][i][1])
        BY <3>1, <4>4
      <4> QED
        BY <3>1, <4>6, <4>7
    <3> QED
      BY <3>2, <3>3
  <2> QED
    BY <1>2, <1>11, <2>1 DEF UsesOfCalls
<1>14. LinksConsistent'
  BY <1>1, <1>2 DEF LinksConsistent
<1>15. InstancesInOrder(p)'
  BY <1>1, <1>2 DEF InstancesInOrder, MaxSlices
<1>16. TasksOfCall(p)'
  <2>1. pc'[p] \in {"init", "returned"}
    BY <1>9
  <2> QED
    BY <1>2, <1>4, <1>5, <2>1 DEF TasksOfCall
<1>17. UsesOfThisCall(p)'
  <2>1. CASE c < C
    <3>1. pc'[p] = "init" /\ call'[p] = c + 1
      BY <1>9, <2>1
    <3>2. \A l \in 1 .. MaxOTParallel : c + 1 \notin Calls(p, l)
      BY <1>3, <1>12
    <3> QED
      BY <1>11, <3>1, <3>2 DEF UsesOfThisCall
  <2>2. CASE ~ (c < C)
    <3>1. pc'[p] = "returned" /\ call'[p] = c
      BY <1>9, <2>2
    <3>2. \A l : Begun(p, l)' <=> Begun(p, l)
      BY <1>2 DEF Begun
    <3>3. \A l \in 1 .. MaxOTParallel : c \in Calls(p, l) => l <= Len(T) /\ Begun(p, l)
      BY <1>1 DEF PartyOK, UsesOfThisCall
    <3> QED
      BY <1>2, <1>11, <3>1, <3>2, <3>3 DEF UsesOfThisCall
  <2> QED
    BY <2>1, <2>2
<1>18. PartyOK(p)'
  <2>1. pc'[p] = "returned" => Numel(p)' = N
    BY <1>2, <1>9 DEF Numel
  <2>2. \A w \in DOMAIN T : T[w].status # "working"
    BY <1>3, <1>4, <1>5
  <2> QED
    BY <1>2, <1>7, <1>15, <1>16, <1>17, <2>1, <2>2 DEF PartyOK, UpTo
<1> QED
  <2>1. UNCHANGED program
    BY <1>2
  <2> QED
    BY <1>2, <1>8, <1>10, <1>13, <1>14, <1>18, <2>1, StepOfParty

----------------------------------------------------------------------------
LEMMA StepIInv == IInv /\ [Next]_vars => IInv'
<1> SUFFICES ASSUME IInv, [Next]_vars PROVE IInv'
  OBVIOUS
<1>1. CASE UNCHANGED vars
  <2>1. StateTyped /\ UsesOfCalls /\ LinksConsistent /\ \A p \in Parties : PartyOK(p)
    BY PartyByParty
  <2>2. UsesOfCalls' /\ LinksConsistent'
    BY <1>1, <2>1, LinksUntouched DEF vars
  <2>3. StateTyped'
    BY <1>1, <2>1 DEF StateTyped, vars
  <2>4. \A p \in Parties : PartyOK(p)'
    BY <1>1, <2>1, Bystander DEF vars
  <2> QED
    BY <2>2, <2>3, <2>4 DEF IInv, PartyOK, InstanceExclusive, OutputComplete
<1>2. ASSUME NEW p \in Parties, CallerStep(p) PROVE IInv'
  BY <1>2, LazyInitStep, InitThrowStep, LaunchStep, RunLastStep, LastDoneStep,
     GetDeferredStep, GetStep, JoinStep, ReturnStep DEF CallerStep
<1>3. ASSUME NEW p \in Parties, NEW w \in 1 .. Len(tasks[p]), Kernel(p, w) PROVE IInv'
  <2>1. CASE Begin(p, w)
    BY <2>1, BeginStep
  <2>2. CASE Finish(p, w)
    BY <2>2, KernelEnds DEF Finish
  <2>3. CASE Throw(p, w)
    BY <2>3, KernelEnds DEF Throw
  <2> QED
    BY <1>3, <2>1, <2>2, <2>3 DEF Kernel
<1> QED
  BY <1>1, <1>2, <1>3 DEF Next

(* In every reachable state, for any number of parties, calls and cores,   *)
(* the dispatch's inductive invariant holds.                               *)
THEOREM Invariance == Spec => []IInv
<1>1. Init => IInv
  BY InitIInv
<1>2. IInv /\ [Next]_vars => IInv'
  BY StepIInv
<1> QED
  BY <1>1, <1>2, PTL DEF Spec

LEMMA TypesFollow == IInv => TypeOK
<1> SUFFICES ASSUME IInv PROVE TypeOK
  OBVIOUS
<1>1. StateTyped /\ \A p \in Parties : InstancesInOrder(p) /\ TasksOfCall(p)
  BY DEF IInv
<1>2. ASSUME NEW p \in Parties
      PROVE  /\ \A i \in DOMAIN instances[p] : instances[p][i] \in 1 .. MaxSlices
             /\ \A w \in DOMAIN tasks[p] :
                  /\ tasks[p][w].slice \in [from : Nat, to : Nat]
                  /\ tasks[p][w].status \in {"queued", "deferred", "working", "done", "threw"}
                  /\ tasks[p][w].slice.from < tasks[p][w].slice.to
  <2>1. /\ DOMAIN tasks[p] = 1 .. Len(tasks[p]) /\ instances[p] \in Seq(Nat)
        /\ \A w \in 1 .. Len(tasks[p]) : tasks[p][w] \in TaskSet
        /\ Len(instances[p]) \in Nat
    BY <1>1, StateShape
  <2>2. /\ Len(instances[p]) <= MaxSlices /\ MaxSlices \in Nat
        /\ \A i \in 1 .. Len(instances[p]) : instances[p][i] = i
    BY <1>1, MaxSlicesBound DEF InstancesInOrder
  <2>3. \A i \in DOMAIN instances[p] : instances[p][i] \in 1 .. MaxSlices
    BY <2>1, <2>2
  <2>4. ASSUME NEW w \in DOMAIN tasks[p]
        PROVE  /\ tasks[p][w].slice \in [from : Nat, to : Nat]
               /\ tasks[p][w].status \in {"queued", "deferred", "working", "done", "threw"}
               /\ tasks[p][w].slice.from < tasks[p][w].slice.to
    <3>1. tasks[p][w] \in TaskSet /\ w \in 1 .. Len(tasks[p])
      BY <2>1
    <3>2. tasks[p][w].slice.from < tasks[p][w].slice.to
      BY <1>1, <3>1 DEF TasksOfCall
    <3> QED
      BY <3>1, <3>2 DEF TaskSet
  <2> QED
    BY <2>3, <2>4
<1>3. SlicesNonEmpty
  BY <1>2 DEF SlicesNonEmpty
<1>4. \A p \in Parties :
        /\ call[p] \in 1 .. Len(program) /\ got[p] \in 0 .. MaxOTParallel
        /\ pc[p] \in {"init", "launch", "last", "get", "unwind", "returned", "threw"}
        /\ spawned[p] = Len(instances[p])
  BY <1>1 DEF StateTyped, InstancesInOrder
<1>5. program \in Programs
  BY <1>1 DEF StateTyped
<1> QED
  BY <1>2, <1>3, <1>4, <1>5 DEF TypeOK

(* The state is well typed and no kernel is given an empty slice.          *)
THEOREM TypeCorrect == Spec => []TypeOK
BY Invariance, TypesFollow, PTL

(* On every link the parties run the kernels of the same slices in the     *)
(* same order, whatever order each party's tasks run in.                   *)
THEOREM KernelsPaired == Spec => []LinksConsistent
<1>1. IInv => LinksConsistent
  BY DEF IInv
<1> QED
  BY <1>1, Invariance, PTL

(* No OT instance is ever in the hands of two kernels.                     *)
THEOREM OneKernelPerInstance == Spec => []InstanceExclusive
<1>1. IInv => InstanceExclusive
  BY DEF IInv
<1> QED
  BY <1>1, Invariance, PTL

(* Every kernel is given some of the input, and the output of the last     *)
(* call holds every element at its place: least work of a task that is not *)
(* smaller than the number of instances is what the first part rests on.   *)
THEOREM OutputAssembled == Spec => []Assembled
<1>1. IInv => Assembled
  <2>1. IInv => SlicesNonEmpty
    BY TypesFollow DEF TypeOK
  <2> QED
    BY <2>1 DEF IInv, Assembled
<1> QED
  BY <1>1, Invariance, PTL
=============================================================================
