-------------------------------- MODULE Tiled ------------------------------
(***************************************************************************)
(* tiled (mpc/utils/tiling_util.h): a kernel on a large array is run tile  *)
(* by tile, each tile in a forked context and a std::async task, and the   *)
(* results are copied one after the other into the output.  The default    *)
(* launch policy lets the implementation run a task in a thread, or defer  *)
(* it until its future is asked for.                                       *)
(***************************************************************************)
EXTENDS Integers, SequencesExt

CONSTANTS
  Parties,
  Shapes,     \* the shapes that x may have
  BlockSize,  \* kBlockSize = kMinTaskSize
  Policies,   \* what std::async may do: {"queued"}, {"deferred"} or both
  Faulty      \* parties whose kernels may throw

(* Arrays that hold something, of any rank.                                *)
ASSUME SizesAssumption == BlockSize \in Nat \ {0} /\ Shapes \subseteq Seq(Nat \ {0})
ASSUME PoliciesAssumption == Policies \subseteq {"queued", "deferred"}

VARIABLES
  shape,   \* x.shape()
  pc,      \* pc[p]: where the calling thread of p is in tiled
  forks,   \* forks[p]: contexts p has begun to fork
  from,    \* from[p]: start_indices
  to,      \* to[p]: end_indices
  tasks,   \* tasks[p]: the tiles launched, with the status of their tasks
  got,     \* got[p]: futures whose result p has taken
  data,    \* data[p]: the local array x.data() exists
  ctxs,    \* ctxs[p]: the forked contexts exist
  out      \* out[p]: the elements of x whose results the output holds, in order

vars == <<shape, pc, forks, from, to, tasks, got, data, ctxs, out>>

(* s[a] * ... * s[b].                                                      *)
Product(s, a, b) ==
  LET prod[d \in a - 1 .. b] == IF d < a THEN 1 ELSE prod[d - 1] * s[d]
  IN prod[b]

Rank == Len(shape)
Numel == Product(shape, 1, Rank)

(* The outermost dimension whose inner dimensions fit into a block.        *)
SlicingDim == Max({d \in 1 .. Rank : Product(shape, d, Rank) > BlockSize})

SliceStride == BlockSize \div Product(shape, SlicingDim + 1, Rank)

(* The tiles along the slicing dimension, and all tiles.                   *)
NumSliceDim ==
  shape[SlicingDim] \div SliceStride + (IF shape[SlicingDim] % SliceStride # 0 THEN 1 ELSE 0)
NumTiles == NumSliceDim * Product(shape, 1, SlicingDim - 1)

FirstFrom == [d \in 1 .. Rank |-> 0]
FirstTo == [d \in 1 .. Rank |-> IF d < SlicingDim THEN 1
                                ELSE IF d = SlicingDim THEN SliceStride ELSE shape[d]]

(* Mutant: the carry stops after one dimension.                            *)
CarryReachesOne(p, d) == d = SlicingDim - 1

(* The loop of the carry reaches dimension d.                              *)
CarryReaches(p, d) == \A k \in d + 1 .. SlicingDim - 1 : to[p][k] = shape[k]

AtEnd(p) == to[p][SlicingDim] = shape[SlicingDim]

NextFrom(p) ==
  [d \in 1 .. Rank |->
     CASE d = SlicingDim -> IF AtEnd(p) THEN 0 ELSE from[p][d] + SliceStride
       [] d < SlicingDim /\ AtEnd(p) /\ CarryReaches(p, d) -> (from[p][d] + 1) % shape[d]
       [] OTHER -> from[p][d]]

(* Mutant: the last tile of a row is not cut off at the end of the row.    *)
NextToUncut(p) ==
  [d \in 1 .. Rank |->
     CASE d = SlicingDim -> IF AtEnd(p) THEN SliceStride ELSE to[p][d] + SliceStride
       [] d < SlicingDim /\ AtEnd(p) /\ CarryReaches(p, d) -> (to[p][d] % shape[d]) + 1
       [] OTHER -> to[p][d]]

NextTo(p) ==
  [d \in 1 .. Rank |->
     CASE d = SlicingDim ->
            IF AtEnd(p) THEN SliceStride
            ELSE Min({to[p][d] + SliceStride, shape[d]})
       [] d < SlicingDim /\ AtEnd(p) /\ CarryReaches(p, d) -> (to[p][d] % shape[d]) + 1
       [] OTHER -> to[p][d]]

(* The place of an element in the flattened array; of its first k indices, *)
(* in the array of the first k dimensions.                                 *)
Place(ix, k) ==
  LET place[d \in 0 .. k] == IF d = 0 THEN 0 ELSE place[d - 1] * shape[d] + ix[d]
  IN place[k]

(* The places of a tile's elements, in the order that they have in it.     *)
Elements(lo, hi) ==
  LET extent == [d \in 1 .. Rank |-> hi[d] - lo[d]]
      ix(n) == [d \in 1 .. Rank |->
                  lo[d] + ((n \div Product(extent, d + 1, Rank)) % extent[d])]
  IN [i \in 1 .. Product(extent, 1, Rank) |-> Place(ix(i - 1), Rank)]

----------------------------------------------------------------------------
Init ==
  /\ shape \in Shapes
  /\ pc = [p \in Parties |-> "fork"]
  /\ forks = [p \in Parties |-> 0]
  /\ from = [p \in Parties |-> FirstFrom]
  /\ to = [p \in Parties |-> IF Numel <= BlockSize THEN shape ELSE FirstTo]
  /\ tasks = [p \in Parties |-> <<>>]
  /\ got = [p \in Parties |-> 0]
  /\ data = [p \in Parties |-> TRUE]
  /\ ctxs = [p \in Parties |-> TRUE]
  /\ out = [p \in Parties |-> <<>>]

(* A small array: the kernel runs in the caller's context and thread.      *)
Whole(p) ==
  /\ pc[p] = "fork" /\ Numel <= BlockSize
  /\ tasks' = [tasks EXCEPT ![p] = <<[from |-> from[p], to |-> to[p], status |-> "working"]>>]
  /\ pc' = [pc EXCEPT ![p] = "get"]
  /\ UNCHANGED <<shape, forks, from, to, got, data, ctxs, out>>

(* A fork gathers the core counts of all parties on the new link.          *)
Forked(p) == \A q \in Parties : forks[q] >= forks[p]

Fork(p) ==
  /\ pc[p] = "fork" /\ Numel > BlockSize
  /\ Forked(p)
  /\ IF forks[p] < NumTiles
     THEN forks' = [forks EXCEPT ![p] = @ + 1] /\ UNCHANGED pc
     ELSE pc' = [pc EXCEPT ![p] = "launch"] /\ UNCHANGED forks
  /\ UNCHANGED <<shape, from, to, tasks, got, data, ctxs, out>>

Launch(p) ==
  /\ pc[p] = "launch"
  /\ \E policy \in Policies :
       tasks' = [tasks EXCEPT ![p] =
                   Append(@, [from |-> from[p], to |-> to[p], status |-> policy])]
  /\ from' = [from EXCEPT ![p] = NextFrom(p)]
  /\ to' = [to EXCEPT ![p] = NextTo(p)]
  /\ pc' = [pc EXCEPT ![p] = IF Len(tasks[p]) + 1 = NumTiles THEN "get" ELSE "launch"]
  /\ UNCHANGED <<shape, forks, got, data, ctxs, out>>

(* A thread begins a task: it slices data, which must exist.  When it does *)
(* not, the task goes on with what it reads there, throws or crashes.      *)
Begin(p, i) ==
  /\ i \in DOMAIN tasks[p] /\ tasks[p][i].status = "queued"
  /\ pc[p] # "crashed"
  /\ \/ tasks' = [tasks EXCEPT ![p][i].status = "working"] /\ UNCHANGED pc
     \/ /\ ~data[p]
        /\ \/ tasks' = [tasks EXCEPT ![p][i].status = "threw"] /\ UNCHANGED pc
           \/ pc' = [pc EXCEPT ![p] = "crashed"] /\ UNCHANGED tasks
  /\ UNCHANGED <<shape, forks, from, to, got, data, ctxs, out>>

(* The kernel of a tile exchanges messages with the same tile's kernel at  *)
(* every other party.                                                      *)
Met(q, i) == i \in DOMAIN tasks[q] /\ tasks[q][i].status \in {"working", "done", "threw"}

Finish(p, i) ==
  /\ i \in DOMAIN tasks[p] /\ tasks[p][i].status = "working"
  /\ pc[p] # "crashed"
  /\ \A q \in Parties : Met(q, i)
  /\ tasks' = [tasks EXCEPT ![p][i].status = "done"]
  /\ UNCHANGED <<shape, pc, forks, from, to, got, data, ctxs, out>>

(* Mutant: links without a timeout.                                        *)
ThrowUntimed(p, i) ==
  /\ i \in DOMAIN tasks[p] /\ tasks[p][i].status = "working"
  /\ pc[p] # "crashed"
  /\ p \in Faulty
  /\ tasks' = [tasks EXCEPT ![p][i].status = "threw"]
  /\ UNCHANGED <<shape, pc, forks, from, to, got, data, ctxs, out>>

(* A peer will not run tile i any more: it has left tiled, or is leaving   *)
(* it and has deferred the tile.                                           *)
PeerGone(i) ==
  \E q \in Parties :
    /\ ~Met(q, i)
    /\ \/ pc[q] \in {"threw", "crashed"}
       \/ pc[q] = "unwind" /\ tasks[q][i].status = "deferred"

(* A kernel throws, or its link times out.                                 *)
Throw(p, i) ==
  /\ i \in DOMAIN tasks[p] /\ tasks[p][i].status = "working"
  /\ pc[p] # "crashed"
  /\ p \in Faulty \/ PeerGone(i)
  /\ tasks' = [tasks EXCEPT ![p][i].status = "threw"]
  /\ UNCHANGED <<shape, pc, forks, from, to, got, data, ctxs, out>>

----------------------------------------------------------------------------
(* futures[i].get() begins a deferred task in the calling thread ...       *)
GetDeferred(p) ==
  /\ pc[p] = "get" /\ got[p] < Len(tasks[p])
  /\ tasks[p][got[p] + 1].status = "deferred"
  /\ tasks' = [tasks EXCEPT ![p][got[p] + 1].status = "working"]
  /\ UNCHANGED <<shape, pc, forks, from, to, got, data, ctxs, out>>

(* ... takes the result of one that is done ...                            *)
GetResult(p) ==
  /\ pc[p] = "get" /\ got[p] < Len(tasks[p])
  /\ tasks[p][got[p] + 1].status = "done"
  /\ got' = [got EXCEPT ![p] = @ + 1]
  /\ UNCHANGED <<shape, pc, forks, from, to, tasks, data, ctxs, out>>

(* ... or rethrows.  The locals are destroyed, the last one first: data    *)
(* before the futures, the futures before the contexts.                    *)
Rethrow(p) ==
  /\ pc[p] = "get" /\ got[p] < Len(tasks[p])
  /\ tasks[p][got[p] + 1].status = "threw"
  /\ data' = [data EXCEPT ![p] = FALSE]
  /\ pc' = [pc EXCEPT ![p] = "unwind"]
  /\ UNCHANGED <<shape, forks, from, to, tasks, got, ctxs, out>>

(* Mutant: the futures of the tasks that are left are detached.            *)
JoinNothing(p) ==
  /\ pc[p] = "unwind"
  /\ ctxs' = [ctxs EXCEPT ![p] = FALSE]
  /\ pc' = [pc EXCEPT ![p] = "threw"]
  /\ UNCHANGED <<shape, forks, from, to, tasks, got, data, out>>

(* The destructor of the last future of a std::async waits for its task; a *)
(* deferred task is never run.                                             *)
Join(p) ==
  /\ pc[p] = "unwind"
  /\ \A i \in DOMAIN tasks[p] : tasks[p][i].status \notin {"queued", "working"}
  /\ ctxs' = [ctxs EXCEPT ![p] = FALSE]
  /\ pc' = [pc EXCEPT ![p] = "threw"]
  /\ UNCHANGED <<shape, forks, from, to, tasks, got, data, out>>

(* The results are copied one after the other into the output.             *)
Return(p) ==
  /\ pc[p] = "get" /\ got[p] = Len(tasks[p])
  /\ out' = [out EXCEPT ![p] =
               FlattenSeq([i \in DOMAIN tasks[p] |-> Elements(tasks[p][i].from, tasks[p][i].to)])]
  /\ data' = [data EXCEPT ![p] = FALSE]
  /\ ctxs' = [ctxs EXCEPT ![p] = FALSE]
  /\ pc' = [pc EXCEPT ![p] = "returned"]
  /\ UNCHANGED <<shape, forks, from, to, tasks, got>>

CallerStep(p) ==
  Whole(p) \/ Fork(p) \/ Launch(p) \/ GetDeferred(p) \/ GetResult(p) \/ Rethrow(p)
    \/ Join(p) \/ Return(p)

Kernel(p, i) == Begin(p, i) \/ Finish(p, i) \/ Throw(p, i)

Next == \E p \in Parties : CallerStep(p) \/ \E i \in 1 .. Len(tasks[p]) : Kernel(p, i)

Spec == Init /\ [][Next]_vars

(* Threads run; a link times out when its other end is gone, but a kernel  *)
(* that may throw need not.                                                *)
MaxTiles == Max({Product(s, 1, Len(s)) : s \in Shapes})
Fairness ==
  /\ \A p \in Parties : WF_vars(CallerStep(p))
  /\ \A p \in Parties, i \in 1 .. MaxTiles :
       WF_vars(Begin(p, i) \/ Finish(p, i) \/ (Throw(p, i) /\ PeerGone(i)))

----------------------------------------------------------------------------
(* Every tile lies within the array, as NdArrayRef::slice enforces, and is *)
(* not larger than a block.                                                *)
TilesFit ==
  \A p \in Parties : \A i \in DOMAIN tasks[p] :
    LET t == tasks[p][i] IN
    /\ \A d \in 1 .. Rank : 0 <= t.from[d] /\ t.from[d] < t.to[d] /\ t.to[d] <= shape[d]
    /\ Product([d \in 1 .. Rank |-> t.to[d] - t.from[d]], 1, Rank) <= BlockSize

Statuses == {"queued", "deferred", "working", "done", "threw"}
Index == [1 .. Rank -> Nat]

(* The state is well typed and the tiles fit.                              *)
TypeOK ==
  /\ shape \in Shapes
  /\ pc \in [Parties -> {"fork", "launch", "get", "unwind", "returned", "threw", "crashed"}]
  /\ forks \in [Parties -> Nat] /\ got \in [Parties -> Nat]
  /\ \A p \in Parties :
       /\ from[p] \in Index /\ to[p] \in Index
       /\ \A i \in DOMAIN tasks[p] :
            /\ tasks[p][i].from \in Index /\ tasks[p][i].to \in Index
            /\ tasks[p][i].status \in Statuses
       /\ \A i \in DOMAIN out[p] : out[p][i] \in Nat
  /\ data \in [Parties -> BOOLEAN] /\ ctxs \in [Parties -> BOOLEAN]
  /\ TilesFit

(* The results of the tiles, in the order of their launch, are the result  *)
(* of the whole array: every element once, and at its place.               *)
Assembled ==
  \A p \in Parties : pc[p] = "returned" => out[p] = [i \in 1 .. Numel |-> i - 1]

(* No task uses its context after the context is destroyed, however the    *)
(* kernels of other tiles end.                                             *)
ContextsOutlive ==
  \A p \in Parties : \A i \in DOMAIN tasks[p] :
    tasks[p][i].status \in {"queued", "working"} => ctxs[p]

(***************************************************************************)
(* The inductive invariant.                                                *)
(***************************************************************************)
Inner == Product(shape, SlicingDim + 1, Rank)
Outer == Product(shape, 1, SlicingDim - 1)
Column(lo) == lo[SlicingDim] \div SliceStride

(* A tile of a large array: one index of each outer dimension, a stride of *)
(* the slicing dimension or what is left of it, and all of the inner ones. *)
IsTile(lo, hi) ==
  /\ lo \in Index /\ hi \in Index
  /\ \A d \in 1 .. SlicingDim - 1 : lo[d] < shape[d] /\ hi[d] = lo[d] + 1
  /\ lo[SlicingDim] = Column(lo) * SliceStride /\ lo[SlicingDim] < shape[SlicingDim]
  /\ hi[SlicingDim] = Min({lo[SlicingDim] + SliceStride, shape[SlicingDim]})
  /\ \A d \in SlicingDim + 1 .. Rank : lo[d] = 0 /\ hi[d] = shape[d]

(* The places of a tile's first element and of the element after its last. *)
Start(lo) == Place(lo, SlicingDim) * Inner
Stop(lo, hi) == Start(lo) + (hi[SlicingDim] - lo[SlicingDim]) * Inner

(* Where the tile after the first i begins.                                *)
Reached(p, i) == IF i = 0 THEN 0 ELSE Stop(tasks[p][i].from, tasks[p][i].to)

(* The tiles of a large array follow each other without a gap ...          *)
TilesFollow(p) ==
  \A i \in DOMAIN tasks[p] :
    /\ IsTile(tasks[p][i].from, tasks[p][i].to)
    /\ Start(tasks[p][i].from) = Reached(p, i - 1)

(* ... the next one, too; the last one ends where the array does.          *)
TilesInOrder(p) ==
  /\ TilesFollow(p)
  /\ pc[p] = "fork" => tasks[p] = <<>> /\ from[p] = FirstFrom /\ to[p] = FirstTo
  /\ pc[p] = "launch" =>
       /\ IsTile(from[p], to[p]) /\ Start(from[p]) = Reached(p, Len(tasks[p]))
       /\ Len(tasks[p]) = Place(from[p], SlicingDim - 1) * NumSliceDim + Column(from[p])
       /\ Len(tasks[p]) < NumTiles
  /\ pc[p] = "get" => Len(tasks[p]) = NumTiles /\ Reached(p, Len(tasks[p])) = Numel

(* A small array is one tile.                                              *)
OneTile(p) ==
  /\ pc[p] # "launch" /\ from[p] = FirstFrom /\ to[p] = shape
  /\ \A i \in DOMAIN tasks[p] : tasks[p][i].from = FirstFrom /\ tasks[p][i].to = shape
  /\ pc[p] = "fork" => tasks[p] = <<>>
  /\ pc[p] = "get" => Len(tasks[p]) = 1

(* The contexts go when no task can use them; a task that reads the local  *)
(* array after its end, and may crash, is one that is waited for.          *)
ContextsHeld(p) ==
  /\ pc[p] \notin {"returned", "threw"} => ctxs[p]
  /\ pc[p] \in {"fork", "launch", "get"} => data[p]
  /\ got[p] <= Len(tasks[p]) /\ \A i \in 1 .. got[p] : tasks[p][i].status = "done"
  /\ pc[p] \in {"returned", "threw"} =>
       \A i \in DOMAIN tasks[p] : tasks[p][i].status \notin {"queued", "working"}

StateTyped ==
  /\ shape \in Shapes
  /\ pc \in [Parties -> {"fork", "launch", "get", "unwind", "returned", "threw", "crashed"}]
  /\ forks \in [Parties -> Nat] /\ got \in [Parties -> Nat]
  /\ from \in [Parties -> Index] /\ to \in [Parties -> Index]
  /\ tasks \in [Parties -> Seq([from : Index, to : Index, status : Statuses])]
  /\ data \in [Parties -> BOOLEAN] /\ ctxs \in [Parties -> BOOLEAN]
  /\ out \in [Parties -> Seq(Nat)]

IInv ==
  /\ StateTyped /\ Assembled
  /\ \A p \in Parties :
       /\ IF Numel > BlockSize THEN TilesInOrder(p) ELSE OneTile(p)
       /\ ContextsHeld(p)

(* Every party's call ends, whatever mixture of threads and deferred tasks *)
(* each party runs the tiles in.                                           *)
Settles == \A p \in Parties : <>(pc[p] \in {"returned", "threw", "crashed"})
=============================================================================
