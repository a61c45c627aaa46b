------------------------------ MODULE OtDispatch ---------------------------
(***************************************************************************)
(* TiledDispatchOTFunc (mpc/cheetah/state.cc): the kernels that use        *)
(* oblivious transfer cut their input into slices and run each slice in a  *)
(* std::async task on an OT instance of its own, the last one in the       *)
(* calling thread.  An instance is set up when it is first needed, with    *)
(* the peer, on a link that both parties spawn.                            *)
(***************************************************************************)
EXTENDS Integers, SequencesExt

CONSTANTS
  Parties,
  Cores,          \* Cores[p]: threads that p's machine and configuration allow
  MaxOTParallel,  \* kMaxOTParallel
  MinWorkSize,    \* kMinWorkSize
  Programs,       \* the sequences of input sizes that may be dispatched
  Policies,       \* what std::async may do: {"queued"}, {"deferred"} or both
  Faulty          \* parties whose kernels may throw

ASSUME SizesAssumption ==
  /\ MaxOTParallel \in Nat \ {0} /\ MinWorkSize \in Nat \ {0}
  /\ Cores \in [Parties -> Nat \ {0}]
ASSUME MinWorkAssumption == MaxOTParallel <= MinWorkSize + 1
ASSUME PoliciesAssumption == Policies \subseteq {"queued", "deferred"}
(* The dispatch enforces that its input is not empty.                      *)
ASSUME ProgramsAssumption == \A sizes \in Programs : sizes \in Seq(Nat \ {0}) /\ sizes # <<>>

VARIABLES
  program,    \* the input sizes, one for each call
  call,       \* call[p]: the call that p is in
  pc,         \* pc[p]: where the calling thread of p is
  instances,  \* instances[p]: links of the OT instances set up, in their order
  spawned,    \* spawned[p]: links p has spawned
  tasks,      \* tasks[p]: the slices launched in this call, with their status
  got,        \* got[p]: futures whose result p has taken
  used,       \* used[p][l]: the kernels begun on link l: <<call, slice>>
  out         \* out[p]: elements whose results the output holds, in order

vars == <<program, call, pc, instances, spawned, tasks, got, used, out>>

CeilDiv(a, b) == (a + b - 1) \div b

(* Mutant: each party goes by its own number of cores.                     *)
MaximumInstancesOwn(p) == Min({MaxOTParallel, Cores[p]})

(* The least number of cores, which the context's constructor gathers.     *)
MaximumInstances(p) == Min({MaxOTParallel} \cup {Cores[q] : q \in Parties})

Numel(p) == program[call[p]]

(* Mutant: a worker for every element, however little work it has.         *)
NumWorkersAll(p) == Min({MaximumInstances(p), Numel(p)})

NumWorkers(p) == Min({MaximumInstances(p), CeilDiv(Numel(p), MinWorkSize)})

Workload(p) == CeilDiv(Numel(p), NumWorkers(p))

SliceEnd(p, w) == Min({Numel(p), w * Workload(p)})

(* Mutant: the calling thread's slice starts after its own workload.       *)
SliceLate(p, w) ==
  IF w < NumWorkers(p) THEN [from |-> (w - 1) * Workload(p), to |-> SliceEnd(p, w)]
  ELSE [from |-> SliceEnd(p, w), to |-> Numel(p)]

(* The elements of slice w.                                                *)
Slice(p, w) ==
  IF w < NumWorkers(p) THEN [from |-> (w - 1) * Workload(p), to |-> SliceEnd(p, w)]
  ELSE [from |-> SliceEnd(p, w - 1), to |-> Numel(p)]

(* Mutant: the calling thread uses the first instance.                     *)
InstanceFirst(p, w) == IF w < NumWorkers(p) THEN w ELSE 1

Instance(p, w) == w

MaxSlices == Min({MaxOTParallel} \cup {Cores[q] : q \in Parties})

Init ==
  /\ program \in Programs
  /\ call = [p \in Parties |-> 1]
  /\ pc = [p \in Parties |-> "init"]
  /\ instances = [p \in Parties |-> <<>>]
  /\ spawned = [p \in Parties |-> 0]
  /\ tasks = [p \in Parties |-> <<>>]
  /\ got = [p \in Parties |-> 0]
  /\ used = [p \in Parties |-> [l \in 1 .. MaxOTParallel |-> <<>>]]
  /\ out = [p \in Parties |-> <<>>]

----------------------------------------------------------------------------
(* Setting up an instance exchanges messages on its new link: it is done   *)
(* when the peer has spawned that link too.                                *)
SetUp(p) == \A q \in Parties : spawned[q] >= spawned[p]

(* The instances that the call needs and that are not there yet.           *)
LazyInit(p) ==
  /\ pc[p] = "init" /\ SetUp(p)
  /\ IF Len(instances[p]) < NumWorkers(p)
     THEN /\ spawned' = [spawned EXCEPT ![p] = @ + 1]
          /\ instances' = [instances EXCEPT ![p] = Append(@, spawned[p] + 1)]
          /\ UNCHANGED <<pc, tasks, got>>
     ELSE /\ pc' = [pc EXCEPT ![p] = "launch"]
          /\ tasks' = [tasks EXCEPT ![p] = <<>>]
          /\ got' = [got EXCEPT ![p] = 0]
          /\ UNCHANGED <<spawned, instances>>
  /\ UNCHANGED <<program, call, used, out>>

Link(p, w) == instances[p][Instance(p, w)]

NewTask(p, w, status) ==
  [slice |-> Slice(p, w), status |-> status, turn |-> Len(used[p][Link(p, w)]) + 1]

NoteUse(p, w) ==
  used' = [used EXCEPT ![p][Link(p, w)] = Append(@, <<call[p], w>>)]

(* A slice is handed to std::async.                                        *)
Launch(p) ==
  /\ pc[p] = "launch" /\ Len(tasks[p]) + 1 < NumWorkers(p)
  /\ \E policy \in Policies :
       tasks' = [tasks EXCEPT ![p] = Append(@, NewTask(p, Len(@) + 1, policy))]
  /\ UNCHANGED <<program, call, pc, instances, spawned, got, used, out>>

(* The last slice is run by the calling thread.                            *)
RunLast(p) ==
  /\ pc[p] = "launch" /\ Len(tasks[p]) + 1 = NumWorkers(p)
  /\ tasks' = [tasks EXCEPT ![p] = Append(@, NewTask(p, Len(@) + 1, "working"))]
  /\ NoteUse(p, Len(tasks[p]) + 1)
  /\ pc' = [pc EXCEPT ![p] = "last"]
  /\ UNCHANGED <<program, call, instances, spawned, got, out>>

Begin(p, w) ==
  /\ w \in DOMAIN tasks[p] /\ tasks[p][w].status = "queued"
  /\ tasks' = [tasks EXCEPT ![p][w] = NewTask(p, w, "working")]
  /\ NoteUse(p, w)
  /\ UNCHANGED <<program, call, pc, instances, spawned, got, out>>

(* The kernel exchanges messages with the kernel that the peer runs on the *)
(* same link.                                                              *)
Met(q, p, w) == Len(used[q][Link(p, w)]) >= tasks[p][w].turn

Finish(p, w) ==
  /\ w \in DOMAIN tasks[p] /\ tasks[p][w].status = "working"
  /\ \A q \in Parties : Met(q, p, w)
  /\ tasks' = [tasks EXCEPT ![p][w].status = "done"]
  /\ UNCHANGED <<program, call, pc, instances, spawned, got, used, out>>

(* The peer will not run the slice any more: it is gone, or is leaving the *)
(* call and has deferred the slice.                                        *)
PeerGone(p, w) ==
  \E q \in Parties :
    /\ ~Met(q, p, w)
    /\ \/ pc[q] = "threw"
       \/ pc[q] = "unwind" /\ call[q] = call[p] /\ tasks[q][w].status = "deferred"

(* A kernel throws, or its link times out.                                 *)
Throw(p, w) ==
  /\ w \in DOMAIN tasks[p] /\ tasks[p][w].status = "working"
  /\ p \in Faulty \/ PeerGone(p, w)
  /\ tasks' = [tasks EXCEPT ![p][w].status = "threw"]
  /\ UNCHANGED <<program, call, pc, instances, spawned, got, used, out>>

(* Setting up an instance times out when the peer is gone.                 *)
InitThrow(p) ==
  /\ pc[p] = "init" /\ \E q \in Parties : pc[q] = "threw" /\ spawned[q] < spawned[p]
  /\ pc' = [pc EXCEPT ![p] = "threw"]
  /\ UNCHANGED <<program, call, instances, spawned, tasks, got, used, out>>

----------------------------------------------------------------------------
(* The calling thread is done with the last slice.                         *)
LastDone(p) ==
  /\ pc[p] = "last" /\ tasks[p][NumWorkers(p)].status \in {"done", "threw"}
  /\ pc' = [pc EXCEPT ![p] =
              IF tasks[p][NumWorkers(p)].status = "done" THEN "get" ELSE "unwind"]
  /\ UNCHANGED <<program, call, instances, spawned, tasks, got, used, out>>

(* f.get() begins a deferred task in the calling thread ...                *)
GetDeferred(p) ==
  /\ pc[p] = "get" /\ got[p] + 1 < NumWorkers(p)
  /\ tasks[p][got[p] + 1].status = "deferred"
  /\ tasks' = [tasks EXCEPT ![p][got[p] + 1] = NewTask(p, got[p] + 1, "working")]
  /\ NoteUse(p, got[p] + 1)
  /\ UNCHANGED <<program, call, pc, instances, spawned, got, out>>

(* ... and returns when the task is done, or rethrows.                     *)
Get(p) ==
  /\ pc[p] = "get" /\ got[p] + 1 < NumWorkers(p)
  /\ \/ /\ tasks[p][got[p] + 1].status = "done"
        /\ got' = [got EXCEPT ![p] = @ + 1] /\ UNCHANGED pc
     \/ /\ tasks[p][got[p] + 1].status = "threw"
        /\ pc' = [pc EXCEPT ![p] = "unwind"] /\ UNCHANGED got
  /\ UNCHANGED <<program, call, instances, spawned, tasks, used, out>>

(* The destructor of the last future of a std::async waits for its task; a *)
(* deferred task is never run.                                             *)
Join(p) ==
  /\ pc[p] = "unwind"
  /\ \A w \in DOMAIN tasks[p] : tasks[p][w].status \notin {"queued", "working"}
  /\ pc' = [pc EXCEPT ![p] = "threw"]
  /\ UNCHANGED <<program, call, instances, spawned, tasks, got, used, out>>

SliceElements(s) == [i \in 1 .. s.to - s.from |-> s.from + i - 1]

(* The results are copied one after the other; the next call follows.      *)
Return(p) ==
  /\ pc[p] = "get" /\ got[p] + 1 = NumWorkers(p)
  /\ out' = [out EXCEPT ![p] =
               FlattenSeq([w \in DOMAIN tasks[p] |-> SliceElements(tasks[p][w].slice)])]
  /\ IF call[p] < Len(program)
     THEN call' = [call EXCEPT ![p] = @ + 1] /\ pc' = [pc EXCEPT ![p] = "init"]
     ELSE pc' = [pc EXCEPT ![p] = "returned"] /\ UNCHANGED call
  /\ UNCHANGED <<program, instances, spawned, tasks, got, used>>

CallerStep(p) ==
  LazyInit(p) \/ InitThrow(p) \/ Launch(p) \/ RunLast(p) \/ LastDone(p)
    \/ GetDeferred(p) \/ Get(p) \/ Join(p) \/ Return(p)

Kernel(p, w) == Begin(p, w) \/ Finish(p, w) \/ Throw(p, w)

Next == \E p \in Parties : CallerStep(p) \/ \E w \in 1 .. Len(tasks[p]) : Kernel(p, w)

Spec == Init /\ [][Next]_vars

(* Threads run; a link times out when its other end is gone, but a kernel  *)
(* that may throw need not.                                                *)
Fairness ==
  /\ \A p \in Parties : WF_vars(CallerStep(p))
  /\ \A p \in Parties, w \in 1 .. MaxSlices : 
       WF_vars(Begin(p, w) \/ Finish(p, w) \/ (Throw(p, w) /\ PeerGone(p, w)))

----------------------------------------------------------------------------
(* No kernel is given an empty slice.                                      *)
SlicesNonEmpty ==
  \A p \in Parties : \A w \in DOMAIN tasks[p] :
    tasks[p][w].slice.from < tasks[p][w].slice.to

(* The state is well typed and no slice is empty.                          *)
TypeOK ==
  /\ program \in Programs
  /\ \A p \in Parties :
       /\ call[p] \in 1 .. Len(program)
       /\ pc[p] \in {"init", "launch", "last", "get", "unwind", "returned", "threw"}
       /\ \A i \in DOMAIN instances[p] : instances[p][i] \in 1 .. MaxSlices
       /\ spawned[p] = Len(instances[p])
       /\ got[p] \in 0 .. MaxOTParallel
       /\ \A w \in DOMAIN tasks[p] :
            /\ tasks[p][w].slice \in [from : Nat, to : Nat]
            /\ tasks[p][w].status \in {"queued", "deferred", "working", "done", "threw"}
  /\ SlicesNonEmpty

(* The output of a call is the results of all the input's elements, each   *)
(* at its place.                                                           *)
OutputComplete ==
  \A p \in Parties :
    pc[p] = "returned" => out[p] = [i \in 1 .. Numel(p) |-> i - 1]

(* A call cuts its input well: every kernel has some of it, the last one   *)
(* too, although workloads are rounded up and could leave nothing for it   *)
(* or begin its slice beyond the end; and the outputs joined are the       *)
(* results of the whole input.                                             *)
Assembled == SlicesNonEmpty /\ OutputComplete

(* On every link the two parties run the kernels of the same slices, in    *)
(* the same order, although the tasks of a party run in any order and the  *)
(* parties' machines differ.                                               *)
LinksConsistent ==
  \A p, q \in Parties : \A l \in 1 .. MaxOTParallel :
    \A i \in 1 .. Min({Len(used[p][l]), Len(used[q][l])}) : used[p][l][i] = used[q][l][i]

(* An OT instance is never in the hands of two kernels at once, not even   *)
(* of one that is left over from the call before.                          *)
InstanceExclusive ==
  \A p \in Parties : \A w \in DOMAIN tasks[p] :
    tasks[p][w].status = "working" => tasks[p][w].turn = Len(used[p][Link(p, w)])

TaskSet ==
  [slice : [from : Nat, to : Nat], turn : Nat,
   status : {"queued", "deferred", "working", "done", "threw"}]

(* The inductive invariant.  The state is well typed, and an instance has  *)
(* the link that its place says.                                           *)
StateTyped ==
  /\ program \in Programs
  /\ call \in [Parties -> Nat] /\ \A p \in Parties : call[p] \in 1 .. Len(program)
  /\ pc \in [Parties ->
            {"init", "launch", "last", "get", "unwind", "returned", "threw"}]
  /\ instances \in [Parties -> Seq(Nat)] /\ spawned \in [Parties -> Nat]
  /\ tasks \in [Parties -> Seq(TaskSet)]
  /\ got \in [Parties -> 0 .. MaxOTParallel]
  /\ used \in [Parties -> [1 .. MaxOTParallel -> Seq(Nat \X Nat)]]
  /\ out = [p \in Parties |-> out[p]]

InstancesInOrder(p) ==
  /\ spawned[p] = Len(instances[p]) /\ spawned[p] <= MaxSlices
  /\ \A i \in 1 .. Len(instances[p]) : instances[p][i] = i

(* The workers of call k, of either party.                                 *)
WorkersOf(k) == Min({MaxSlices, CeilDiv(program[k], MinWorkSize)})

(* The tasks are those of the call the party is in, as far as it has got.  *)
TasksOfCall(p) ==
  LET n == WorkersOf(call[p])
      s(w) == tasks[p][w].status
  IN /\ Len(tasks[p]) <= Len(instances[p])
     /\ \A w \in 1 .. Len(tasks[p]) : tasks[p][w].slice.from < tasks[p][w].slice.to
     /\ pc[p] \in {"launch", "last", "get", "unwind"} =>
          /\ n <= Len(instances[p]) /\ Len(tasks[p]) <= n
          /\ \A w \in 1 .. Len(tasks[p]) : tasks[p][w].slice = Slice(p, w)
     /\ pc[p] = "launch" => Len(tasks[p]) < n
     /\ pc[p] \in {"last", "get", "unwind"} => Len(tasks[p]) = n
     /\ pc[p] \in {"launch", "last"} => got[p] = 0
     /\ pc[p] = "get" => /\ got[p] < n /\ s(n) = "done"
                         /\ \A w \in 1 .. got[p] : s(w) = "done"
     /\ pc[p] \in {"init", "returned"} => \A w \in 1 .. Len(tasks[p]) : s(w) = "done"
     /\ pc[p] = "threw" =>
          \A w \in 1 .. Len(tasks[p]) : s(w) \notin {"queued", "working"}

Begun(p, w) == tasks[p][w].status \in {"working", "done", "threw"}

Calls(p, l) == {used[p][l][i][1] : i \in 1 .. Len(used[p][l])}

(* A link has seen one kernel of each call that has so many workers, in    *)
(* the order of the calls; of the call the party is in, if it has begun.   *)
UsesOfCalls ==
  \A p \in Parties : \A l \in 1 .. MaxOTParallel :
    LET u == used[p][l] IN
    /\ \A i \in 1 .. Len(u) :
         u[i][2] = l /\ u[i][1] \in 1 .. call[p] /\ l <= WorkersOf(u[i][1])
    /\ \A i, j \in 1 .. Len(u) : i < j => u[i][1] < u[j][1]
    /\ \A k \in 1 .. call[p] - 1 : l <= WorkersOf(k) => k \in Calls(p, l)

UsesOfThisCall(p) ==
  \A l \in 1 .. MaxOTParallel :
    /\ call[p] \in Calls(p, l) => pc[p] # "init" /\ l <= Len(tasks[p]) /\ Begun(p, l)
    /\ pc[p] \in {"launch", "last", "get", "unwind"} /\ l <= Len(tasks[p]) /\ Begun(p, l)
         => call[p] \in Calls(p, l)

IInv ==
  /\ StateTyped
  /\ \A p \in Parties : InstancesInOrder(p) /\ TasksOfCall(p) /\ UsesOfThisCall(p)
  /\ UsesOfCalls
  /\ LinksConsistent /\ InstanceExclusive /\ OutputComplete

(* The calls of each party end.                                            *)
Settles == \A p \in Parties : <>(pc[p] \in {"returned", "threw"})
=============================================================================
