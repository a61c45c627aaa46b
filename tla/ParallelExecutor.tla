-------------------------- MODULE ParallelExecutor -------------------------
(***************************************************************************)
(* BlockParallelRunner and OpExecTask (device/executor.cc): each party     *)
(* queues one task per operation, in program order, and starts a pool of   *)
(* threads that pop tasks and run them.  A task sleeps on a condition      *)
(* variable until the values it needs are in the symbol scope; values are  *)
(* added under the scope's own lock, not under the event's mutex.          *)
(*                                                                         *)
(* All parties run the same block.  The kernel of an operation in Comm     *)
(* exchanges messages with the same operation's kernel at every peer, on a *)
(* channel of its own (each task has a forked context), so it cannot       *)
(* complete before every peer has begun it.  Forking a context gathers the *)
(* core counts of all parties on the new link, so it too waits for peers.  *)
(***************************************************************************)
EXTENDS Program, Sequences

CONSTANTS
  Parties,   \* the parties of the computation
  Threads,   \* the threads of a party's pool, opts.concurrency of them
  NoThread   \* the holder of a free mutex

(* experimental_inter_op_concurrency is 8 unless it is set to a positive   *)
(* number (populateRuntimeConfig).                                         *)
ASSUME ConcurrencyAssumption ==
  IsFiniteSet(Threads) /\ Threads # {} /\ NoThread \notin Threads

NoTask == 0

VARIABLES
  linked,   \* linked[p]: number of links spawned so far by the main thread
  built,    \* built[p]: number of tasks queued so far by the main thread
  queue,    \* queue[p]: task_queue_, operations not popped yet
  pc,       \* pc[p][t]: what the thread is doing
  task,     \* task[p][t]: the operation whose task the thread holds
  mutex,    \* mutex[p]: the thread that holds st_event.mutex
  scope,    \* scope[p]: values in the symbol scope
  started,  \* started[p]: operations whose kernel has begun
  outcome   \* outcome[p]: what has become of the run of the block

vars == <<linked, built, queue, pc, task, mutex, scope, started, outcome>>

PCs == {"unborn", "top", "lock", "test", "sleep", "asleep",
        "call", "kernel", "store", "exit"}

Init ==
  /\ linked = [p \in Parties |-> 0]
  /\ built = [p \in Parties |-> 0]
  /\ queue = [p \in Parties |-> <<>>]
  /\ pc = [p \in Parties |-> [t \in Threads |-> "unborn"]]
  /\ task = [p \in Parties |-> [t \in Threads |-> NoTask]]
  /\ mutex = [p \in Parties |-> NoThread]
  /\ scope = [p \in Parties |-> Params]
  /\ started = [p \in Parties |-> {}]
  /\ outcome = [p \in Parties |-> "running"]

Goto(p, t, l) == pc' = [pc EXCEPT ![p][t] = l]

At(p, t, l) == outcome[p] = "running" /\ pc[p][t] = l

----------------------------------------------------------------------------
(* The main thread.                                                        *)

(* fork(): a new link, on which the party sends its number of cores ...    *)
SpawnLink(p) ==
  /\ outcome[p] = "running"
  /\ linked[p] = built[p] /\ built[p] < NumOps
  /\ linked' = [linked EXCEPT ![p] = @ + 1]
  /\ UNCHANGED <<built, queue, pc, task, mutex, scope, started, outcome>>

(* Mutant: a stack of tasks in the place of the queue.                     *)
QueueTaskInFront(p) ==
  /\ outcome[p] = "running"
  /\ linked[p] = built[p] + 1
  /\ \A q \in Parties : linked[p] <= linked[q]
  /\ built' = [built EXCEPT ![p] = @ + 1]
  /\ queue' = [queue EXCEPT ![p] = <<built[p] + 1>> \o @]
  /\ UNCHANGED <<linked, pc, task, mutex, scope, started, outcome>>

(* ... and waits for every peer's; then the task is queued.                *)
QueueTask(p) ==
  /\ outcome[p] = "running"
  /\ linked[p] = built[p] + 1
  /\ \A q \in Parties : linked[p] <= linked[q]
  /\ built' = [built EXCEPT ![p] = @ + 1]
  /\ queue' = [queue EXCEPT ![p] = Append(@, built[p] + 1)]
  /\ UNCHANGED <<linked, pc, task, mutex, scope, started, outcome>>

StartThread(p, t) ==
  /\ At(p, t, "unborn")
  /\ built[p] = NumOps
  /\ Goto(p, t, "top")
  /\ UNCHANGED <<linked, built, queue, task, mutex, scope, started, outcome>>

(* All threads joined: the terminator's operands are looked up.            *)
Return(p) ==
  /\ outcome[p] = "running"
  /\ built[p] = NumOps
  /\ \A t \in Threads : pc[p][t] = "exit"
  /\ outcome' = [outcome EXCEPT ![p] =
                   IF Returned \subseteq scope[p] THEN "returned" ELSE "terminated"]
  /\ UNCHANGED <<linked, built, queue, pc, task, mutex, scope, started>>

----------------------------------------------------------------------------
(* run_task: pop under queue_mtx_, run outside it.                         *)

(* Mutant: never waits.                                                    *)
TakeTaskUnready(p, t) ==
  /\ At(p, t, "top")
  /\ queue[p] # <<>>
  /\ task' = [task EXCEPT ![p][t] = Head(queue[p])]
  /\ queue' = [queue EXCEPT ![p] = Tail(@)]
  /\ Goto(p, t, "call")
  /\ UNCHANGED <<linked, built, mutex, scope, started, outcome>>

(* Mutant: a pool that takes its tasks in no order.                        *)
TakeTaskUnordered(p, t) ==
  /\ At(p, t, "top")
  /\ \E i \in DOMAIN queue[p] :
       /\ task' = [task EXCEPT ![p][t] = queue[p][i]]
       /\ queue' = [queue EXCEPT ![p] =
                      SubSeq(@, 1, i - 1) \o SubSeq(@, i + 1, Len(@))]
       /\ Goto(p, t, IF Operands[queue[p][i]] # {} THEN "lock" ELSE "call")
  /\ UNCHANGED <<linked, built, mutex, scope, started, outcome>>

TakeTask(p, t) ==
  /\ At(p, t, "top")
  /\ queue[p] # <<>>
  /\ task' = [task EXCEPT ![p][t] = Head(queue[p])]
  /\ queue' = [queue EXCEPT ![p] = Tail(@)]
  /\ Goto(p, t, IF Operands[Head(queue[p])] # {} THEN "lock" ELSE "call")
  /\ UNCHANGED <<linked, built, mutex, scope, started, outcome>>

Exit(p, t) ==
  /\ At(p, t, "top")
  /\ queue[p] = <<>>
  /\ Goto(p, t, "exit")
  /\ UNCHANGED <<linked, built, queue, task, mutex, scope, started, outcome>>

----------------------------------------------------------------------------
(* OpExecTask::run: wait until ready, run the kernel, notify.              *)

Ready(p, o) == Operands[o] \cup ExtraDependencies(o) \subseteq scope[p]

LockEvent(p, t) ==
  /\ At(p, t, "lock")
  /\ mutex[p] = NoThread
  /\ mutex' = [mutex EXCEPT ![p] = t]
  /\ Goto(p, t, "test")
  /\ UNCHANGED <<linked, built, queue, task, scope, started, outcome>>

TestReady(p, t) ==
  /\ At(p, t, "test")
  /\ \/ /\ Ready(p, task[p][t])
        /\ mutex' = [mutex EXCEPT ![p] = NoThread]
        /\ Goto(p, t, "call")
     \/ /\ ~Ready(p, task[p][t])
        /\ Goto(p, t, "sleep")
        /\ UNCHANGED mutex
  /\ UNCHANGED <<linked, built, queue, task, scope, started, outcome>>

(* cv.wait releases the mutex and blocks in one step.                      *)
Sleep(p, t) ==
  /\ At(p, t, "sleep")
  /\ mutex' = [mutex EXCEPT ![p] = NoThread]
  /\ Goto(p, t, "asleep")
  /\ UNCHANGED <<linked, built, queue, task, scope, started, outcome>>

(* A condition variable may wake a thread that nobody notified.            *)
SpuriousWake(p, t) ==
  /\ At(p, t, "asleep")
  /\ Goto(p, t, "lock")
  /\ UNCHANGED <<linked, built, queue, task, mutex, scope, started, outcome>>

(* The kernel looks its inputs up; a value that is not there throws, and   *)
(* an exception that leaves a thread terminates the process.  Otherwise it *)
(* sends its messages.                                                     *)
Call(p, t) ==
  /\ At(p, t, "call")
  /\ \/ /\ Reads(task[p][t]) \subseteq scope[p]
        /\ started' = [started EXCEPT ![p] = @ \cup {task[p][t]}]
        /\ Goto(p, t, "kernel")
        /\ UNCHANGED outcome
     \/ /\ ~(Reads(task[p][t]) \subseteq scope[p])
        /\ outcome' = [outcome EXCEPT ![p] = "terminated"]
        /\ UNCHANGED <<started, pc>>
  /\ UNCHANGED <<linked, built, queue, task, mutex, scope>>

(* Every peer's messages for operation o have been sent.                   *)
PeersStarted(o) == o \in Comm => \A q \in Parties : o \in started[q]

KernelDone(p, t) ==
  /\ At(p, t, "kernel")
  /\ PeersStarted(task[p][t])
  /\ Goto(p, t, "store")
  /\ scope' = [scope EXCEPT ![p] = @ \ Erased(task[p][t], TRUE)]
  /\ UNCHANGED <<linked, built, queue, task, mutex, started, outcome>>

(* Mutant: links without a timeout.                                        *)
KernelThrowUntimed(p, t) ==
  /\ At(p, t, "kernel")
  /\ task[p][t] \in MayThrow
  /\ outcome' = [outcome EXCEPT ![p] = "terminated"]
  /\ UNCHANGED <<linked, built, queue, pc, task, mutex, scope, started>>

(* A peer is lost before it has sent its messages for operation o.         *)
PeerGone(o) ==
  /\ o \in Comm
  /\ \E q \in Parties : outcome[q] = "terminated" /\ o \notin started[q]

(* The kernel throws, or waits on a link whose other end is gone.          *)
KernelThrow(p, t) ==
  /\ At(p, t, "kernel")
  /\ task[p][t] \in MayThrow \/ PeerGone(task[p][t])
  /\ outcome' = [outcome EXCEPT ![p] = "terminated"]
  /\ UNCHANGED <<linked, built, queue, pc, task, mutex, scope, started>>

(* addValue, one result at a time, under the scope's own lock.             *)
Store(p, t) ==
  /\ At(p, t, "store")
  /\ \E v \in Results[task[p][t]] \ scope[p] :
       scope' = [scope EXCEPT ![p] = @ \cup {v}]
  /\ UNCHANGED <<linked, built, queue, pc, task, mutex, started, outcome>>

(* Mutant: notifies without the mutex.                                     *)
NotifyUnlocked(p, t) ==
  /\ At(p, t, "store")
  /\ Results[task[p][t]] \subseteq scope[p]
  /\ pc' = [pc EXCEPT ![p] =
              [s \in Threads |-> IF s = t THEN "top"
                                 ELSE IF pc[p][s] = "asleep" THEN "lock"
                                 ELSE pc[p][s]]]
  /\ task' = [task EXCEPT ![p][t] = NoTask]
  /\ UNCHANGED <<linked, built, queue, mutex, scope, started, outcome>>

(* Mutant: stores its results and notifies nobody.                         *)
NotifyNobody(p, t) ==
  /\ At(p, t, "store")
  /\ Results[task[p][t]] \subseteq scope[p]
  /\ mutex[p] = NoThread
  /\ Goto(p, t, "top")
  /\ task' = [task EXCEPT ![p][t] = NoTask]
  /\ UNCHANGED <<linked, built, queue, mutex, scope, started, outcome>>

Notify(p, t) ==
  /\ At(p, t, "store")
  /\ Results[task[p][t]] \subseteq scope[p]
  /\ mutex[p] = NoThread
  /\ pc' = [pc EXCEPT ![p] =
              [s \in Threads |-> IF s = t THEN "top"
                                 ELSE IF pc[p][s] = "asleep" THEN "lock"
                                 ELSE pc[p][s]]]
  /\ task' = [task EXCEPT ![p][t] = NoTask]
  /\ UNCHANGED <<linked, built, queue, mutex, scope, started, outcome>>

----------------------------------------------------------------------------
ThreadStep(p, t) ==
  \/ TakeTask(p, t) \/ Exit(p, t)
  \/ LockEvent(p, t) \/ TestReady(p, t) \/ Sleep(p, t)
  \/ Call(p, t) \/ KernelDone(p, t) \/ Store(p, t) \/ Notify(p, t)

Next ==
  \E p \in Parties :
    \/ SpawnLink(p) \/ QueueTask(p) \/ Return(p)
    \/ \E t \in Threads : \/ StartThread(p, t) \/ ThreadStep(p, t)
                          \/ SpuriousWake(p, t) \/ KernelThrow(p, t)

Spec == Init /\ [][Next]_vars

(* Runnable threads are scheduled.  A mutex is not granted in any order,   *)
(* but a thread that asks for it again and again gets it.  A link times    *)
(* out when its other end is gone; a kernel that may throw need not.       *)
Fairness ==
  \A p \in Parties :
    /\ WF_vars(SpawnLink(p) \/ QueueTask(p)) /\ WF_vars(Return(p))
    /\ \A t \in Threads :
         /\ WF_vars(StartThread(p, t))
         /\ WF_vars(TakeTask(p, t) \/ Exit(p, t))
         /\ WF_vars(TestReady(p, t) \/ Sleep(p, t))
         /\ WF_vars(Call(p, t)) /\ WF_vars(Store(p, t))
         /\ WF_vars(\/ KernelDone(p, t)
                    \/ PeerGone(task[p][t]) /\ KernelThrow(p, t))
         /\ SF_vars(LockEvent(p, t)) /\ SF_vars(Notify(p, t))

----------------------------------------------------------------------------
(* Type correctness of the state.                                          *)
TypeOK ==
  /\ linked \in [Parties -> 0 .. NumOps]
  /\ built \in [Parties -> 0 .. NumOps]
  /\ queue \in [Parties -> Seq(Ops)]
  /\ pc \in [Parties -> [Threads -> PCs]]
  /\ task \in [Parties -> [Threads -> Ops \cup {NoTask}]]
  /\ mutex \in [Parties -> Threads \cup {NoThread}]
  /\ scope \in [Parties -> SUBSET Values]
  /\ started \in [Parties -> SUBSET Ops]
  /\ outcome \in [Parties -> {"running", "returned", "terminated"}]

(* SymbolScope::lookupValue never throws: whatever the interleaving, a     *)
(* kernel finds its operands and what its nested regions capture, for as   *)
(* long as it runs.                                                        *)
InputsPresent ==
  \A p \in Parties, t \in Threads :
    pc[p][t] \in {"call", "kernel"} => Reads(task[p][t]) \subseteq scope[p]

(* No wakeup is lost in OpExecTask::run: although values are added without *)
(* the event's mutex, a thread sleeps on a task that has become ready only *)
(* while another thread has yet to notify.                                 *)
NoLostWakeup ==
  \A p \in Parties, t \in Threads :
    pc[p][t] = "asleep" /\ Ready(p, task[p][t]) =>
      \E s \in Threads : pc[p][s] = "store"

(* The pool never sleeps as a whole (BlockParallelRunner::run_task pops in *)
(* program order): with one thread or with many, tasks that wait for       *)
(* values leave a thread to compute them.                                  *)
PoolAwake ==
  \A p \in Parties :
    (\E t \in Threads : pc[p][t] = "asleep") =>
      \E t \in Threads : pc[p][t] \notin {"asleep", "exit"}

(* A thread that can do nothing until another thread or a peer moves.      *)
Blocked(p, t) ==
  \/ pc[p][t] \in {"asleep", "exit"}
  \/ pc[p][t] = "kernel" /\ ~PeersStarted(task[p][t])

(* The parties never wait for one another in a circle: each schedules the  *)
(* operations in its own way, yet while no party is lost and some party    *)
(* runs its threads, somewhere a thread is not blocked (or all of a        *)
(* running party's have exited and it can return).                         *)
NoCrossWait ==
  (/\ \A p \in Parties : outcome[p] # "terminated" /\ built[p] = NumOps
   /\ \E p \in Parties : outcome[p] = "running") =>
    \E p \in Parties :
      /\ outcome[p] = "running"
      /\ \/ \E t \in Threads : ~Blocked(p, t)
         \/ \A t \in Threads : pc[p][t] = "exit"

(* The operations whose kernels are complete.                              *)
Evaluated(p) ==
  {o \in started[p] : \A t \in Threads : pc[p][t] = "kernel" => task[p][t] # o}

Block == INSTANCE BlockSpec
           WITH evaluated <- [p \in Parties |-> Evaluated(p)]

(* The parallel runner does what BlockSpec promises: every operation is    *)
(* evaluated at most once, on computed values, after the barriers before   *)
(* it, in agreement with the peers; a party returns when all is evaluated, *)
(* and is lost only when a kernel of its own or of a peer throws.          *)
ImplementsBlock == Block!Spec

----------------------------------------------------------------------------
(* The inductive invariant behind the properties above.                    *)

Holding == {"lock", "test", "sleep", "asleep", "call", "kernel", "store"}

Popped(p) == built[p] - Len(queue[p])

(* The queue is what has been built and not popped, in program order; the  *)
(* threads start when it is complete, and exit when it is empty.           *)
QueueInv ==
  \A p \in Parties :
    /\ Len(queue[p]) <= built[p]
    /\ \A i \in 1 .. Len(queue[p]) : queue[p][i] = Popped(p) + i
    /\ \A t \in Threads :
         /\ pc[p][t] # "unborn" => built[p] = NumOps
         /\ pc[p][t] = "exit" => queue[p] = <<>>

(* Threads hold tasks that were popped, each a different one.              *)
TaskInv ==
  \A p \in Parties, t \in Threads :
    /\ pc[p][t] \in Holding => task[p][t] \in 1 .. Popped(p)
    /\ pc[p][t] \notin Holding => task[p][t] = NoTask
    /\ \A s \in Threads :
         pc[p][s] \in Holding /\ task[p][s] = task[p][t] => s = t

MutexInv ==
  \A p \in Parties, t \in Threads :
    pc[p][t] \in {"test", "sleep"} <=> mutex[p] = t

(* A popped operation is held by a thread or has left its results.         *)
ProgressInv ==
  \A p \in Parties, o \in Ops :
    o <= Popped(p) =>
      \/ \E t \in Threads : task[p][t] = o
      \/ o \in started[p] /\ Results[o] \subseteq scope[p]

StartedInv ==
  \A p \in Parties :
    /\ started[p] \subseteq 1 .. Popped(p)
    /\ \A t \in Threads :
         pc[p][t] \in Holding =>
           (task[p][t] \in started[p] <=> pc[p][t] \in {"kernel", "store"})

(* The scope holds the parameters, and results of complete kernels only.   *)
ScopeInv ==
  \A p \in Parties :
    /\ Params \subseteq scope[p]
    /\ \A v \in scope[p] \ Params : \E o \in Evaluated(p) : v \in Results[o]

(* A kernel runs on what its task waited for.                              *)
ReadyInv ==
  \A p \in Parties :
    /\ \A t \in Threads :
         pc[p][t] = "call" /\ Operands[task[p][t]] # {} => Ready(p, task[p][t])
    /\ \A o \in started[p] : Operands[o] # {} => Ready(p, o)

WakeInv ==
  \A p \in Parties, t \in Threads :
    pc[p][t] \in {"sleep", "asleep"} /\ Ready(p, task[p][t]) =>
      \E s \in Threads : pc[p][s] = "store"

PoolInv == /\ TypeOK /\ QueueInv /\ TaskInv /\ MutexInv /\ ProgressInv
           /\ StartedInv /\ ScopeInv /\ ReadyInv /\ WakeInv

OutcomeInv ==
  \A p \in Parties :
    outcome[p] = "returned" =>
      built[p] = NumOps /\ \A t \in Threads : pc[p][t] = "exit"

(* The inductive invariant: preserved by every step of Next.               *)
IInv == PoolInv /\ OutcomeInv

----------------------------------------------------------------------------
(* Every party's run of the block ends: it returns or is lost.             *)
Settles == \A p \in Parties : <>(outcome[p] # "running")
=============================================================================
