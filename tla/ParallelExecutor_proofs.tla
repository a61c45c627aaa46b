---------------------- MODULE ParallelExecutor_proofs ----------------------
(***************************************************************************)
(* Proofs about the parallel runner, for every block, every number of      *)
(* parties and every pool size.                                            *)
(***************************************************************************)
EXTENDS ParallelExecutor, SequenceTheorems, WellFoundedInduction,
        TLAPS

USE DEF Ops, NoTask, PCs, Holding

(* The invariant holds before the first task is queued.                    *)
LEMMA InitPoolInv == Init => PoolInv
<1> SUFFICES ASSUME Init PROVE PoolInv OBVIOUS
<1> USE ProgramAssumption, ConcurrencyAssumption DEF Init
<1>1. TypeOK BY DEF TypeOK
<1>2. QueueInv BY DEF QueueInv, Popped
<1>3. TaskInv BY DEF TaskInv
<1>4. MutexInv BY DEF MutexInv
<1>5. ProgressInv BY DEF ProgressInv, Popped
<1>6. StartedInv BY DEF StartedInv, Popped
<1>7. ScopeInv BY DEF ScopeInv, Evaluated, Defined
<1>8. ReadyInv BY DEF ReadyInv
<1>9. WakeInv BY DEF WakeInv
<1> QED BY <1>1, <1>2, <1>3, <1>4, <1>5, <1>6, <1>7, <1>8, <1>9 DEF PoolInv

(* A thread that has popped a task and not finished it holds an operation. *)
LEMMA HeldTask ==
  ASSUME TypeOK, TaskInv, NEW p \in Parties, NEW t \in Threads, pc[p][t] \in Holding
  PROVE  task[p][t] \in Ops
BY DEF TypeOK, TaskInv

(* Every step keeps the types.                                             *)
LEMMA TypeStep == PoolInv /\ [Next]_vars => TypeOK'
<1> SUFFICES ASSUME PoolInv, [Next]_vars PROVE TypeOK' OBVIOUS
<1> USE ProgramAssumption DEF PoolInv, TypeOK
<1> USE DEF TaskInv
<1>1. CASE UNCHANGED vars BY <1>1 DEF vars
<1>2. ASSUME NEW p \in Parties, SpawnLink(p) PROVE TypeOK' BY <1>2 DEF SpawnLink
<1>3. ASSUME NEW p \in Parties, QueueTask(p) PROVE TypeOK' BY <1>3 DEF QueueTask
<1>4. ASSUME NEW p \in Parties, Return(p) PROVE TypeOK' BY <1>4 DEF Return
<1>5. ASSUME NEW p \in Parties, NEW t \in Threads, StartThread(p, t)
      PROVE TypeOK'
  BY <1>5 DEF StartThread, At, Goto
<1>6. ASSUME NEW p \in Parties, NEW t \in Threads, TakeTask(p, t)
      PROVE TypeOK'
  BY <1>6 DEF TakeTask, At, Goto
<1>7. ASSUME NEW p \in Parties, NEW t \in Threads, Exit(p, t)
      PROVE TypeOK'
  BY <1>7 DEF Exit, At, Goto
<1>8. ASSUME NEW p \in Parties, NEW t \in Threads, LockEvent(p, t)
      PROVE TypeOK'
  BY <1>8 DEF LockEvent, At, Goto
<1>9. ASSUME NEW p \in Parties, NEW t \in Threads, TestReady(p, t)
      PROVE TypeOK'
  <2>1. pc' \in [Parties -> [Threads -> PCs]]
    <3>1. ASSUME NEW l \in PCs, Goto(p, t, l)
          PROVE  pc' \in [Parties -> [Threads -> PCs]]
      BY <3>1 DEF Goto
    <3> QED BY <3>1, <1>9 DEF TestReady
  <2>2. mutex' \in [Parties -> Threads \cup {NoThread}] BY <1>9 DEF TestReady
  <2> QED BY <2>1, <2>2, <1>9 DEF TestReady
<1>10. ASSUME NEW p \in Parties, NEW t \in Threads, Sleep(p, t)
      PROVE TypeOK'
  BY <1>10 DEF Sleep, At, Goto
<1>11. ASSUME NEW p \in Parties, NEW t \in Threads, SpuriousWake(p, t)
      PROVE TypeOK'
  BY <1>11 DEF SpuriousWake, At, Goto
<1>12. ASSUME NEW p \in Parties, NEW t \in Threads, Call(p, t)
      PROVE TypeOK'
  <2>1. pc' \in [Parties -> [Threads -> PCs]]
    <3>1. CASE Goto(p, t, "kernel") BY <3>1 DEF Goto
    <3>2. CASE UNCHANGED pc BY <3>2
    <3> QED BY <3>1, <3>2, <1>12 DEF Call
  <2>2. started' \in [Parties -> SUBSET Ops]
    <3>1. task[p][t] \in Ops BY HeldTask, <1>12 DEF Call, At
    <3>2. CASE started' = [started EXCEPT ![p] = @ \cup {task[p][t]}]
      BY <3>1, <3>2
    <3>3. CASE UNCHANGED started BY <3>3
    <3> QED BY <3>2, <3>3, <1>12 DEF Call
  <2>3. outcome' \in [Parties -> {"running", "returned", "terminated"}]
    BY <1>12 DEF Call
  <2> QED BY <2>1, <2>2, <2>3, <1>12 DEF Call
<1>13. ASSUME NEW p \in Parties, NEW t \in Threads, KernelDone(p, t)
      PROVE TypeOK'
  BY <1>13 DEF KernelDone, At, Goto, Erased
<1>14. ASSUME NEW p \in Parties, NEW t \in Threads, KernelThrow(p, t)
      PROVE TypeOK'
  BY <1>14 DEF KernelThrow, At, Goto
<1>15. ASSUME NEW p \in Parties, NEW t \in Threads, Store(p, t)
      PROVE TypeOK'
  BY <1>15 DEF Store, At, Goto
<1>16. ASSUME NEW p \in Parties, NEW t \in Threads, Notify(p, t)
      PROVE TypeOK'
  BY <1>16 DEF Notify, At, Goto
<1> QED BY <1>1, <1>2, <1>3, <1>4, <1>5, <1>6, <1>7, <1>8, <1>9, <1>10, <1>11,
           <1>12, <1>13, <1>14, <1>15, <1>16 DEF Next, ThreadStep

(* What Goto does to every thread's pc.                                    *)
LEMMA GotoPc ==
  ASSUME TypeOK, NEW p \in Parties, NEW t \in Threads, NEW l \in PCs, Goto(p, t, l)
  PROVE  \A q \in Parties, s \in Threads :
           pc'[q][s] = IF q = p /\ s = t THEN l ELSE pc[q][s]
BY DEF TypeOK, Goto

(* A step that changes nothing but links and outcomes keeps the invariant. *)
LEMMA FramePoolInv ==
  ASSUME PoolInv, TypeOK', UNCHANGED <<built, queue, pc, task, mutex, scope, started>>
  PROVE  PoolInv'
<1>1. QueueInv' BY DEF PoolInv, QueueInv, Popped
<1>2. TaskInv' BY DEF PoolInv, TaskInv, Popped
<1>3. MutexInv' BY DEF PoolInv, MutexInv
<1>4. ProgressInv' BY DEF PoolInv, ProgressInv, Popped
<1>5. StartedInv' BY DEF PoolInv, StartedInv, Popped
<1>6. ScopeInv' BY DEF PoolInv, ScopeInv, Evaluated
<1>7. ReadyInv' BY DEF PoolInv, ReadyInv, Ready
<1>8. WakeInv' BY DEF PoolInv, WakeInv, Ready
<1> QED BY <1>1, <1>2, <1>3, <1>4, <1>5, <1>6, <1>7, <1>8 DEF PoolInv

(* A thread that moves between the steps of its wait for the task's        *)
(* values, and calls the kernel or goes to sleep according to what it has  *)
(* found, disturbs only what is said of the mutex.                         *)
LEMMA WaitMove ==
  ASSUME PoolInv, NEW p \in Parties, NEW t \in Threads,
         NEW l \in {"lock", "test", "sleep", "asleep", "call"},
         pc[p][t] \in {"lock", "test", "sleep", "asleep"},
         Goto(p, t, l), UNCHANGED <<built, queue, task, scope, started>>,
         l = "call" => Ready(p, task[p][t]),
         l \in {"sleep", "asleep"} =>
           pc[p][t] = "sleep" \/ ~Ready(p, task[p][t])
  PROVE  /\ QueueInv' /\ TaskInv' /\ ProgressInv' /\ StartedInv' /\ ScopeInv'
         /\ ReadyInv' /\ WakeInv'
         /\ \A q \in Parties, s \in Threads :
              pc'[q][s] = IF q = p /\ s = t THEN l ELSE pc[q][s]
<1>1. \A q \in Parties, s \in Threads :
        pc'[q][s] = IF q = p /\ s = t THEN l ELSE pc[q][s]
  BY GotoPc DEF PoolInv
<1>2. \A q \in Parties, s \in Threads :
        /\ pc'[q][s] \in Holding <=> pc[q][s] \in Holding
        /\ pc'[q][s] \in {"kernel", "store"} <=> pc[q][s] \in {"kernel", "store"}
        /\ pc'[q][s] = "kernel" <=> pc[q][s] = "kernel"
        /\ pc'[q][s] = "exit" <=> pc[q][s] = "exit"
        /\ pc'[q][s] = "unborn" <=> pc[q][s] = "unborn"
  BY <1>1
<1>3. QueueInv' BY <1>2 DEF PoolInv, QueueInv, Popped
<1>4. TaskInv' BY <1>2 DEF PoolInv, TaskInv, Popped
<1>5. ProgressInv' BY DEF PoolInv, ProgressInv, Popped
<1>6. StartedInv' BY <1>2 DEF PoolInv, StartedInv, Popped
<1>7. ScopeInv' BY <1>2 DEF PoolInv, ScopeInv, Evaluated
<1>8. \A q \in Parties : \A o : Ready(q, o)' <=> Ready(q, o)
  BY DEF Ready
<1>9. ReadyInv' BY <1>1, <1>8 DEF PoolInv, ReadyInv
<1>10. WakeInv'
  <2> SUFFICES ASSUME NEW q \in Parties, NEW s \in Threads,
                      pc'[q][s] \in {"sleep", "asleep"}, Ready(q, task[q][s])'
               PROVE  \E r \in Threads : pc'[q][r] = "store"
    BY DEF WakeInv
  <2>1. Ready(q, task[q][s]) BY <1>8
  <2>2. pc[q][s] \in {"sleep", "asleep"} BY <2>1, <1>1
  <2>3. PICK r \in Threads : pc[q][r] = "store" BY <2>1, <2>2 DEF PoolInv, WakeInv
  <2> QED BY <1>1, <2>3
<1> QED BY <1>1, <1>3, <1>4, <1>5, <1>6, <1>7, <1>9, <1>10

LEMMA LockEventPoolInv ==
  ASSUME PoolInv, TypeOK', NEW p \in Parties, NEW t \in Threads, LockEvent(p, t)
  PROVE  PoolInv'
<1>1. /\ QueueInv' /\ TaskInv' /\ ProgressInv' /\ StartedInv' /\ ScopeInv'
      /\ ReadyInv' /\ WakeInv'
      /\ \A q \in Parties, s \in Threads :
           pc'[q][s] = IF q = p /\ s = t THEN "test" ELSE pc[q][s]
  BY WaitMove DEF LockEvent, At
<1>2. MutexInv'
  BY <1>1, ConcurrencyAssumption DEF LockEvent, At, PoolInv, TypeOK, MutexInv
<1> QED BY <1>1, <1>2 DEF PoolInv

LEMMA TestReadyPoolInv ==
  ASSUME PoolInv, TypeOK', NEW p \in Parties, NEW t \in Threads, TestReady(p, t)
  PROVE  PoolInv'
<1>1. CASE Ready(p, task[p][t])
  <2>1. /\ QueueInv' /\ TaskInv' /\ ProgressInv' /\ StartedInv' /\ ScopeInv'
        /\ ReadyInv' /\ WakeInv'
        /\ \A q \in Parties, s \in Threads :
             pc'[q][s] = IF q = p /\ s = t THEN "call" ELSE pc[q][s]
    BY <1>1, WaitMove DEF TestReady, At
  <2>2. MutexInv'
    <3>1. mutex' = [mutex EXCEPT ![p] = NoThread] BY <1>1 DEF TestReady
    <3>2. mutex \in [Parties -> Threads \cup {NoThread}] BY DEF PoolInv, TypeOK
    <3> QED BY <2>1, <3>1, <3>2, ConcurrencyAssumption DEF TestReady, At, PoolInv, MutexInv
  <2> QED BY <2>1, <2>2 DEF PoolInv
<1>2. CASE ~Ready(p, task[p][t])
  <2>1. /\ QueueInv' /\ TaskInv' /\ ProgressInv' /\ StartedInv' /\ ScopeInv'
        /\ ReadyInv' /\ WakeInv'
        /\ \A q \in Parties, s \in Threads :
             pc'[q][s] = IF q = p /\ s = t THEN "sleep" ELSE pc[q][s]
    BY <1>2, WaitMove DEF TestReady, At
  <2>2. MutexInv' BY <1>2, <2>1 DEF TestReady, At, PoolInv, MutexInv
  <2> QED BY <2>1, <2>2 DEF PoolInv
<1> QED BY <1>1, <1>2

LEMMA SleepPoolInv ==
  ASSUME PoolInv, TypeOK', NEW p \in Parties, NEW t \in Threads, Sleep(p, t)
  PROVE  PoolInv'
<1>1. /\ QueueInv' /\ TaskInv' /\ ProgressInv' /\ StartedInv' /\ ScopeInv'
      /\ ReadyInv' /\ WakeInv'
      /\ \A q \in Parties, s \in Threads :
           pc'[q][s] = IF q = p /\ s = t THEN "asleep" ELSE pc[q][s]
  BY WaitMove DEF Sleep, At
<1>2. MutexInv'
  BY <1>1, ConcurrencyAssumption DEF Sleep, At, PoolInv, TypeOK, MutexInv
<1> QED BY <1>1, <1>2 DEF PoolInv

LEMMA SpuriousWakePoolInv ==
  ASSUME PoolInv, TypeOK', NEW p \in Parties, NEW t \in Threads, SpuriousWake(p, t)
  PROVE  PoolInv'
<1>1. /\ QueueInv' /\ TaskInv' /\ ProgressInv' /\ StartedInv' /\ ScopeInv'
      /\ ReadyInv' /\ WakeInv'
      /\ \A q \in Parties, s \in Threads :
           pc'[q][s] = IF q = p /\ s = t THEN "lock" ELSE pc[q][s]
  BY WaitMove DEF SpuriousWake, At
<1>2. MutexInv' BY <1>1 DEF SpuriousWake, At, PoolInv, MutexInv
<1> QED BY <1>1, <1>2 DEF PoolInv


(* Steps that change links and outcomes only.                              *)
LEMMA SpawnLinkPoolInv ==
  ASSUME PoolInv, TypeOK', NEW p \in Parties, SpawnLink(p)
  PROVE  PoolInv'
BY FramePoolInv DEF SpawnLink

LEMMA ReturnPoolInv ==
  ASSUME PoolInv, TypeOK', NEW p \in Parties, Return(p)
  PROVE  PoolInv'
BY FramePoolInv DEF Return

LEMMA KernelThrowPoolInv ==
  ASSUME PoolInv, TypeOK', NEW p \in Parties, NEW t \in Threads, KernelThrow(p, t)
  PROVE  PoolInv'
BY FramePoolInv DEF KernelThrow

(* The next operation joins the queue at its end, before any thread runs.  *)
LEMMA QueueTaskPoolInv ==
  ASSUME PoolInv, TypeOK', NEW p \in Parties, QueueTask(p)
  PROVE  PoolInv'
<1> USE ProgramAssumption
<1>1. \A q \in Parties : Popped(q)' = Popped(q)
  BY DEF QueueTask, Popped, PoolInv, TypeOK
<1>2. QueueInv'
  <2> SUFFICES ASSUME NEW q \in Parties
               PROVE  /\ Len(queue'[q]) <= built'[q]
                      /\ \A i \in 1 .. Len(queue'[q]) : queue'[q][i] = Popped(q)' + i
                      /\ \A t \in Threads :
                           /\ pc'[q][t] # "unborn" => built'[q] = NumOps
                           /\ pc'[q][t] = "exit" => queue'[q] = <<>>
    BY DEF QueueInv
  <2>1. CASE q # p BY <2>1, <1>1 DEF QueueTask, PoolInv, TypeOK, QueueInv
  <2>2. CASE q = p
    <3>1. built[p] < NumOps BY DEF QueueTask, PoolInv, TypeOK
    <3>2. \A t \in Threads : pc[p][t] = "unborn" BY <3>1 DEF PoolInv, QueueInv
    <3>3. /\ queue'[p] = Append(queue[p], built[p] + 1)
          /\ built'[p] = built[p] + 1
          /\ queue[p] \in Seq(Ops) /\ built[p] \in Nat
      BY DEF QueueTask, PoolInv, TypeOK
    <3>4. Len(queue'[p]) = Len(queue[p]) + 1 BY <3>3
    <3>5. \A i \in 1 .. Len(queue'[p]) : queue'[p][i] = Popped(p) + i
      <4> SUFFICES ASSUME NEW i \in 1 .. Len(queue'[p])
                   PROVE  queue'[p][i] = Popped(p) + i
        OBVIOUS
      <4>1. CASE i = Len(queue[p]) + 1 BY <4>1, <3>3 DEF Popped
      <4>2. CASE i \in 1 .. Len(queue[p]) BY <4>2, <3>3 DEF PoolInv, QueueInv
      <4> QED BY <4>1, <4>2, <3>3, <3>4
    <3> QED BY <2>2, <1>1, <3>2, <3>3, <3>4, <3>5 DEF QueueTask, PoolInv, QueueInv
  <2> QED BY <2>1, <2>2
<1>3. UNCHANGED <<pc, task, mutex, scope, started>> BY DEF QueueTask
<1>4. TaskInv' BY <1>1, <1>3 DEF PoolInv, TaskInv
<1>5. MutexInv' BY <1>3 DEF PoolInv, MutexInv
<1>6. ProgressInv' BY <1>1, <1>3 DEF PoolInv, ProgressInv
<1>7. StartedInv' BY <1>1, <1>3 DEF PoolInv, StartedInv
<1>8. ScopeInv' BY <1>3 DEF PoolInv, ScopeInv, Evaluated
<1>9. ReadyInv' BY <1>3 DEF PoolInv, ReadyInv, Ready
<1>10. WakeInv' BY <1>3 DEF PoolInv, WakeInv, Ready
<1> QED BY <1>2, <1>4, <1>5, <1>6, <1>7, <1>8, <1>9, <1>10 DEF PoolInv

(* A thread that holds no task moves to a state in which it holds none.    *)
LEMMA IdleMove ==
  ASSUME PoolInv, NEW p \in Parties, NEW t \in Threads, NEW l \in {"top", "exit"},
         pc[p][t] \in {"unborn", "top"}, built[p] = NumOps,
         l = "exit" => queue[p] = <<>>,
         Goto(p, t, l), UNCHANGED <<built, queue, task, mutex, scope, started>>
  PROVE  /\ QueueInv' /\ TaskInv' /\ MutexInv' /\ ProgressInv' /\ StartedInv'
         /\ ScopeInv' /\ ReadyInv' /\ WakeInv'
<1>1. \A q \in Parties, s \in Threads :
        pc'[q][s] = IF q = p /\ s = t THEN l ELSE pc[q][s]
  BY GotoPc DEF PoolInv
<1>2. \A q \in Parties, s \in Threads :
        /\ pc'[q][s] \in Holding <=> pc[q][s] \in Holding
        /\ pc'[q][s] \in Holding \/ pc[q][s] \in Holding => pc'[q][s] = pc[q][s]
  BY <1>1
<1>3. QueueInv' BY <1>1 DEF PoolInv, QueueInv, Popped
<1>4. TaskInv' BY <1>2 DEF PoolInv, TaskInv, Popped
<1>5. MutexInv' BY <1>2 DEF PoolInv, MutexInv
<1>6. ProgressInv' BY DEF PoolInv, ProgressInv, Popped
<1>7. StartedInv' BY <1>2 DEF PoolInv, StartedInv, Popped
<1>8. ScopeInv' BY <1>2 DEF PoolInv, ScopeInv, Evaluated
<1>9. \A q \in Parties : \A o : Ready(q, o)' <=> Ready(q, o)
  BY DEF Ready
<1>10. ReadyInv' BY <1>2, <1>9 DEF PoolInv, ReadyInv
<1>11. WakeInv'
  <2> SUFFICES ASSUME NEW q \in Parties, NEW s \in Threads,
                      pc'[q][s] \in {"sleep", "asleep"}, Ready(q, task[q][s])'
               PROVE  \E r \in Threads : pc'[q][r] = "store"
    BY DEF WakeInv
  <2>1. Ready(q, task[q][s]) BY <1>9
  <2>2. PICK r \in Threads : pc[q][r] = "store" BY <2>1, <1>2 DEF PoolInv, WakeInv
  <2> QED BY <1>2, <2>2
<1> QED BY <1>3, <1>4, <1>5, <1>6, <1>7, <1>8, <1>10, <1>11

LEMMA StartThreadPoolInv ==
  ASSUME PoolInv, TypeOK', NEW p \in Parties, NEW t \in Threads, StartThread(p, t)
  PROVE  PoolInv'
BY IdleMove DEF StartThread, At, PoolInv

LEMMA ExitPoolInv ==
  ASSUME PoolInv, TypeOK', NEW p \in Parties, NEW t \in Threads, Exit(p, t)
  PROVE  PoolInv'
<1>1. built[p] = NumOps BY DEF Exit, At, PoolInv, QueueInv
<1> QED BY <1>1, IdleMove DEF Exit, At, PoolInv

(* A pop takes the operation that follows those popped before.             *)
LEMMA TakeTaskPoolInv ==
  ASSUME PoolInv, TypeOK', NEW p \in Parties, NEW t \in Threads, TakeTask(p, t)
  PROVE  PoolInv'
<1> DEFINE o == Head(queue[p])
           l == IF Operands[o] # {} THEN "lock" ELSE "call"
<1>1. /\ queue[p] \in Seq(Ops) /\ queue[p] # <<>> /\ pc[p][t] = "top"
      /\ built[p] \in Nat /\ task[p][t] = 0
  <2>1. pc[p][t] = "top" /\ queue[p] # <<>> BY DEF TakeTask, At
  <2>2. task[p][t] = 0 BY <2>1 DEF PoolInv, TaskInv
  <2> QED BY <2>1, <2>2 DEF PoolInv, TypeOK
<1>2. o = Popped(p) + 1 /\ o \in Ops
  BY <1>1 DEF PoolInv, QueueInv
<1>3. \A q \in Parties : queue'[q] = IF q = p THEN Tail(queue[q]) ELSE queue[q]
  BY DEF TakeTask, PoolInv, TypeOK
<1>4. \A q \in Parties : Popped(q)' = IF q = p THEN Popped(q) + 1 ELSE Popped(q)
  <2>1. \A q \in Parties : Popped(q)' = built[q] - Len(queue'[q])
    BY DEF TakeTask, Popped
  <2>2. Len(Tail(queue[p])) = Len(queue[p]) - 1 /\ Len(queue[p]) \in Nat
    BY <1>1, HeadTailProperties
  <2>3. built[p] - (Len(queue[p]) - 1) = built[p] - Len(queue[p]) + 1
    BY <2>2, <1>1
  <2> QED BY <2>1, <2>2, <2>3, <1>3 DEF Popped
<1>5. \A q \in Parties, s \in Threads :
        pc'[q][s] = IF q = p /\ s = t THEN l ELSE pc[q][s]
  BY GotoPc DEF TakeTask, PoolInv
<1>6. \A q \in Parties, s \in Threads :
        task'[q][s] = IF q = p /\ s = t THEN o ELSE task[q][s]
  BY DEF TakeTask, PoolInv, TypeOK
<1>7. \A q \in Parties : Popped(q) \in Nat
  BY DEF PoolInv, TypeOK, QueueInv, Popped
<1>8. UNCHANGED <<built, mutex, scope, started>> BY DEF TakeTask
<1> HIDE DEF o, l
<1>9. l \in {"lock", "call"} /\ (l = "call" => Operands[o] = {}) BY DEF l
<1>10. QueueInv'
  <2> SUFFICES ASSUME NEW q \in Parties
               PROVE  /\ Len(queue'[q]) <= built'[q]
                      /\ \A i \in 1 .. Len(queue'[q]) : queue'[q][i] = Popped(q)' + i
                      /\ \A s \in Threads :
                           /\ pc'[q][s] # "unborn" => built'[q] = NumOps
                           /\ pc'[q][s] = "exit" => queue'[q] = <<>>
    BY DEF QueueInv
  <2>1. CASE q # p BY <2>1, <1>3, <1>4, <1>5, <1>8 DEF PoolInv, QueueInv
  <2>2. CASE q = p
    <3>1. /\ Len(queue'[p]) = Len(queue[p]) - 1
          /\ \A i \in 1 .. Len(queue'[p]) : queue'[p][i] = queue[p][i + 1]
      <4>1. queue'[p] = Tail(queue[p]) BY <1>3
      <4> QED BY <4>1, <1>1, HeadTailProperties
    <3>2. Len(queue'[p]) <= built'[p] BY <3>1, <1>1, <1>8 DEF PoolInv, QueueInv
    <3>3. \A i \in 1 .. Len(queue'[p]) : queue'[p][i] = Popped(p)' + i
      <4> SUFFICES ASSUME NEW i \in 1 .. Len(queue'[p])
                   PROVE  queue'[p][i] = Popped(p)' + i
        OBVIOUS
      <4>1. i + 1 \in 1 .. Len(queue[p]) BY <1>1, <3>1
      <4>2. queue[p][i + 1] = Popped(p) + (i + 1) BY <4>1 DEF PoolInv, QueueInv
      <4> QED BY <4>2, <3>1, <1>4, <1>7
    <3>4. \A s \in Threads : pc[p][s] # "exit" BY <1>1 DEF PoolInv, QueueInv
    <3>5. built[p] = NumOps BY <1>1 DEF PoolInv, QueueInv
    <3> QED BY <2>2, <3>2, <3>3, <3>4, <3>5, <1>5, <1>8, <1>9
  <2> QED BY <2>1, <2>2
<1>11. TaskInv'
  BY <1>1, <1>2, <1>4, <1>5, <1>6, <1>7, <1>9 DEF PoolInv, TaskInv
<1>12. MutexInv' BY <1>1, <1>5, <1>8, <1>9 DEF PoolInv, MutexInv
<1>13. ProgressInv'
  <2> SUFFICES ASSUME NEW q \in Parties, NEW a \in Ops, a <= Popped(q)'
               PROVE  \/ \E s \in Threads : task'[q][s] = a
                      \/ a \in started'[q] /\ Results[a] \subseteq scope'[q]
    BY DEF ProgressInv
  <2>1. CASE q = p /\ a = o BY <2>1, <1>6
  <2>2. CASE ~(q = p /\ a = o)
    <3>1. a <= Popped(q) BY <2>2, <1>2, <1>4, <1>7
    <3>2. \A s \in Threads : task[q][s] = a => task'[q][s] = a BY <1>1, <1>6
    <3> QED BY <3>1, <3>2, <1>8 DEF PoolInv, ProgressInv
  <2> QED BY <2>1, <2>2
<1>14. StartedInv'
  <2>1. \A q \in Parties : started'[q] \subseteq 1 .. Popped(q)'
    BY <1>4, <1>7, <1>8 DEF PoolInv, StartedInv
  <2>2. o \notin started[p] BY <1>2, <1>7 DEF PoolInv, StartedInv
  <2>3. ASSUME NEW q \in Parties, NEW s \in Threads, pc'[q][s] \in Holding
        PROVE  task'[q][s] \in started'[q] <=> pc'[q][s] \in {"kernel", "store"}
    <3>1. CASE q = p /\ s = t BY <3>1, <2>2, <1>5, <1>6, <1>8, <1>9
    <3>2. CASE ~(q = p /\ s = t)
      BY <2>3, <3>2, <1>5, <1>6, <1>8 DEF PoolInv, StartedInv
    <3> QED BY <3>1, <3>2
  <2> QED BY <2>1, <2>3 DEF StartedInv
<1>15. ScopeInv'
  <2>1. \A q \in Parties : Evaluated(q)' = Evaluated(q)
    BY <1>1, <1>5, <1>6, <1>8, <1>9 DEF Evaluated
  <2> QED BY <2>1, <1>8 DEF PoolInv, ScopeInv
<1>16. \A q \in Parties : \A a : Ready(q, a)' <=> Ready(q, a)
  BY <1>8 DEF Ready
<1>17. ReadyInv' BY <1>5, <1>6, <1>8, <1>9, <1>16 DEF PoolInv, ReadyInv
<1>18. WakeInv'
  <2> SUFFICES ASSUME NEW q \in Parties, NEW s \in Threads,
                      pc'[q][s] \in {"sleep", "asleep"}, Ready(q, task[q][s])'
               PROVE  \E r \in Threads : pc'[q][r] = "store"
    BY DEF WakeInv
  <2>1. ~(q = p /\ s = t) BY <1>5, <1>9
  <2>2. pc[q][s] \in {"sleep", "asleep"} /\ Ready(q, task[q][s])
    BY <2>1, <1>5, <1>6, <1>16
  <2>3. PICK r \in Threads : pc[q][r] = "store" BY <2>2 DEF PoolInv, WakeInv
  <2> QED BY <1>1, <1>5, <2>3
<1> QED BY <1>10, <1>11, <1>12, <1>13, <1>14, <1>15, <1>17, <1>18 DEF PoolInv

(* A kernel begins: its operation has not been started before.             *)
LEMMA CallPoolInv ==
  ASSUME PoolInv, TypeOK', NEW p \in Parties, NEW t \in Threads, Call(p, t)
  PROVE  PoolInv'
<1>1. CASE UNCHANGED <<started, pc>> BY <1>1, FramePoolInv DEF Call
<1>2. CASE /\ started' = [started EXCEPT ![p] = @ \cup {task[p][t]}]
           /\ Goto(p, t, "kernel")
  <2>1. /\ \A q \in Parties, s \in Threads :
             pc'[q][s] = IF q = p /\ s = t THEN "kernel" ELSE pc[q][s]
        /\ pc[p][t] = "call"
    BY <1>2, GotoPc DEF Call, At, PoolInv
  <2>2. \A q \in Parties :
          started'[q] = IF q = p THEN started[q] \cup {task[p][t]} ELSE started[q]
    BY <1>2 DEF PoolInv, TypeOK
  <2>3. UNCHANGED <<built, queue, task, mutex, scope>> BY DEF Call
  <2>4. task[p][t] \in Ops /\ task[p][t] \in 1 .. Popped(p)
    BY <2>1, HeldTask DEF PoolInv, TaskInv
  <2>5. QueueInv' BY <2>1, <2>3 DEF PoolInv, QueueInv, Popped
  <2>6. TaskInv' BY <2>1, <2>3 DEF PoolInv, TaskInv, Popped
  <2>7. MutexInv' BY <2>1, <2>3 DEF PoolInv, MutexInv
  <2>8. ProgressInv' BY <2>2, <2>3 DEF PoolInv, ProgressInv, Popped
  <2>9. StartedInv'
    <3>1. \A q \in Parties : started'[q] \subseteq 1 .. Popped(q)'
      BY <2>2, <2>3, <2>4 DEF PoolInv, StartedInv, Popped
    <3>2. ASSUME NEW q \in Parties, NEW s \in Threads, pc'[q][s] \in Holding
          PROVE  task'[q][s] \in started'[q] <=> pc'[q][s] \in {"kernel", "store"}
      <4>1. CASE q = p /\ s = t BY <4>1, <2>1, <2>2, <2>3
      <4>2. CASE q = p /\ s # t
        <5>1. task[q][s] # task[p][t]
          BY <3>2, <4>2, <2>1 DEF PoolInv, TaskInv
        <5>2. task[q][s] \in started[q] <=> pc[q][s] \in {"kernel", "store"}
          BY <3>2, <4>2, <2>1 DEF PoolInv, StartedInv
        <5>3. started'[q] = started[q] \cup {task[p][t]} BY <4>2, <2>2
        <5>4. pc'[q][s] = pc[q][s] /\ task'[q][s] = task[q][s] BY <4>2, <2>1, <2>3
        <5> QED BY <5>1, <5>2, <5>3, <5>4
      <4>3. CASE q # p BY <3>2, <4>3, <2>1, <2>2, <2>3 DEF PoolInv, StartedInv
      <4> QED BY <4>1, <4>2, <4>3
    <3> QED BY <3>1, <3>2 DEF StartedInv
  <2>10. ScopeInv'
    <3>1. task[p][t] \notin started[p] BY <2>1 DEF PoolInv, StartedInv
    <3>2. \A q \in Parties : Evaluated(q) \subseteq Evaluated(q)'
      BY ZenonT(60), <3>1, <2>1, <2>2, <2>3 DEF Evaluated
    <3> QED BY <3>2, <2>3 DEF PoolInv, ScopeInv
  <2>11. \A q \in Parties : \A o : Ready(q, o)' <=> Ready(q, o)
    BY <2>3 DEF Ready
  <2>12. ReadyInv'
    <3>1. ASSUME NEW q \in Parties, NEW s \in Threads,
                 pc'[q][s] = "call", Operands[task'[q][s]] # {}
          PROVE  Ready(q, task[q][s])'
      <4>1. pc[q][s] = "call" BY <3>1, <2>1
      <4> QED BY <4>1, <3>1, <2>3, <2>11 DEF PoolInv, ReadyInv
    <3>2. ASSUME NEW q \in Parties, NEW o \in started'[q], Operands[o] # {}
          PROVE  Ready(q, o)'
      <4>1. CASE o \in started[q] BY <4>1, <3>2, <2>11 DEF PoolInv, ReadyInv
      <4>2. CASE q = p /\ o = task[p][t]
        BY <4>2, <3>2, <2>1, <2>11 DEF PoolInv, ReadyInv
      <4> QED BY <4>1, <4>2, <2>2
    <3> QED BY <3>1, <3>2 DEF ReadyInv
  <2>13. WakeInv'
    <3> SUFFICES ASSUME NEW q \in Parties, NEW s \in Threads,
                        pc'[q][s] \in {"sleep", "asleep"}, Ready(q, task[q][s])'
                 PROVE  \E r \in Threads : pc'[q][r] = "store"
      BY DEF WakeInv
    <3>1. pc[q][s] \in {"sleep", "asleep"} /\ Ready(q, task[q][s])
      BY <2>1, <2>11, <2>3
    <3>2. PICK r \in Threads : pc[q][r] = "store" BY <3>1 DEF PoolInv, WakeInv
    <3> QED BY <3>2, <2>1
  <2> QED BY <2>5, <2>6, <2>7, <2>8, <2>9, <2>10, <2>12, <2>13 DEF PoolInv
<1> QED BY <1>1, <1>2 DEF Call

(* A kernel completes: its operation is now evaluated.  No value leaves    *)
(* the scope, a free included.                                             *)
LEMMA KernelDonePoolInv ==
  ASSUME PoolInv, TypeOK', NEW p \in Parties, NEW t \in Threads, KernelDone(p, t)
  PROVE  PoolInv'
<1>1. /\ \A q \in Parties, s \in Threads :
           pc'[q][s] = IF q = p /\ s = t THEN "store" ELSE pc[q][s]
      /\ pc[p][t] = "kernel"
  BY GotoPc DEF KernelDone, At, PoolInv
<1>2. UNCHANGED <<built, queue, task, mutex, started>> BY DEF KernelDone
<1>3. UNCHANGED scope BY DEF KernelDone, Erased, PoolInv, TypeOK
<1>4. \A q \in Parties, s \in Threads :
        /\ pc'[q][s] \in Holding <=> pc[q][s] \in Holding
        /\ pc'[q][s] \in {"kernel", "store"} <=> pc[q][s] \in {"kernel", "store"}
        /\ pc'[q][s] = "kernel" => pc[q][s] = "kernel"
        /\ pc'[q][s] \notin {"kernel", "store"} => pc'[q][s] = pc[q][s]
        /\ pc[q][s] \notin {"kernel", "store"} => pc'[q][s] = pc[q][s]
        /\ pc[q][s] = "store" => pc'[q][s] = "store"
  BY <1>1
<1>5. QueueInv' BY <1>2, <1>4 DEF PoolInv, QueueInv, Popped
<1>6. TaskInv' BY <1>2, <1>4 DEF PoolInv, TaskInv, Popped
<1>7. MutexInv' BY <1>2, <1>4 DEF PoolInv, MutexInv
<1>8. ProgressInv' BY <1>2, <1>3 DEF PoolInv, ProgressInv, Popped
<1>9. StartedInv' BY <1>2, <1>4 DEF PoolInv, StartedInv, Popped
<1>10. ScopeInv'
  <2>1. \A q \in Parties : Evaluated(q) \subseteq Evaluated(q)'
    BY <1>2, <1>4 DEF Evaluated
  <2> QED BY <2>1, <1>3 DEF PoolInv, ScopeInv
<1>11. \A q \in Parties : \A o : Ready(q, o)' <=> Ready(q, o)
  BY <1>3 DEF Ready
<1>12. ReadyInv' BY <1>2, <1>4, <1>11 DEF PoolInv, ReadyInv
<1>13. WakeInv'
  <2> SUFFICES ASSUME NEW q \in Parties, NEW s \in Threads,
                      pc'[q][s] \in {"sleep", "asleep"}, Ready(q, task[q][s])'
               PROVE  \E r \in Threads : pc'[q][r] = "store"
    BY DEF WakeInv
  <2>1. pc[q][s] \in {"sleep", "asleep"} /\ Ready(q, task[q][s])
    BY <1>2, <1>4, <1>11
  <2>2. PICK r \in Threads : pc[q][r] = "store" BY <2>1 DEF PoolInv, WakeInv
  <2> QED BY <2>2, <1>4
<1> QED BY <1>5, <1>6, <1>7, <1>8, <1>9, <1>10, <1>12, <1>13 DEF PoolInv

(* A result enters the scope, of an operation whose kernel is complete.    *)
(* Sleepers may become ready: this thread has yet to notify them.          *)
LEMMA StorePoolInv ==
  ASSUME PoolInv, TypeOK', NEW p \in Parties, NEW t \in Threads, Store(p, t)
  PROVE  PoolInv'
<1>1. PICK v \in Results[task[p][t]] : scope' = [scope EXCEPT ![p] = @ \cup {v}]
  BY DEF Store
<1>2. pc[p][t] = "store" BY DEF Store, At
<1>3. UNCHANGED <<built, queue, pc, task, mutex, started>> BY DEF Store
<1>4. \A q \in Parties : scope'[q] = IF q = p THEN scope[q] \cup {v} ELSE scope[q]
  BY <1>1 DEF PoolInv, TypeOK
<1>5. \A q \in Parties : \A o : Ready(q, o) => Ready(q, o)'
  BY <1>4 DEF Ready
<1>6. QueueInv' BY <1>3 DEF PoolInv, QueueInv, Popped
<1>7. TaskInv' BY <1>3 DEF PoolInv, TaskInv, Popped
<1>8. MutexInv' BY <1>3 DEF PoolInv, MutexInv
<1>9. ProgressInv' BY <1>3, <1>4 DEF PoolInv, ProgressInv, Popped
<1>10. StartedInv' BY <1>3 DEF PoolInv, StartedInv, Popped
<1>11. ScopeInv'
  <2>1. task[p][t] \in Evaluated(p)
    <3>1. task[p][t] \in started[p] BY <1>2 DEF PoolInv, StartedInv
    <3>2. \A s \in Threads : pc[p][s] = "kernel" => task[p][s] # task[p][t]
      BY <1>2 DEF PoolInv, TaskInv
    <3> QED BY <3>1, <3>2 DEF Evaluated
  <2>2. \A q \in Parties : Evaluated(q)' = Evaluated(q) BY <1>3 DEF Evaluated
  <2>3. ASSUME NEW q \in Parties, NEW w \in scope'[q] \ Params
        PROVE  \E a \in Evaluated(q) : w \in Results[a]
    <3>1. CASE w \in scope[q] BY <3>1 DEF PoolInv, ScopeInv
    <3>2. CASE q = p /\ w = v BY <3>2, <2>1
    <3> QED BY <3>1, <3>2, <1>4
  <2>4. \A q \in Parties : Params \subseteq scope'[q] BY <1>4 DEF PoolInv, ScopeInv
  <2> QED BY <2>2, <2>3, <2>4 DEF ScopeInv
<1>12. ReadyInv' BY <1>3, <1>5 DEF PoolInv, ReadyInv
<1>13. WakeInv'
  <2> SUFFICES ASSUME NEW q \in Parties, NEW s \in Threads,
                      pc'[q][s] \in {"sleep", "asleep"}, Ready(q, task[q][s])'
               PROVE  \E r \in Threads : pc'[q][r] = "store"
    BY DEF WakeInv
  <2>1. CASE q = p BY <2>1, <1>2, <1>3
  <2>2. CASE q # p
    <3>1. Ready(q, task[q][s]) BY <2>2, <1>3, <1>4 DEF Ready
    <3> QED BY <3>1, <1>3 DEF PoolInv, WakeInv
  <2> QED BY <2>1, <2>2
<1> QED BY <1>6, <1>7, <1>8, <1>9, <1>10, <1>11, <1>12, <1>13 DEF PoolInv

(* A thread gives its task up and wakes every sleeper: nobody is left      *)
(* asleep, and nobody was on the way, for that thread held the mutex.      *)
LEMMA NotifyPoolInv ==
  ASSUME PoolInv, TypeOK', NEW p \in Parties, NEW t \in Threads, Notify(p, t)
  PROVE  PoolInv'
<1>1. pc[p][t] = "store" /\ mutex[p] = NoThread
      /\ Results[task[p][t]] \subseteq scope[p]
  BY DEF Notify, At
<1>2. \A q \in Parties, s \in Threads :
        pc'[q][s] = IF q # p THEN pc[q][s]
                    ELSE IF s = t THEN "top"
                    ELSE IF pc[q][s] = "asleep" THEN "lock" ELSE pc[q][s]
  BY DEF Notify, PoolInv, TypeOK
<1>3. \A q \in Parties, s \in Threads :
        task'[q][s] = IF q = p /\ s = t THEN 0 ELSE task[q][s]
  BY DEF Notify, PoolInv, TypeOK
<1>4. UNCHANGED <<built, queue, mutex, scope, started>> BY DEF Notify
<1>5. \A q \in Parties, s \in Threads :
        ~(q = p /\ s = t) =>
          /\ task'[q][s] = task[q][s]
          /\ pc'[q][s] \in Holding <=> pc[q][s] \in Holding
          /\ pc'[q][s] = pc[q][s] \/ (pc[q][s] = "asleep" /\ pc'[q][s] = "lock")
  BY <1>2, <1>3
<1>6. pc'[p][t] = "top" /\ task'[p][t] = 0 BY <1>2, <1>3
<1>7. QueueInv' BY <1>1, <1>2, <1>4 DEF PoolInv, QueueInv, Popped
<1>8. TaskInv'
  <2> SUFFICES ASSUME NEW q \in Parties, NEW s \in Threads
               PROVE  /\ pc'[q][s] \in Holding => task'[q][s] \in 1 .. Popped(q)
                      /\ pc'[q][s] \notin Holding => task'[q][s] = 0
                      /\ \A r \in Threads :
                           pc'[q][r] \in Holding /\ task'[q][r] = task'[q][s] => r = s
    BY <1>4 DEF TaskInv, Popped
  <2>1. CASE ~(q = p /\ s = t)
    <3>1. ASSUME NEW r \in Threads, pc'[q][r] \in Holding, task'[q][r] = task'[q][s]
          PROVE  r = s
      <4>1. ~(q = p /\ r = t) BY <3>1, <1>6
      <4> QED BY <4>1, <3>1, <2>1, <1>5 DEF PoolInv, TaskInv
    <3> QED BY <3>1, <2>1, <1>5 DEF PoolInv, TaskInv
  <2>2. CASE q = p /\ s = t
    <3>1. ASSUME NEW r \in Threads, pc'[p][r] \in Holding, task'[p][r] = 0
          PROVE  FALSE
      <4>1. r # t BY <3>1, <1>6
      <4>2. pc[p][r] \in Holding /\ task[p][r] = 0 BY <4>1, <3>1, <1>5
      <4> QED BY <4>2, HeldTask DEF PoolInv
    <3> QED BY <3>1, <2>2, <1>6
  <2> QED BY <2>1, <2>2
<1>9. MutexInv' BY <1>1, <1>2, <1>4 DEF PoolInv, MutexInv
<1>10. ProgressInv'
  <2> SUFFICES ASSUME NEW q \in Parties, NEW a \in Ops, a <= Popped(q)
               PROVE  \/ \E s \in Threads : task'[q][s] = a
                      \/ a \in started[q] /\ Results[a] \subseteq scope[q]
    BY <1>4 DEF ProgressInv, Popped
  <2>1. CASE q = p /\ a = task[p][t]
    BY <2>1, <1>1 DEF PoolInv, StartedInv
  <2>2. CASE ~(q = p /\ a = task[p][t])
    BY <2>2, <1>5 DEF PoolInv, ProgressInv
  <2> QED BY <2>1, <2>2
<1>11. StartedInv'
  <2>1. \A q \in Parties : started'[q] \subseteq 1 .. Popped(q)'
    BY <1>4 DEF PoolInv, StartedInv, Popped
  <2>2. ASSUME NEW q \in Parties, NEW s \in Threads, pc'[q][s] \in Holding
        PROVE  task'[q][s] \in started'[q] <=> pc'[q][s] \in {"kernel", "store"}
    <3>1. ~(q = p /\ s = t) BY <2>2, <1>6
    <3> QED BY <3>1, <2>2, <1>4, <1>5 DEF PoolInv, StartedInv
  <2> QED BY <2>1, <2>2 DEF StartedInv
<1>12. ScopeInv'
  <2>1. \A q \in Parties : Evaluated(q) \subseteq Evaluated(q)'
    BY <1>4, <1>5, <1>6 DEF Evaluated
  <2> QED BY <2>1, <1>4 DEF PoolInv, ScopeInv
<1>13. \A q \in Parties : \A o : Ready(q, o)' <=> Ready(q, o)
  BY <1>4 DEF Ready
<1>14. ReadyInv' BY <1>2, <1>3, <1>4, <1>13 DEF PoolInv, ReadyInv
<1>15. WakeInv'
  <2> SUFFICES ASSUME NEW q \in Parties, NEW s \in Threads,
                      pc'[q][s] \in {"sleep", "asleep"}, Ready(q, task[q][s])'
               PROVE  \E r \in Threads : pc'[q][r] = "store"
    BY DEF WakeInv
  <2>1. q # p
    <3>1. pc[p][s] # "sleep" BY <1>1, ConcurrencyAssumption DEF PoolInv, MutexInv
    <3> QED BY <3>1, <1>2
  <2>2. pc[q][s] \in {"sleep", "asleep"} /\ Ready(q, task[q][s])
    BY <2>1, <1>2, <1>3, <1>13
  <2>3. PICK r \in Threads : pc[q][r] = "store" BY <2>2 DEF PoolInv, WakeInv
  <2> QED BY <2>1, <2>3, <1>2
<1> QED BY <1>7, <1>8, <1>9, <1>10, <1>11, <1>12, <1>14, <1>15 DEF PoolInv

(* What is said of the pool is preserved by every step.                    *)
LEMMA PoolStep == PoolInv /\ [Next]_vars => PoolInv'
<1> SUFFICES ASSUME PoolInv, [Next]_vars PROVE PoolInv' OBVIOUS
<1>1. TypeOK' BY TypeStep
<1>2. CASE UNCHANGED vars BY <1>1, <1>2, FramePoolInv DEF vars
<1>3. CASE Next
  BY <1>1, <1>3, SpawnLinkPoolInv, QueueTaskPoolInv, ReturnPoolInv,
     StartThreadPoolInv, TakeTaskPoolInv, ExitPoolInv, LockEventPoolInv,
     TestReadyPoolInv, SleepPoolInv, SpuriousWakePoolInv, CallPoolInv,
     KernelDonePoolInv, KernelThrowPoolInv, StorePoolInv, NotifyPoolInv
  DEF Next, ThreadStep
<1> QED BY <1>2, <1>3

(* A party that has returned takes no step, and it returns when its        *)
(* threads have exited.                                                    *)
LEMMA OutcomeStep == TypeOK /\ OutcomeInv /\ [Next]_vars => OutcomeInv'
<1> SUFFICES ASSUME TypeOK, OutcomeInv, [Next]_vars PROVE OutcomeInv' OBVIOUS
<1> DEFINE Same(q) == outcome'[q] = outcome[q] /\ built'[q] = built[q] /\ pc'[q] = pc[q]
<1>1. CASE UNCHANGED vars BY <1>1 DEF vars, OutcomeInv
<1>2. ASSUME NEW p \in Parties, Return(p) PROVE OutcomeInv'
  BY <1>2 DEF Return, OutcomeInv, TypeOK
<1>3. ASSUME NEW p \in Parties, outcome[p] = "running", outcome'[p] # "returned",
             \A q \in Parties \ {p} : Same(q)
      PROVE  OutcomeInv'
  BY <1>3 DEF OutcomeInv
<1>4. ASSUME NEW p \in Parties, SpawnLink(p) \/ QueueTask(p) PROVE OutcomeInv'
  BY <1>3, <1>4 DEF SpawnLink, QueueTask, TypeOK
<1>5. ASSUME NEW p \in Parties, NEW t \in Threads,
             StartThread(p, t) \/ TakeTask(p, t) \/ Exit(p, t)
      PROVE  OutcomeInv'
  BY <1>3, <1>5 DEF StartThread, TakeTask, Exit, At, Goto, TypeOK
<1>6. ASSUME NEW p \in Parties, NEW t \in Threads,
             LockEvent(p, t) \/ TestReady(p, t) \/ Sleep(p, t) \/ SpuriousWake(p, t)
      PROVE  OutcomeInv'
  BY <1>3, <1>6 DEF LockEvent, TestReady, Sleep, SpuriousWake, At, Goto, TypeOK
<1>7. ASSUME NEW p \in Parties, NEW t \in Threads, Call(p, t) PROVE OutcomeInv'
  BY <1>3, <1>7 DEF Call, At, Goto, TypeOK
<1>8. ASSUME NEW p \in Parties, NEW t \in Threads,
             KernelDone(p, t) \/ KernelThrow(p, t)
      PROVE  OutcomeInv'
  BY <1>3, <1>8 DEF KernelDone, KernelThrow, At, Goto, TypeOK
<1>9. ASSUME NEW p \in Parties, NEW t \in Threads, Store(p, t) \/ Notify(p, t)
      PROVE  OutcomeInv'
  BY <1>3, <1>9 DEF Store, Notify, At, TypeOK
<1> QED BY <1>1, <1>2, <1>4, <1>5, <1>6, <1>7, <1>8, <1>9 DEF Next, ThreadStep

(* The invariant is inductive.                                             *)
THEOREM Invariance == Spec => []IInv
<1>1. Init => IInv BY InitPoolInv DEF IInv, Init, OutcomeInv
<1>2. IInv /\ [Next]_vars => IInv'
  BY PoolStep, OutcomeStep DEF IInv, PoolInv
<1> QED BY <1>1, <1>2, PTL DEF Spec

(* The state of the runner keeps its type.                                 *)
THEOREM TypeCorrect == Spec => []TypeOK
<1>1. IInv => TypeOK BY DEF IInv, PoolInv
<1> QED BY <1>1, Invariance, PTL

(* A kernel always finds what it looks up in the symbol scope, its nested  *)
(* regions' captures included.                                             *)
THEOREM InputsAlwaysPresent == Spec => []InputsPresent
<1>1. IInv => InputsPresent
  <2> SUFFICES ASSUME PoolInv, NEW p \in Parties, NEW t \in Threads,
                      pc[p][t] \in {"call", "kernel"}
               PROVE  Reads(task[p][t]) \subseteq scope[p]
    BY DEF IInv, InputsPresent
  <2>1. task[p][t] \in Ops BY HeldTask DEF PoolInv
  <2>2. CASE Operands[task[p][t]] = {}
    BY <2>1, <2>2, RegionAssumption DEF Reads
  <2>3. CASE Operands[task[p][t]] # {}
    <3>1. Ready(p, task[p][t])
      <4>1. CASE pc[p][t] = "call" BY <4>1, <2>3 DEF PoolInv, ReadyInv
      <4>2. CASE pc[p][t] = "kernel" BY <4>2, <2>3 DEF PoolInv, ReadyInv, StartedInv
      <4> QED BY <4>1, <4>2
    <3>2. Captured[task[p][t]] \subseteq ExtraDependencies(task[p][t])
      BY DEF ExtraDependencies
    <3> QED BY <3>1, <3>2 DEF Ready, Reads
  <2> QED BY <2>2, <2>3
<1> QED BY <1>1, Invariance, PTL

(* No thread sleeps through the moment its task becomes ready: whoever     *)
(* made it ready has yet to notify.                                        *)
THEOREM NoWakeupLost == Spec => []NoLostWakeup
<1>1. IInv => NoLostWakeup BY DEF IInv, PoolInv, WakeInv, NoLostWakeup
<1> QED BY <1>1, Invariance, PTL

(* A set of naturals that is not empty has a least element.                *)
LEMMA LeastNat ==
  ASSUME NEW S \in SUBSET Nat, S # {}
  PROVE  \E m \in S : \A n \in S : m <= n
<1> DEFINE R == OpToRel(<, Nat)
<1>1. PICK m \in S : \A n \in S : <<n, m>> \notin R
  <2>1. IsWellFoundedOn(R, Nat) BY NatLessThanWellFounded
  <2> HIDE DEF R
  <2> QED BY <2>1, WFMin
<1>2. \A n \in S : ~(n < m)
  BY <1>1 DEF OpToRel
<1> QED BY <1>2

(* An operation is ready at a party where the results of all earlier ones  *)
(* are in the scope.                                                       *)
LEMMA FirstIsReady ==
  ASSUME PoolInv, NEW p \in Parties, NEW o \in Ops,
         \A a \in 1 .. (o - 1) : Results[a] \subseteq scope[p]
  PROVE  Ready(p, o)
<1>1. Defined(1 .. (o - 1)) \subseteq scope[p] BY DEF Defined, PoolInv, ScopeInv
<1>2. Reads(o) \subseteq scope[p] BY <1>1, SSAAssumption
<1>3. \A b \in Barriers : b < o => Results[b] \subseteq scope[p]
  <2>1. Barriers \subseteq Ops BY ProgramAssumption DEF Barriers
  <2> QED BY <2>1, ProgramAssumption
<1> QED BY <1>2, <1>3 DEF Ready, ExtraDependencies, Reads

(* Of the threads that sleep, the one whose task was popped first would be *)
(* ready if there were nobody awake: the pool never sleeps as a whole.     *)
THEOREM PoolNeverSleeps == Spec => []PoolAwake
<1>1. IInv => PoolAwake
  <2> SUFFICES ASSUME PoolInv, NEW p \in Parties, NEW t \in Threads,
                      pc[p][t] = "asleep",
                      \A s \in Threads : pc[p][s] \in {"asleep", "exit"}
               PROVE  FALSE
    BY DEF IInv, PoolAwake
  <2> DEFINE held == {task[p][s] : s \in {r \in Threads : pc[p][r] = "asleep"}}
  <2>1. held \in SUBSET Nat /\ held # {} BY HeldTask, ProgramAssumption DEF PoolInv
  <2>2. PICK m \in held : \A n \in held : m <= n BY <2>1, LeastNat
  <2>3. PICK s \in Threads : pc[p][s] = "asleep" /\ task[p][s] = m
    BY <2>2
  <2>4. m \in Ops /\ m \in 1 .. Popped(p) BY <2>3, HeldTask DEF PoolInv, TaskInv
  <2>5. ASSUME NEW a \in 1 .. (m - 1) PROVE Results[a] \subseteq scope[p]
    <3>1. a \in Ops /\ a <= Popped(p) /\ a < m
      <4>1. Popped(p) \in Nat BY DEF PoolInv, TypeOK, QueueInv, Popped
      <4> QED BY <4>1, <2>4, ProgramAssumption
    <3>2. \A r \in Threads : task[p][r] # a
      <4>1. \A r \in Threads : pc[p][r] = "asleep" => task[p][r] # a
        BY <3>1, <2>2, <2>4
      <4>2. \A r \in Threads : pc[p][r] = "exit" => task[p][r] = 0
        BY DEF PoolInv, TaskInv
      <4> QED BY <4>1, <4>2, <3>1
    <3> QED BY <3>1, <3>2 DEF PoolInv, ProgressInv
  <2>6. Ready(p, m) BY <2>4, <2>5, FirstIsReady
  <2> QED BY <2>3, <2>6 DEF PoolInv, WakeInv
<1> QED BY <1>1, Invariance, PTL

(* Everything is evaluated, its results in the scope, where all threads    *)
(* have exited.                                                            *)
LEMMA ExitedIsDone ==
  ASSUME PoolInv, NEW p \in Parties, \A t \in Threads : pc[p][t] = "exit",
         built[p] = NumOps
  PROVE  /\ started[p] = Ops /\ Popped(p) = NumOps
         /\ \A o \in Ops : Results[o] \subseteq scope[p]
<1>1. queue[p] = <<>> BY ConcurrencyAssumption DEF PoolInv, QueueInv
<1>2. Popped(p) = NumOps BY <1>1, ProgramAssumption DEF Popped
<1>3. \A t \in Threads : task[p][t] = 0 BY DEF PoolInv, TaskInv
<1>4. \A o \in Ops : o \in started[p] /\ Results[o] \subseteq scope[p]
  BY <1>2, <1>3, ProgramAssumption DEF PoolInv, ProgressInv
<1> QED BY <1>2, <1>4 DEF PoolInv, StartedInv, TypeOK

(* Were every party waiting, the least of the operations that their        *)
(* threads hold would be ready at every party, and started everywhere.     *)
THEOREM PartiesNeverCross == Spec => []NoCrossWait
<1>1. IInv => NoCrossWait
  <2> SUFFICES ASSUME PoolInv, OutcomeInv,
                      \A p \in Parties : outcome[p] # "terminated" /\ built[p] = NumOps,
                      \E p \in Parties : outcome[p] = "running",
                      \A p \in Parties : outcome[p] = "running" =>
                        /\ \A t \in Threads : Blocked(p, t)
                        /\ \E t \in Threads : pc[p][t] # "exit"
               PROVE  FALSE
    BY DEF IInv, NoCrossWait
  <2> DEFINE Waits == {"asleep", "kernel"}
             held == {o \in Ops : \E p \in Parties, t \in Threads :
                                    /\ outcome[p] = "running"
                                    /\ pc[p][t] \in Waits /\ task[p][t] = o}
  <2>1. ASSUME NEW p \in Parties, outcome[p] = "running"
        PROVE  \E t \in Threads : pc[p][t] \in Waits /\ task[p][t] \in held
    <3>1. PICK t \in Threads : pc[p][t] \in Waits BY <2>1 DEF Blocked
    <3>2. task[p][t] \in Ops BY <3>1, HeldTask DEF PoolInv
    <3> QED BY <2>1, <3>1, <3>2
  <2>2. PICK m \in held : \A n \in held : m <= n
    <3>1. held \in SUBSET Nat BY ProgramAssumption
    <3>2. held # {} BY <2>1
    <3> HIDE DEF held
    <3> QED BY <3>1, <3>2, LeastNat
  <2>3. m \in Ops OBVIOUS
  <2>4. ASSUME NEW p \in Parties
        PROVE  m <= Popped(p) /\ Popped(p) \in Nat
    <3>1. Popped(p) \in Nat BY DEF PoolInv, TypeOK, QueueInv, Popped
    <3>2. CASE outcome[p] = "running"
      <4>1. PICK t \in Threads : pc[p][t] \in Waits /\ task[p][t] \in held
        BY <2>1, <3>2
      <4>2. task[p][t] \in 1 .. Popped(p) BY <4>1 DEF PoolInv, TaskInv
      <4> QED BY <2>2, <2>3, <3>1, <4>1, <4>2, ProgramAssumption
    <3>3. CASE outcome[p] = "returned"
      BY <3>1, <3>3, <2>3, ExitedIsDone, ProgramAssumption DEF OutcomeInv
    <3> QED BY <3>2, <3>3 DEF PoolInv, TypeOK
  <2>5. ASSUME NEW p \in Parties, NEW a \in 1 .. (m - 1)
        PROVE  Results[a] \subseteq scope[p]
    <3>1. a \in Ops /\ a <= Popped(p) /\ a < m
      BY <2>3, <2>4, ProgramAssumption
    <3>2. CASE outcome[p] = "running"
      <4>1. a \notin held BY <2>2, <2>3, <3>1, ProgramAssumption
      <4>2. ASSUME NEW t \in Threads, task[p][t] = a PROVE FALSE
        <5>1. pc[p][t] \in Holding BY <3>1, <4>2 DEF PoolInv, TaskInv
        <5>2. pc[p][t] \in Waits BY <3>2, <5>1 DEF Blocked
        <5> QED BY <3>1, <3>2, <4>1, <4>2, <5>2
      <4> QED BY <3>1, <4>2 DEF PoolInv, ProgressInv
    <3>3. CASE outcome[p] = "returned" BY <3>1, <3>3, ExitedIsDone DEF OutcomeInv
    <3> QED BY <3>2, <3>3 DEF PoolInv, TypeOK
  <2>6. \A p \in Parties : Ready(p, m) BY <2>3, <2>5, FirstIsReady
  <2>7. ASSUME NEW p \in Parties, NEW t \in Threads,
               outcome[p] = "running", task[p][t] = m
        PROVE  pc[p][t] = "kernel"
    <3>1. pc[p][t] \in Holding BY <2>3, <2>7 DEF PoolInv, TaskInv
    <3>2. pc[p][t] # "asleep"
      BY <2>6, <2>7 DEF PoolInv, WakeInv, Blocked
    <3> QED BY <2>7, <3>1, <3>2 DEF Blocked
  <2>8. ASSUME NEW p \in Parties PROVE m \in started[p]
    <3>1. CASE outcome[p] = "running"
      <4>1. CASE \E t \in Threads : task[p][t] = m
        BY <2>7, <3>1, <4>1 DEF PoolInv, StartedInv
      <4> QED BY <4>1, <2>3, <2>4 DEF PoolInv, ProgressInv
    <3>2. CASE outcome[p] = "returned" BY <2>3, <3>2, ExitedIsDone DEF OutcomeInv
    <3> QED BY <3>1, <3>2 DEF PoolInv, TypeOK
  <2>9. PICK p \in Parties, t \in Threads : outcome[p] = "running" /\ task[p][t] = m
    OBVIOUS
  <2> QED BY <2>7, <2>8, <2>9 DEF Blocked, PeersStarted
<1> QED BY <1>1, Invariance, PTL

----------------------------------------------------------------------------
(* The parallel runner implements BlockSpec.                               *)

(* What has started can be evaluated: its inputs come from complete        *)
(* kernels, and so do the results of the barriers it waited for.           *)
LEMMA StartedEvaluable ==
  ASSUME PoolInv, NEW p \in Parties, NEW o \in started[p]
  PROVE  /\ Reads(o) \subseteq Defined(Evaluated(p))
         /\ Operands[o] # {} =>
              \A b \in Barriers : b < o /\ Results[b] # {} => b \in Evaluated(p)
<1> DEFINE E == Evaluated(p)
<1>1. o \in Ops /\ E \subseteq Ops BY DEF PoolInv, TypeOK, Evaluated
<1>2. scope[p] \subseteq Defined(E) BY DEF PoolInv, ScopeInv, Defined
<1>3. Operands[o] # {} => Ready(p, o) BY DEF PoolInv, ReadyInv
<1> HIDE DEF E
<1>4. Reads(o) \subseteq Defined(E)
  <2>1. CASE Operands[o] = {} BY <1>1, <2>1, RegionAssumption DEF Reads
  <2>2. CASE Operands[o] # {}
    BY <1>2, <1>3, <2>2 DEF Ready, ExtraDependencies, Reads
  <2> QED BY <2>1, <2>2
<1>5. ASSUME Operands[o] # {}, NEW b \in Barriers, b < o, Results[b] # {}
      PROVE  b \in E
  <2>1. b \in Ops BY ProgramAssumption DEF Barriers
  <2>2. PICK v \in Results[b] : TRUE BY <1>5
  <2>3. v \in scope[p]
    BY <1>3, <1>5, <2>1, <2>2, ProgramAssumption DEF Ready, ExtraDependencies
  <2>4. v \notin Params BY <2>1, <2>2, SSAAssumption
  <2>5. PICK e \in E : v \in Results[e] BY <2>3, <2>4 DEF PoolInv, ScopeInv, E
  <2>6. e = b
    <3>1. e # b => v \in Defined(Ops \ {b}) BY <1>1, <2>5 DEF Defined
    <3> QED BY <3>1, <2>1, <2>2, SSAAssumption
  <2> QED BY <2>5, <2>6
<1> QED BY <1>4, <1>5 DEF E

LEMMA EvaluatedAt ==
  ASSUME NEW p \in Parties
  PROVE  [q \in Parties |-> Evaluated(q)][p] = Evaluated(p)
OBVIOUS

(* A step that completes no kernel and decides no outcome is a stutter.    *)
LEMMA StutterStep ==
  ASSUME UNCHANGED outcome, \A q \in Parties : Evaluated(q)' = Evaluated(q)
  PROVE  UNCHANGED Block!vars
BY DEF Block!vars

(* A thread that moves outside kernels, or begins one.                     *)
LEMMA ThreadStutter ==
  ASSUME PoolInv, NEW p \in Parties, NEW t \in Threads,
         \/ StartThread(p, t) \/ Exit(p, t) \/ LockEvent(p, t)
         \/ TestReady(p, t) \/ Sleep(p, t) \/ SpuriousWake(p, t)
  PROVE  UNCHANGED Block!vars
<1>1. UNCHANGED <<task, started, outcome>>
  BY DEF StartThread, Exit, LockEvent, TestReady, Sleep, SpuriousWake
<1>2. PICK l \in PCs \ {"kernel"} : pc[p][t] # "kernel" /\ Goto(p, t, l)
  BY DEF StartThread, Exit, LockEvent, TestReady, Sleep, SpuriousWake, At
<1>3. \A q \in Parties, s \in Threads : pc'[q][s] = "kernel" <=> pc[q][s] = "kernel"
  BY <1>2, GotoPc DEF PoolInv
<1> QED BY <1>1, <1>3, StutterStep DEF Evaluated

LEMMA TakeTaskStutter ==
  ASSUME PoolInv, NEW p \in Parties, NEW t \in Threads, TakeTask(p, t)
  PROVE  UNCHANGED Block!vars
<1>1. UNCHANGED <<started, outcome>> /\ pc[p][t] = "top" BY DEF TakeTask, At
<1>2. PICK l \in {"lock", "call"} : Goto(p, t, l) BY DEF TakeTask
<1>3. \A q \in Parties, s \in Threads :
        /\ pc'[q][s] = "kernel" <=> pc[q][s] = "kernel"
        /\ pc[q][s] = "kernel" => task'[q][s] = task[q][s]
  BY <1>1, <1>2, GotoPc DEF TakeTask, PoolInv, TypeOK
<1> QED BY <1>1, <1>3, StutterStep DEF Evaluated

LEMMA CallStutter ==
  ASSUME PoolInv, InputsPresent, NEW p \in Parties, NEW t \in Threads, Call(p, t)
  PROVE  UNCHANGED Block!vars
<1>1. /\ pc[p][t] = "call" /\ UNCHANGED <<task, outcome>> /\ Goto(p, t, "kernel")
      /\ started' = [started EXCEPT ![p] = @ \cup {task[p][t]}]
  BY DEF Call, At, InputsPresent
<1>2. \A q \in Parties, s \in Threads :
        pc'[q][s] = IF q = p /\ s = t THEN "kernel" ELSE pc[q][s]
  BY <1>1, GotoPc DEF PoolInv
<1>3. task[p][t] \notin started[p] BY <1>1 DEF PoolInv, StartedInv
<1>4. \A q \in Parties :
        started'[q] = IF q = p THEN started[q] \cup {task[p][t]} ELSE started[q]
  BY <1>1 DEF PoolInv, TypeOK
<1>5. ASSUME NEW q \in Parties PROVE Evaluated(q)' = Evaluated(q)
  <2>1. CASE q # p BY <2>1, <1>1, <1>2, <1>4 DEF Evaluated
  <2>2. CASE q = p BY <2>2, <1>1, <1>2, <1>3, <1>4 DEF Evaluated
  <2> QED BY <2>1, <2>2
<1> QED BY <1>1, <1>5, StutterStep

LEMMA NotifyStutter ==
  ASSUME PoolInv, NEW p \in Parties, NEW t \in Threads, Notify(p, t)
  PROVE  UNCHANGED Block!vars
<1>1. UNCHANGED <<started, outcome>> /\ pc[p][t] = "store" BY DEF Notify, At
<1>2. \A q \in Parties, s \in Threads :
        /\ pc'[q][s] = "kernel" <=> pc[q][s] = "kernel"
        /\ pc[q][s] = "kernel" => task'[q][s] = task[q][s]
  BY <1>1 DEF Notify, PoolInv, TypeOK
<1> QED BY <1>1, <1>2, StutterStep DEF Evaluated

(* A kernel that completes evaluates its operation, at a moment when every *)
(* party can if it takes all of them.                                      *)
LEMMA KernelDoneEvaluates ==
  ASSUME PoolInv, NEW p \in Parties, NEW t \in Threads, KernelDone(p, t)
  PROVE  Block!Next
<1> DEFINE o == task[p][t]
<1>1. /\ pc[p][t] = "kernel" /\ outcome[p] = "running"
      /\ UNCHANGED <<task, started, outcome>> /\ Goto(p, t, "store")
      /\ PeersStarted(o)
  BY DEF KernelDone, At
<1>2. o \in Ops /\ o \in started[p] BY <1>1, HeldTask DEF PoolInv, StartedInv
<1>3. \A q \in Parties, s \in Threads :
        pc'[q][s] = IF q = p /\ s = t THEN "store" ELSE pc[q][s]
  BY <1>1, GotoPc DEF PoolInv
<1>4. o \notin Evaluated(p) BY <1>1 DEF Evaluated
<1>5. \A s \in Threads : s # t => task[p][s] # o
  BY <1>1 DEF PoolInv, TaskInv
<1>6. Evaluated(p)' = Evaluated(p) \cup {o}
  BY <1>1, <1>2, <1>3, <1>5 DEF Evaluated
<1>7. \A q \in Parties \ {p} : Evaluated(q)' = Evaluated(q)
  BY <1>1, <1>3 DEF Evaluated
<1> HIDE DEF o
<1>8. ASSUME NEW q \in Parties, o \in started[q] PROVE Block!Evaluable(q, o)
  BY <1>2, <1>8, EvaluatedAt, StartedEvaluable
  DEF Block!Evaluable, Block!Reads, Block!Defined, Block!Barriers, Reads, Defined, Barriers
<1>9. [q \in Parties |-> Evaluated(q)]'
        = [[q \in Parties |-> Evaluated(q)] EXCEPT ![p] = @ \cup {o}]
  BY <1>6, <1>7
<1>10. Block!Evaluate(p, o)
  BY <1>1, <1>2, <1>4, <1>8, <1>9 DEF Block!Evaluate, PeersStarted
<1> QED BY <1>2, <1>10 DEF Block!Next, Block!Ops, Ops

LEMMA KernelThrowTerminates ==
  ASSUME PoolInv, NEW p \in Parties, NEW t \in Threads, KernelThrow(p, t)
  PROVE  Block!Next
<1> DEFINE o == task[p][t]
<1>1. /\ pc[p][t] = "kernel" /\ outcome[p] = "running"
      /\ UNCHANGED <<task, started, pc>>
      /\ outcome' = [outcome EXCEPT ![p] = "terminated"]
      /\ \/ o \in MayThrow
         \/ o \in Comm /\ \E q \in Parties : outcome[q] = "terminated"
  BY DEF KernelThrow, PeerGone, At
<1>2. o \in Ops \ Evaluated(p) BY <1>1, HeldTask DEF PoolInv, Evaluated
<1>3. \A q \in Parties : Evaluated(q)' = Evaluated(q) BY <1>1 DEF Evaluated
<1> HIDE DEF o
<1>4. Block!Terminate(p)
  BY <1>1, <1>2, <1>3, EvaluatedAt DEF Block!Terminate, Block!Ops, Ops
<1> QED BY <1>4 DEF Block!Next

LEMMA ReturnReturns ==
  ASSUME PoolInv, NEW p \in Parties, Return(p)
  PROVE  Block!Next
<1>1. started[p] = Ops /\ \A o \in Ops : Results[o] \subseteq scope[p]
  BY ExitedIsDone DEF Return
<1>2. Returned \subseteq scope[p]
  BY <1>1, SSAAssumption DEF Defined, PoolInv, ScopeInv
<1>3. Evaluated(p) = Ops BY <1>1 DEF Return, Evaluated
<1>4. \A q \in Parties : Evaluated(q)' = Evaluated(q) BY DEF Return, Evaluated
<1>5. Block!Return(p)
  BY <1>2, <1>3, <1>4, EvaluatedAt DEF Return, Block!Return, Block!Ops, Ops
<1> QED BY <1>5 DEF Block!Next

(* Every execution of the parallel runner is an execution of BlockSpec.    *)
THEOREM Implementation == Spec => ImplementsBlock
<1>1. Init => Block!Init
  BY DEF Init, Block!Init, Evaluated
<1>2. PoolInv /\ InputsPresent /\ [Next]_vars => [Block!Next]_(Block!vars)
  <2> SUFFICES ASSUME PoolInv, InputsPresent, [Next]_vars
               PROVE  Block!Next \/ UNCHANGED Block!vars
    OBVIOUS
  <2>1. CASE UNCHANGED vars BY <2>1, StutterStep DEF vars, Evaluated
  <2>2. ASSUME NEW p \in Parties, SpawnLink(p) \/ QueueTask(p)
        PROVE  UNCHANGED Block!vars
    BY <2>2, StutterStep DEF SpawnLink, QueueTask, Evaluated
  <2>3. ASSUME NEW p \in Parties, NEW t \in Threads, Store(p, t)
        PROVE  UNCHANGED Block!vars
    BY <2>3, StutterStep DEF Store, Evaluated
  <2> QED
    BY <2>1, <2>2, <2>3, ThreadStutter, TakeTaskStutter, CallStutter, NotifyStutter,
       KernelDoneEvaluates, KernelThrowTerminates, ReturnReturns
    DEF Next, ThreadStep
<1>3. IInv => PoolInv BY DEF IInv
<1> QED
  BY <1>1, <1>2, <1>3, Invariance, InputsAlwaysPresent, PTL
  DEF Spec, ImplementsBlock, Block!Spec
=============================================================================
