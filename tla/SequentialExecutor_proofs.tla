---------------------- MODULE SequentialExecutor_proofs --------------------
(***************************************************************************)
(* Proofs about runBlock: the scope holds exactly what has been defined    *)
(* and not freed, hence no kernel misses a value, and the runner           *)
(* implements BlockSpec.                                                   *)
(***************************************************************************)
EXTENDS SequentialExecutor, TLAPS

LEMMA OpsFacts ==
  /\ NumOps \in Nat
  /\ Ops = 1 .. NumOps
  /\ \A n \in 1 .. (NumOps + 1) : (n \in Ops) \/ (n = NumOps + 1)
  /\ \A n \in Ops : /\ n + 1 \in 1 .. (NumOps + 1)
                    /\ (1 .. (n - 1)) \cup {n} = 1 .. n
                    /\ n \notin 1 .. (n - 1)
                    /\ (n + 1) - 1 = n
BY ProgramAssumption DEF Ops

(* The values of a block, as sets of values.                               *)
LEMMA ValuesFacts ==
  ASSUME NEW S \in SUBSET Ops, NEW o \in Ops
  PROVE  /\ Defined(S) \subseteq Values
         /\ Defined(S \cup {o}) = Defined(S) \cup Results[o]
         /\ Results[o] \cap Operands[o] = {}
<1>1. Defined(S) \subseteq Values BY ProgramAssumption DEF Defined
<1>2. Defined(S \cup {o}) = Defined(S) \cup Results[o] BY DEF Defined
<1>3. Operands[o] \subseteq Defined(1 .. (o - 1)) BY SSAAssumption DEF Reads
<1>4. 1 .. (o - 1) \subseteq Ops \ {o} BY OpsFacts
<1>5. Defined(1 .. (o - 1)) \subseteq Defined(Ops \ {o}) BY <1>4 DEF Defined
<1> QED BY <1>1, <1>2, <1>3, <1>5, SSAAssumption

(* What an operation frees was defined before it, and what it defines was  *)
(* freed by nobody before it.                                              *)
LEMMA FreedStep ==
  ASSUME NEW o \in Ops
  PROVE  /\ FreedBefore(o + 1) = FreedBefore(o) \cup Erased(o, FALSE)
         /\ Results[o] \cap FreedBefore(o) = {}
         /\ Results[o] \cap Erased(o, FALSE) = {}
<1>1. \A f \in Frees : f \in Ops /\ (f < o + 1 <=> f < o \/ f = o)
  BY ProgramAssumption, OpsFacts
<1>2. FreedBefore(o + 1) = FreedBefore(o) \cup Erased(o, FALSE)
  BY <1>1 DEF FreedBefore, Erased
<1>3. ASSUME NEW f \in Frees, f < o PROVE Operands[f] \cap Results[o] = {}
  <2>1. f \in Ops BY <1>1
  <2>2. Operands[f] \subseteq Defined(1 .. (f - 1)) BY <2>1, SSAAssumption DEF Reads
  <2>3. 1 .. (f - 1) \subseteq Ops \ {o} BY <2>1, <1>3, OpsFacts
  <2>4. Defined(1 .. (f - 1)) \subseteq Defined(Ops \ {o}) BY <2>3 DEF Defined
  <2> QED BY <2>2, <2>4, SSAAssumption
<1>4. Results[o] \cap FreedBefore(o) = {} BY <1>3 DEF FreedBefore
<1>5. Results[o] \cap Operands[o] = {} BY ValuesFacts
<1> QED BY <1>2, <1>4, <1>5 DEF Erased

(* What is still to be read has not been freed.                            *)
LEMMA ReadsKept ==
  ASSUME IInv, NEW p \in Parties
  PROVE  /\ next[p] \in Ops => Reads(next[p]) \subseteq scope[p]
         /\ next[p] = NumOps + 1 => Returned \subseteq scope[p]
<1>1. scope[p] = Defined(1 .. (next[p] - 1)) \ FreedBefore(next[p])
  BY DEF IInv, ScopeExact
<1>2. ASSUME next[p] \in Ops PROVE Reads(next[p]) \subseteq scope[p]
  <2>1. Reads(next[p]) \subseteq Defined(1 .. (next[p] - 1)) BY <1>2, SSAAssumption
  <2>2. ASSUME NEW v \in Reads(next[p]), NEW f \in Frees, f < next[p]
        PROVE  v \notin Operands[f]
    BY <1>2, <2>2, FreeAssumption, ProgramAssumption, OpsFacts
  <2> QED BY <1>1, <2>1, <2>2 DEF FreedBefore
<1>3. ASSUME next[p] = NumOps + 1 PROVE Returned \subseteq scope[p]
  <2>1. Returned \subseteq Defined(Ops) BY SSAAssumption
  <2>2. 1 .. (next[p] - 1) = Ops BY <1>3, OpsFacts
  <2> QED BY <1>1, <2>1, <2>2, FreeAssumption DEF FreedBefore
<1> QED BY <1>2, <1>3

LEMMA InitInvariant == Init => IInv
<1> SUFFICES ASSUME Init PROVE IInv OBVIOUS
<1>1. 1 .. (1 - 1) = {} OBVIOUS
<1>2. FreedBefore(1) = {}
  <2>1. \A f \in Frees : ~(f < 1) BY ProgramAssumption, OpsFacts
  <2> QED BY <2>1 DEF FreedBefore
<1>3. Defined({}) = Params BY DEF Defined
<1>4. TypeOK BY OpsFacts, ProgramAssumption DEF Init, TypeOK
<1>5. ScopeExact BY <1>1, <1>2, <1>3 DEF Init, ScopeExact
<1>6. StartedInv BY <1>1 DEF Init, StartedInv
<1> QED BY <1>4, <1>5, <1>6 DEF Init, IInv, OutcomeInv

LEMMA CallInvariant ==
  ASSUME IInv, NEW p \in Parties, Call(p)
  PROVE  IInv'
<1>1. /\ next[p] \in Ops /\ next[p] \notin started[p]
      /\ UNCHANGED <<next, scope, outcome>>
      /\ started' = [started EXCEPT ![p] = @ \cup {next[p]}]
  BY ReadsKept DEF Call, InKernel
<1>2. TypeOK' BY <1>1 DEF IInv, TypeOK
<1>3. started[p] = 1 .. (next[p] - 1)
  BY <1>1, OpsFacts DEF IInv, StartedInv
<1>4. \A q \in Parties :
        started'[q] = IF q = p THEN 1 .. next[p] ELSE started[q]
  <2>1. started[p] \cup {next[p]} = 1 .. next[p] BY <1>1, <1>3, OpsFacts
  <2> QED BY <1>1, <2>1 DEF IInv, TypeOK
<1>5. StartedInv' BY <1>1, <1>4 DEF IInv, StartedInv
<1> QED BY <1>1, <1>2, <1>5 DEF IInv, ScopeExact, OutcomeInv

(* A kernel is in progress only within the block, and its predecessors'    *)
(* are complete.                                                           *)
LEMMA KernelInProgress ==
  ASSUME IInv, NEW p \in Parties, InKernel(p)
  PROVE  next[p] \in Ops /\ started[p] = 1 .. next[p]
<1>1. next[p] \in Ops BY DEF IInv, TypeOK, InKernel
<1> QED BY <1>1, OpsFacts DEF IInv, StartedInv, InKernel

LEMMA KernelDoneInvariant ==
  ASSUME IInv, NEW p \in Parties, KernelDone(p)
  PROVE  IInv'
<1> DEFINE o == next[p]
<1>1. /\ outcome[p] = "running" /\ UNCHANGED <<started, outcome>>
      /\ next' = [next EXCEPT ![p] = @ + 1]
      /\ scope' = [scope EXCEPT ![p] = (@ \cup Results[o]) \ Erased(o, FALSE)]
  BY DEF KernelDone
<1>2. o \in Ops /\ started[p] = 1 .. o BY KernelInProgress DEF KernelDone
<1>3. TypeOK' BY <1>1, <1>2, OpsFacts, ProgramAssumption DEF IInv, TypeOK
<1>4. \A q \in Parties : next'[q] = IF q = p THEN o + 1 ELSE next[q]
  BY <1>1 DEF IInv, TypeOK
<1>5. \A q \in Parties :
        scope'[q] = IF q = p THEN (scope[p] \cup Results[o]) \ Erased(o, FALSE)
                    ELSE scope[q]
  BY <1>1 DEF IInv, TypeOK
<1>6. ScopeExact'
  <2>1. scope[p] = Defined(1 .. (o - 1)) \ FreedBefore(o) BY DEF IInv, ScopeExact
  <2>2. 1 .. (o - 1) \in SUBSET Ops BY <1>2, OpsFacts
  <2>3. Defined(1 .. o) = Defined(1 .. (o - 1)) \cup Results[o]
    BY <1>2, <2>2, ValuesFacts, OpsFacts
  <2>4. scope'[p] = Defined(1 .. o) \ FreedBefore(o + 1)
    <3>1. scope'[p] = (scope[p] \cup Results[o]) \ Erased(o, FALSE) BY <1>5
    <3> QED BY <1>2, <2>1, <2>3, <3>1, FreedStep
  <2>5. (o + 1) - 1 = o BY <1>2, OpsFacts
  <2>6. ASSUME NEW q \in Parties
        PROVE  scope'[q] = Defined(1 .. (next'[q] - 1)) \ FreedBefore(next'[q])
    BY <1>4, <1>5, <2>4, <2>5 DEF IInv, ScopeExact
  <2> QED BY <2>6 DEF ScopeExact, Defined, FreedBefore
<1>7. StartedInv' BY <1>1, <1>2, <1>4, OpsFacts DEF IInv, StartedInv
<1>8. OutcomeInv' BY <1>1, <1>4 DEF IInv, OutcomeInv
<1> QED BY <1>3, <1>6, <1>7, <1>8 DEF IInv

LEMMA StepInvariant == IInv /\ [Next]_vars => IInv'
<1> SUFFICES ASSUME IInv, [Next]_vars PROVE IInv' OBVIOUS
<1>1. CASE UNCHANGED vars
  BY <1>1 DEF vars, IInv, TypeOK, ScopeExact, StartedInv, OutcomeInv
<1>2. ASSUME NEW p \in Parties, KernelThrow(p) \/ Return(p) PROVE IInv'
  <2>1. UNCHANGED <<next, scope, started>> BY <1>2 DEF KernelThrow, Return
  <2>2. TypeOK' BY <1>2, <2>1 DEF IInv, TypeOK, KernelThrow, Return
  <2>3. OutcomeInv' BY <1>2, <2>1 DEF IInv, TypeOK, OutcomeInv, KernelThrow, Return
  <2> QED BY <2>1, <2>2, <2>3 DEF IInv, ScopeExact, StartedInv
<1> QED BY <1>1, <1>2, CallInvariant, KernelDoneInvariant DEF Next, Step

(* The scope, the progress and the outcome of every party stay consistent. *)
THEOREM Invariance == Spec => []IInv
BY InitInvariant, StepInvariant, PTL DEF Spec

(* runBlock never looks up a value that has been freed.                    *)
THEOREM NeverUsedAfterFree == Spec => []NoUseAfterFree
<1>1. IInv => NoUseAfterFree BY ReadsKept DEF NoUseAfterFree
<1> QED BY <1>1, Invariance, PTL

----------------------------------------------------------------------------
(* The refinement.                                                         *)

LEMMA EvaluatedAt ==
  ASSUME NEW p \in Parties
  PROVE  [q \in Parties |-> 1 .. (next[q] - 1)][p] = 1 .. (next[p] - 1)
OBVIOUS

(* What has started can be evaluated: all before it is complete.           *)
LEMMA StartedEvaluable ==
  ASSUME IInv, NEW p \in Parties, NEW o \in started[p]
  PROVE  Block!Evaluable(p, o)
<1>1. o \in Ops /\ o \in 1 .. next[p] BY OpsFacts DEF IInv, TypeOK, StartedInv
<1>2. 1 .. (o - 1) \subseteq 1 .. (next[p] - 1)
  BY <1>1, OpsFacts DEF IInv, TypeOK
<1>3. Reads(o) \subseteq Defined(1 .. (next[p] - 1))
  BY <1>1, <1>2, SSAAssumption DEF Defined
<1>4. \A b \in Barriers : b < o => b \in 1 .. (next[p] - 1)
  BY <1>1, <1>2, ProgramAssumption, OpsFacts DEF Barriers
<1> QED
  BY <1>3, <1>4, EvaluatedAt
  DEF Block!Evaluable, Block!Reads, Block!Defined, Block!Barriers, Reads, Defined, Barriers

LEMMA KernelDoneEvaluates ==
  ASSUME IInv, NEW p \in Parties, KernelDone(p)
  PROVE  Block!Next
<1>1. next[p] \in Ops /\ started[p] = 1 .. next[p]
  BY KernelInProgress DEF KernelDone
<1>2. PICK o \in Ops : o = next[p] BY <1>1
<1>3. /\ outcome[p] = "running" /\ UNCHANGED <<started, outcome>>
      /\ next' = [next EXCEPT ![p] = @ + 1]
      /\ PeersStarted(o)
  BY <1>2 DEF KernelDone
<1>4. o \in started[p] /\ o \notin 1 .. (o - 1) BY <1>1, <1>2, OpsFacts
<1>5. \A q \in Parties : next'[q] = IF q = p THEN o + 1 ELSE next[q]
  BY <1>2, <1>3 DEF IInv, TypeOK
<1>6. 1 .. ((o + 1) - 1) = (1 .. (o - 1)) \cup {o} BY OpsFacts
<1>7. [q \in Parties |-> 1 .. (next[q] - 1)]'
        = [[q \in Parties |-> 1 .. (next[q] - 1)] EXCEPT ![p] = @ \cup {o}]
  BY <1>2, <1>5, <1>6
<1>8. \A q \in Parties : o \in started[q] => Block!Evaluable(q, o)
  BY StartedEvaluable
<1>9. Block!Evaluate(p, o)
  BY <1>2, <1>3, <1>4, <1>7, <1>8, EvaluatedAt DEF Block!Evaluate, PeersStarted
<1> QED BY <1>9 DEF Block!Next, Block!Ops, Ops

LEMMA KernelThrowTerminates ==
  ASSUME IInv, NEW p \in Parties, KernelThrow(p)
  PROVE  Block!Next
<1>1. /\ outcome[p] = "running" /\ UNCHANGED next
      /\ outcome' = [outcome EXCEPT ![p] = "terminated"]
      /\ \/ next[p] \in MayThrow
         \/ next[p] \in Comm /\ \E q \in Parties : outcome[q] = "terminated"
  BY DEF KernelThrow, PeerGone
<1>2. next[p] \in Ops \ (1 .. (next[p] - 1))
  BY KernelInProgress, OpsFacts DEF KernelThrow
<1>3. Block!Terminate(p)
  BY <1>1, <1>2, EvaluatedAt DEF Block!Terminate, Block!Ops, Ops
<1> QED BY <1>3 DEF Block!Next

LEMMA ReturnReturns ==
  ASSUME IInv, NEW p \in Parties, Return(p)
  PROVE  Block!Next
<1>1. /\ outcome[p] = "running" /\ UNCHANGED next
      /\ outcome' = [outcome EXCEPT ![p] = "returned"]
  BY ReadsKept DEF Return
<1>2. 1 .. (next[p] - 1) = Ops BY OpsFacts DEF Return
<1>3. Block!Return(p)
  BY <1>1, <1>2, EvaluatedAt DEF Block!Return, Block!Ops, Ops
<1> QED BY <1>3 DEF Block!Next

(* Every execution of runBlock is an execution of BlockSpec.               *)
THEOREM Implementation == Spec => ImplementsBlock
<1>1. Init => Block!Init
  <2>1. 1 .. (1 - 1) = {} OBVIOUS
  <2> QED BY <2>1 DEF Init, Block!Init
<1>2. IInv /\ [Next]_vars => [Block!Next]_(Block!vars)
  <2> SUFFICES ASSUME IInv, [Next]_vars PROVE Block!Next \/ UNCHANGED Block!vars
    OBVIOUS
  <2>1. CASE UNCHANGED vars BY <2>1 DEF vars, Block!vars
  <2>2. ASSUME NEW p \in Parties, Call(p) PROVE UNCHANGED Block!vars
    BY <2>2, ReadsKept DEF Call, Block!vars
  <2> QED
    BY <2>1, <2>2, KernelDoneEvaluates, KernelThrowTerminates, ReturnReturns
    DEF Next, Step
<1> QED BY <1>1, <1>2, Invariance, PTL DEF Spec, ImplementsBlock, Block!Spec
=============================================================================
