------------------------------ MODULE Program ------------------------------
(***************************************************************************)
(* A pphlo block as the executor sees it: a list of operations in program  *)
(* order, the SSA values they read and define, and what the scheduler      *)
(* knows of them.  Every specification of block execution extends this     *)
(* module.                                                                 *)
(***************************************************************************)
EXTENDS Integers, FiniteSets

CONSTANTS
  NumOps,     \* number of operations of the block, the terminator left out
  Values,     \* SSA values of the block
  Params,     \* block arguments, put in the scope before the block runs
  Operands,   \* Operands[o]: values operation o takes as operands
  Captured,   \* Captured[o]: values of this region that o's nested regions use
  Results,    \* Results[o]: values operation o defines
  SideEffect, \* operations whose attribute has_side_effect is true
  DbgPrint,   \* custom calls to DBG_PRINT
  Frees,      \* pphlo.free operations
  Comm,       \* operations whose kernel exchanges messages with the peers
  MayThrow,   \* operations whose kernel may throw
  Returned    \* operands of the terminator

Ops == 1 .. NumOps

(* What a kernel looks up: its operands, and through the scopes of the     *)
(* nested regions the values they capture.                                 *)
Reads(o) == Operands[o] \cup Captured[o]

(* Values defined by the parameters or by the operations of S.             *)
Defined(S) == Params \cup UNION {Results[o] : o \in S}

(* The operations every later one waits for: those that the loop that      *)
(* builds the tasks adds to extra_dependencies.                            *)
Barriers == SideEffect \ DbgPrint

(* Mutants: the values nested regions capture, or the barriers, forgotten. *)
ExtraDependenciesUncaptured(o) ==
  {v \in Values : \E b \in Barriers : b < o /\ v \in Results[b]}

ExtraDependenciesUnordered(o) == Captured[o]

(* extra_dependencies of the task of o: the results of the barriers before *)
(* it in program order, then the values its nested regions capture.        *)
ExtraDependencies(o) ==
  {v \in Values : \E b \in Barriers : b < o /\ v \in Results[b]} \cup Captured[o]

(* Mutant: the test of do_parallel inverted.                               *)
ErasedInverted(o, doParallel) ==
  IF o \in Frees /\ doParallel THEN Operands[o] ELSE {}

(* What the kernel of o takes out of the scope: pphlo.free erases its      *)
(* operand, unless operations run in parallel.                             *)
Erased(o, doParallel) ==
  IF o \in Frees /\ ~doParallel THEN Operands[o] ELSE {}

ASSUME ProgramAssumption ==
  /\ NumOps \in Nat
  /\ Params \subseteq Values
  /\ Operands \in [Ops -> SUBSET Values]
  /\ Captured \in [Ops -> SUBSET Values]
  /\ Results  \in [Ops -> SUBSET Values]
  /\ SideEffect \subseteq Ops
  /\ DbgPrint \subseteq Ops
  /\ Frees \subseteq Ops
  /\ Comm \subseteq Ops
  /\ MayThrow \subseteq Ops

(* MLIR's verifier: a value is defined once, before its uses.              *)
ASSUME SSAAssumption ==
  /\ \A o \in Ops : Reads(o) \subseteq Defined(1 .. (o - 1))
  /\ \A o \in Ops : Results[o] \cap Defined(Ops \ {o}) = {}
  /\ \A o \in Ops : Results[o] \cap Params = {}
  /\ Returned \subseteq Defined(Ops)

(* The operations with regions (if, while, case, sort, reduce, ...) all    *)
(* take operands.  A task without operands never waits, so the code relies *)
(* on it.                                                                  *)
ASSUME RegionAssumption ==
  \A o \in Ops : Operands[o] = {} => Captured[o] = {}

(* The deallocation pass frees a value after its last use, and never one   *)
(* that the terminator returns; a free defines and sends nothing.          *)
ASSUME FreeAssumption ==
  \A f \in Frees :
    /\ Results[f] = {} /\ Captured[f] = {} /\ f \notin Comm
    /\ \A v \in Operands[f] :
         v \notin Returned /\ \A o \in Ops : v \in Reads(o) => o <= f
=============================================================================
