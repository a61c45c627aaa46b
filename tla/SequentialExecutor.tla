------------------------- MODULE SequentialExecutor ------------------------
(***************************************************************************)
(* runBlock (device/executor.cc): each party runs the kernels of a block   *)
(* one by one, in program order, on its own scope; pphlo.free takes values *)
(* out of the scope.  The kernel of an operation in Comm cannot complete   *)
(* before every party has begun it.                                        *)
(***************************************************************************)
EXTENDS Program

CONSTANT Parties

VARIABLES
  next,     \* next[p]: the operation that p runs, or runs next
  scope,    \* scope[p]: values in the symbol scope
  started,  \* started[p]: operations whose kernel has begun
  outcome   \* outcome[p]: what has become of the run of the block

vars == <<next, scope, started, outcome>>

Init ==
  /\ next = [p \in Parties |-> 1]
  /\ scope = [p \in Parties |-> Params]
  /\ started = [p \in Parties |-> {}]
  /\ outcome = [p \in Parties |-> "running"]

InKernel(p) == next[p] \in started[p]

(* The kernel looks its inputs up; a value that is not there throws.       *)
Call(p) ==
  /\ outcome[p] = "running"
  /\ next[p] \in Ops /\ ~InKernel(p)
  /\ \/ /\ Reads(next[p]) \subseteq scope[p]
        /\ started' = [started EXCEPT ![p] = @ \cup {next[p]}]
        /\ UNCHANGED outcome
     \/ /\ ~(Reads(next[p]) \subseteq scope[p])
        /\ outcome' = [outcome EXCEPT ![p] = "terminated"]
        /\ UNCHANGED started
  /\ UNCHANGED <<next, scope>>

PeersStarted(o) == o \in Comm => \A q \in Parties : o \in started[q]

(* Mutant: values are freed as soon as they are defined.                   *)
KernelDoneEager(p) ==
  /\ outcome[p] = "running" /\ InKernel(p)
  /\ PeersStarted(next[p])
  /\ scope' = [scope EXCEPT ![p] =
                 (@ \cup Results[next[p]]) \ UNION {Operands[f] : f \in Frees}]
  /\ next' = [next EXCEPT ![p] = @ + 1]
  /\ UNCHANGED <<started, outcome>>

KernelDone(p) ==
  /\ outcome[p] = "running" /\ InKernel(p)
  /\ PeersStarted(next[p])
  /\ scope' = [scope EXCEPT ![p] = (@ \cup Results[next[p]]) \ Erased(next[p], FALSE)]
  /\ next' = [next EXCEPT ![p] = @ + 1]
  /\ UNCHANGED <<started, outcome>>

(* Mutant: links without a timeout.                                        *)
KernelThrowUntimed(p) ==
  /\ outcome[p] = "running" /\ InKernel(p)
  /\ next[p] \in MayThrow
  /\ outcome' = [outcome EXCEPT ![p] = "terminated"]
  /\ UNCHANGED <<next, scope, started>>

(* A peer is lost before it has sent its messages for operation o.         *)
PeerGone(o) ==
  /\ o \in Comm
  /\ \E q \in Parties : outcome[q] = "terminated" /\ o \notin started[q]

(* The kernel throws, or waits on a link whose other end is gone.          *)
KernelThrow(p) ==
  /\ outcome[p] = "running" /\ InKernel(p)
  /\ next[p] \in MayThrow \/ PeerGone(next[p])
  /\ outcome' = [outcome EXCEPT ![p] = "terminated"]
  /\ UNCHANGED <<next, scope, started>>

(* Mutant: the loop stops one operation early.                             *)
ReturnEarly(p) ==
  /\ outcome[p] = "running" /\ next[p] = NumOps
  /\ outcome' = [outcome EXCEPT ![p] =
                   IF Returned \subseteq scope[p] THEN "returned" ELSE "terminated"]
  /\ UNCHANGED <<next, scope, started>>

(* The terminator's operands are looked up.                                *)
Return(p) ==
  /\ outcome[p] = "running" /\ next[p] = NumOps + 1
  /\ outcome' = [outcome EXCEPT ![p] =
                   IF Returned \subseteq scope[p] THEN "returned" ELSE "terminated"]
  /\ UNCHANGED <<next, scope, started>>

Step(p) == Call(p) \/ KernelDone(p) \/ KernelThrow(p) \/ Return(p)

Next == \E p \in Parties : Step(p)

Spec == Init /\ [][Next]_vars

(* The calling thread runs; a link times out when its other end is gone,   *)
(* but a kernel that may throw need not.                                   *)
Fairness ==
  \A p \in Parties :
    WF_vars(\/ Call(p) \/ KernelDone(p) \/ Return(p)
            \/ PeerGone(next[p]) /\ KernelThrow(p))

----------------------------------------------------------------------------
(* Type correctness of the state.                                          *)
TypeOK ==
  /\ next \in [Parties -> 1 .. NumOps + 1]
  /\ scope \in [Parties -> SUBSET Values]
  /\ started \in [Parties -> SUBSET Ops]
  /\ outcome \in [Parties -> {"running", "returned", "terminated"}]

(* The scope is exactly what the rest of the block may still read (and     *)
(* what nobody frees): a free takes values away after their last reader,   *)
(* and then they are gone.                                                 *)
FreedBefore(n) == UNION {Operands[f] : f \in {f \in Frees : f < n}}

ScopeExact ==
  \A p \in Parties :
    scope[p] = Defined(1 .. (next[p] - 1)) \ FreedBefore(next[p])

(* SymbolScope::lookupValue never throws in runBlock: pphlo.free never     *)
(* takes a value that a later operation, a nested region or the terminator *)
(* looks up.                                                               *)
NoUseAfterFree ==
  \A p \in Parties :
    /\ next[p] \in Ops /\ outcome[p] # "terminated" => Reads(next[p]) \subseteq scope[p]
    /\ next[p] = NumOps + 1 => Returned \subseteq scope[p]

StartedInv ==
  \A p \in Parties :
    \/ started[p] = 1 .. (next[p] - 1)
    \/ next[p] \in Ops /\ started[p] = 1 .. next[p]

OutcomeInv == \A p \in Parties : outcome[p] = "returned" => next[p] = NumOps + 1

IInv == TypeOK /\ ScopeExact /\ StartedInv /\ OutcomeInv

Block == INSTANCE BlockSpec
           WITH evaluated <- [p \in Parties |-> 1 .. (next[p] - 1)]

(* The sequential runner does what BlockSpec promises, like the parallel   *)
(* one.                                                                    *)
ImplementsBlock == Block!Spec

(* Every party's run of the block ends.                                    *)
Settles == \A p \in Parties : <>(outcome[p] # "running")
=============================================================================
