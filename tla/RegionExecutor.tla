--------------------------- MODULE RegionExecutor --------------------------
(***************************************************************************)
(* runRegion and runBlock (device/executor.cc) on a function with nested   *)
(* regions, after the deallocation pass.  The kernel of an operation that  *)
(* has regions runs them in an order of its own: if runs one branch, or    *)
(* both when its condition is secret; while runs its condition and its     *)
(* body in turn; sort, reduce and the like run their regions as often as   *)
(* they need.  Each run of a region has a new scope, whose parent is the   *)
(* scope of the block that runs the operation.                             *)
(***************************************************************************)
EXTENDS Deallocation, Sequences, SequencesExt, FiniteSetsExt

CONSTANT Functions  \* the functions to run, records as in Deallocation, with
                    \* F.kind[o] \in {"plain", "if", "while", "apply"}

(* A use at position u of block b, 0 if the block does not enclose it, of  *)
(* a value that the block defines before.                                  *)
DefinedBefore(F, v, b, u) ==
  /\ u # 0
  /\ v = Arg(b) \/ (v \in OpsOf(F) /\ F.block[v] = b /\ v < u)

(* What MLIR's verifier guarantees of a function: an operation comes after *)
(* the one that has it in a region, a while has regions, and a definition  *)
(* dominates every use of its value.                                       *)
WellFormed(F) ==
  /\ F.size \in Nat
  /\ IsFiniteSet(BlocksOf(F)) /\ BlocksOf(F) = 0 .. Cardinality(BlocksOf(F)) - 1
  /\ 0 \in BlocksOf(F)
  /\ F.block \in [OpsOf(F) -> BlocksOf(F)]
  /\ \A b \in BlocksOf(F) \ {0} : F.owner[b] \in OpsOf(F)
  /\ \A o \in OpsOf(F) : F.block[o] # 0 => F.owner[F.block[o]] < o
  /\ F.kind \in [OpsOf(F) -> {"plain", "if", "while", "apply"}]
  /\ \A o \in OpsOf(F) :
       F.kind[o] = "while" => \E b \in BlocksOf(F) \ {0} : F.owner[b] = o
  /\ \A o \in OpsOf(F) : \A v \in F.operands[o] :
       \E b \in BlocksOf(F) : DefinedBefore(F, v, b, AncestorIn(F, o, b))
  /\ \A c \in BlocksOf(F) : \A v \in F.yields[c] :
       \E b \in BlocksOf(F) : DefinedBefore(F, v, b, TerminatorIn(F, c, b))

ASSUME FunctionsAssumption == \A F \in Functions : WellFormed(F)

VARIABLES
  fn,     \* the function that is run
  stack,  \* the regions being run, outermost first
  status  \* "running", "returned", "missing" or "refused"

vars == <<fn, stack, status>>

(* runRegion: a region about to run its first operation.  region is the    *)
(* region of that operation that runs, 0 if none does.                     *)
First(F, b, o) == Min({x \in OpsOf(F) : F.block[x] = b /\ x > o} \cup {End(F)})

Frame(F, b) ==
  [block |-> b, at |-> First(F, b, 0), region |-> 0, scope |-> {Arg(b)}]

Init ==
  /\ fn \in Functions
  /\ stack = <<Frame(fn, 0)>>
  /\ status = "running"

Top == Last(stack)

(* lookupValue: in this scope or in a parent's.                            *)
Visible(v) == \E i \in DOMAIN stack : v \in stack[i].scope

RegionsOf(o) == {b \in BlocksOf(fn) \ {0} : fn.owner[b] = o}

(* The regions that may run after region b of o (0: none has yet).  The    *)
(* value 0 means that the kernel is complete.                              *)
After(o, b) ==
  LET r == RegionsOf(o) IN
  CASE fn.kind[o] = "plain" -> {0}
    [] fn.kind[o] = "if"    -> IF b = 0 THEN r ELSE {x \in r : x > b} \cup {0}
    [] fn.kind[o] = "while" -> IF b = 0 THEN {Min(r)}
                               ELSE IF b = Min(r) THEN {Max(r), 0} ELSE {Min(r)}
    [] fn.kind[o] = "apply" -> r \cup {0}

(* The kernel of o goes on after region b: it runs another region, or adds *)
(* its result, and the frees that follow it take effect on this scope.     *)
Continue(frames, o, b) ==
  LET f == Last(frames)
      below == Front(frames)
  IN \E n \in After(o, b) :
       IF n # 0
       THEN stack' = below \o <<[f EXCEPT !.region = n], Frame(fn, n)>>
       ELSE stack' = Append(below,
              [f EXCEPT !.at = First(fn, f.block, o), !.region = 0,
                        !.scope = (@ \cup {o}) \ FreedAfter(fn, o)])

(* The next operation of the innermost region looks its operands up.       *)
Call ==
  /\ status = "running" /\ Top.at \in OpsOf(fn)
  /\ IF \A v \in fn.operands[Top.at] : Visible(v)
     THEN Continue(stack, Top.at, 0) /\ UNCHANGED status
     ELSE status' = "missing" /\ UNCHANGED stack
  /\ UNCHANGED fn

(* The terminator of the innermost region looks its operands up; control   *)
(* goes back to the kernel that runs the region.                           *)
Yield ==
  /\ status = "running" /\ Top.at = End(fn)
  /\ IF \A v \in fn.yields[Top.block] : Visible(v)
     THEN IF Len(stack) = 1
          THEN status' = "returned" /\ UNCHANGED stack
          ELSE LET outer == Front(stack)
               IN /\ Continue(outer, Last(outer).at, Top.block)
                  /\ UNCHANGED status
     ELSE status' = "missing" /\ UNCHANGED stack
  /\ UNCHANGED fn

(* While refuses a condition that turns out to be secret.                  *)
SecretCondition ==
  /\ status = "running" /\ Top.at = End(fn) /\ Len(stack) > 1
  /\ LET o == fn.owner[Top.block]
     IN fn.kind[o] = "while" /\ Top.block = Min(RegionsOf(o))
  /\ \A v \in fn.yields[Top.block] : Visible(v)
  /\ status' = "refused"
  /\ UNCHANGED <<fn, stack>>

Next == Call \/ Yield \/ SecretCondition

Spec == Init /\ [][Next]_vars

----------------------------------------------------------------------------
(* The stack is a chain of regions, each run by the operation at which the *)
(* one below it stands; a scope holds values of its own block only.        *)
TypeOK ==
  /\ status \in {"running", "returned", "missing", "refused"}
  /\ stack # <<>>
  /\ \A i \in DOMAIN stack :
       LET f == stack[i] IN
       /\ f.at = End(fn) \/ fn.block[f.at] = f.block
       /\ \A v \in f.scope : v = Arg(f.block) \/ (v \in OpsOf(fn) /\ fn.block[v] = f.block)
       /\ IF i = Len(stack) THEN f.region = 0
          ELSE /\ f.region \in RegionsOf(f.at)
               /\ stack[i + 1].block = f.region

(* lookupValue never throws: what the pass frees is used no more, neither  *)
(* by a later operation, nor by a region that runs again, nor by a         *)
(* terminator.                                                             *)
NoMissingValue == status # "missing"

(* What is done with is gone (the purpose of the pass): a value that is    *)
(* still in a scope is an argument, is never used, has uses to come or is  *)
(* last used inside a region.                                              *)
DeadValuesFreed ==
  \A i \in DOMAIN stack :
    LET f == stack[i] IN
    \A v \in f.scope \ {Arg(f.block)} :
      LET uses == UsesIn(fn, v, f.block)
      IN \/ uses = {}
         \/ Max(uses) >= f.at
         \/ v \notin fn.operands[Max(uses)]

----------------------------------------------------------------------------
(* The inductive invariant, on the frames s of a run of F.  A region but   *)
(* the first is one of the operation at which the frame below it stands.   *)
FramesTyped(F, s) ==
  /\ s \in Seq([block : BlocksOf(F), at : 1 .. End(F), region : BlocksOf(F),
                scope : SUBSET Int])
  /\ s # <<>> /\ s[1].block = 0
  /\ \A i \in DOMAIN s : s[i].at = End(F) \/ F.block[s[i].at] = s[i].block

FramesChained(F, s) ==
  /\ \A i \in 1 .. Len(s) - 1 :
       /\ s[i + 1].block # 0 /\ F.owner[s[i + 1].block] = s[i].at
       /\ s[i].region = s[i + 1].block
  /\ \A i, j \in DOMAIN s : i < j => s[i].at < s[j].at

(* The blocks that enclose a frame's block are those of the frames below   *)
(* it, and each of these encloses it at the operation it stands at.        *)
FramesEnclose(F, s) ==
  /\ \A i, j \in DOMAIN s :
       i < j => TerminatorIn(F, s[j].block, s[i].block) = s[i].at
  /\ \A j \in DOMAIN s : \A c \in BlocksOf(F) :
       TerminatorIn(F, s[j].block, c) # 0 => \E i \in 1 .. j : s[i].block = c

(* What is in scope where block b stands at n: what it has defined, but    *)
(* for what an operation before n has freed.                               *)
ScopeAt(F, b, n) ==
  {Arg(b)} \cup
    {v \in OpsOf(F) : /\ F.block[v] = b /\ v < n
                      /\ \A o \in OpsOf(F) :
                           F.block[o] = b /\ o < n => v \notin FreedAfter(F, o)}

ScopesExact(F, s) ==
  \A i \in DOMAIN s : s[i].scope = ScopeAt(F, s[i].block, s[i].at)

Frames(F, s) ==
  FramesTyped(F, s) /\ FramesChained(F, s) /\ FramesEnclose(F, s) /\ ScopesExact(F, s)

IInv ==
  /\ WellFormed(fn)
  /\ status \in {"running", "returned", "refused"}
  /\ Frames(fn, stack) /\ Top.region = 0
=============================================================================
