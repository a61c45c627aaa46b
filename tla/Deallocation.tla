---------------------------- MODULE Deallocation ---------------------------
(***************************************************************************)
(* The insert-deallocation pass: after which operations of a function it   *)
(* puts a pphlo.free, and of which values.                                 *)
(*                                                                         *)
(* A function F is a record.  Its operations are 1 .. F.size in textual    *)
(* order; F.block[o] is the block that holds o, 0 for the function's body; *)
(* F.owner[b] is the operation that block b is a region of.  Operation o   *)
(* takes the values F.operands[o] and defines the value o; the argument of *)
(* block b is the value Arg(b); its terminator takes F.yields[b].          *)
(***************************************************************************)
EXTENDS Integers, FiniteSets

Arg(b) == -1 - b
IsArg(v) == v < 0

OpsOf(F) == 1 .. F.size
BlocksOf(F) == DOMAIN F.yields

(* The position of a block's terminator, after all its operations.         *)
End(F) == F.size + 1

(* findAncestorOpInBlock: the operation of block b that is o, or that has  *)
(* o in a region; 0 if there is none.                                      *)
AncestorIn(F, o, b) ==
  LET up[x \in 0 .. F.size] ==
        IF x = 0 \/ F.block[x] = b THEN x
        ELSE IF F.block[x] = 0 THEN 0 ELSE up[F.owner[F.block[x]]]
  IN up[o]

(* The same, for the terminator of block c.                                *)
TerminatorIn(F, c, b) ==
  IF c = b THEN End(F) ELSE IF c = 0 THEN 0 ELSE AncestorIn(F, F.owner[c], b)

(* Where block b uses v, itself or in the regions of its operations.       *)
UsesIn(F, v, b) ==
  ({AncestorIn(F, o, b) : o \in {x \in OpsOf(F) : v \in F.operands[x]}}
    \cup {TerminatorIn(F, c, b) : c \in {x \in BlocksOf(F) : v \in F.yields[x]}})
  \ {0}

(* Mutants: uses inside regions are overlooked; the use by o itself counts *)
(* as one to come.                                                         *)
DeadAfterFlat(F, v, o) ==
  \A u \in OpsOf(F) : v \in F.operands[u] /\ F.block[u] = F.block[o] => u <= o

DeadAfterStrict(F, v, o) == \A u \in UsesIn(F, v, F.block[o]) : u < o

(* Liveness::isDeadAfter.  A region has one block, so no value is live out *)
(* of a block.                                                             *)
DeadAfter(F, v, o) == \A u \in UsesIn(F, v, F.block[o]) : u <= o

(* transformOp: the operands of o that it frees after o.  Arguments, and   *)
(* values captured from another region, are left alone.                    *)
FreedAfter(F, o) ==
  {v \in F.operands[o] : ~IsArg(v) /\ F.block[v] = F.block[o] /\ DeadAfter(F, v, o)}
=============================================================================
