----------------------------- MODULE BeaverCache -----------------------------
(***************************************************************************)
(* Multiplication of semi2k on variables marked with make_cached_var.  A   *)
(* product opens x - a and y - b, where the masks a and b come from the    *)
(* beaver of the context.  For a view of a marked buffer the opening is    *)
(* kept in the party's BeaverCache with a description of its mask; the     *)
(* next product of the view replays the mask and sends nothing.            *)
(*                                                                         *)
(* Every party has its own memory, one cache, and a thread for each of the *)
(* contexts that share the cache (Semi2kState::fork).  The parties agree on *)
(* nothing but the program: whether a product sends is decided by each     *)
(* party's cache, so the caches must follow one another.                   *)
(*                                                                         *)
(* A ring element is what it is made of: a value names the variable, its   *)
(* generation and whether it is transposed; a mask names the position of   *)
(* the beaver's stream it was drawn at; an opening is the sum of what the  *)
(* parties sent, so it is the function of what each of them contributed.   *)
(***************************************************************************)
EXTENDS Integers, Sequences, FiniteSets

CONSTANTS
  Party,       \* the parties
  Thread,      \* contexts that share the cache, each with its thread
  Var,         \* variables of the program
  Addr,        \* addresses of buffers
  Kinds,       \* kinds of operations the program is made of
  Uses,        \* Uses[t]: the variables the operations of thread t use
  Awaits,      \* Awaits[t]: the threads that have ended before t starts
  Marked,      \* variables marked before the threads start
  DropsFirst,  \* a marked variable no product has used is dropped before
               \* it is replaced
  Vectorize,   \* ~experimental_disable_vectorization
  None,        \* no value
  MaxOps,      \* bound: operations of a thread
  MaxGen       \* bound: generations of a variable

View == [var : Var, trans : BOOLEAN]

Products == {"mul", "dot", "square"}

(* The operations of a thread; only mul and dot have a second operand.     *)
Ops ==
  [t \in Thread |->
     {op \in [kind : Kinds, x : View, y : View] :
        /\ op.x.var \in Uses[t] /\ op.y.var \in Uses[t]
        /\ op.kind \notin {"mul", "dot"} => op.y = op.x
        /\ op.kind \notin Products => ~op.x.trans}]

ASSUME KindsAssumption ==
  Kinds \subseteq Products \cup {"enable", "disable", "replace"}

(* No variable is used by two threads at a time.                           *)
Exclusive ==
  \A t, u \in Thread :
    t # u => t \in Awaits[u] \/ u \in Awaits[t] \/ Uses[t] \cap Uses[u] = {}

(* The program is in single assignment form: a buffer is not replaced      *)
(* while another thread may use it.                                        *)
ASSUME UsesAssumption ==
  /\ Uses \in [Thread -> SUBSET Var]
  /\ Awaits \in [Thread -> SUBSET Thread]
  /\ "replace" \in Kinds => Exclusive

ASSUME BoundsAssumption ==
  Marked \subseteq Var /\ MaxOps \in Nat /\ MaxGen \in Nat

VARIABLES
  todo,     \* todo[p][t]: operations the others have started and p has not
  issued,   \* issued[t]: number of operations of t started by some party
  memory,   \* memory[p][v]: address and generation of v at party p
  meta,     \* meta[p]: cache_meta_, the marked addresses, each with the
            \* variable and generation it was marked for (not in the code)
  entries,  \* entries[p]: the BufferCacheMeta of all marked addresses
  counter,  \* counter[p][t]: counter_ of the beaver of the context
  frame,    \* frame[p][t]: the product the thread is in
  chan      \* chan[t][p][q]: messages of p that q has not received

vars == <<todo, issued, memory, meta, entries, counter, frame, chan>>
-----------------------------------------------------------------------------
Value == [var : Var, gen : 0 .. MaxGen, trans : BOOLEAN]

Mask == [ctx : Thread, at : Nat, trans : BOOLEAN]

Share == [value : Value, mask : Mask]

ASSUME NoneAssumption ==
  None \notin Mask /\ None \notin Share

Lookup == [on : BOOLEAN, status : {"Init", "Replay", "TransposeReplay"},
           mask : Mask \cup {None}, open : [Party -> Share \cup {None}]]

Off == [on |-> FALSE, status |-> "Init", mask |-> None,
        open |-> [p \in Party |-> None]]

Sides == {"x", "y"}

TransposeShare(s) ==
  IF s = None THEN None
  ELSE [s EXCEPT !.value.trans = ~@, !.mask.trans = ~@]

TransposeOpen(open) == [p \in Party |-> TransposeShare(open[p])]

AddrOf(p, view) == memory[p][view.var].addr

ValueOf(p, view) ==
  [var |-> view.var, gen |-> memory[p][view.var].gen, trans |-> view.trans]

IsMarked(p, view) == \E m \in meta[p] : m.addr = AddrOf(p, view)

Found(p, view, trans) ==
  {e \in entries[p] : e.addr = AddrOf(p, view) /\ e.trans = trans}

(* Mutant: the opening found for the transposed view is not transposed.    *)
GetCacheUntransposed(p, view, allow_transpose) ==
  IF ~IsMarked(p, view) THEN Off
  ELSE LET trans == IF Found(p, view, view.trans) # {} THEN view.trans
                    ELSE ~view.trans
           found == IF trans = view.trans \/ allow_transpose
                    THEN Found(p, view, trans) ELSE {}
       IN  IF found = {} THEN [Off EXCEPT !.on = TRUE]
           ELSE LET e == CHOOSE e \in found : TRUE
                IN  [on |-> TRUE, mask |-> e.mask, open |-> e.open,
                     status |-> IF trans = view.trans THEN "Replay"
                                ELSE "TransposeReplay"]

(* GetCache, under the shared lock.                                        *)
GetCache(p, view, allow_transpose) ==
  IF ~IsMarked(p, view) THEN Off
  ELSE IF Found(p, view, view.trans) # {} THEN
    LET e == CHOOSE e \in Found(p, view, view.trans) : TRUE
    IN  [on |-> TRUE, status |-> "Replay", mask |-> e.mask, open |-> e.open]
  ELSE IF allow_transpose /\ Found(p, view, ~view.trans) # {} THEN
    LET e == CHOOSE e \in Found(p, view, ~view.trans) : TRUE
    IN  [on |-> TRUE, status |-> "TransposeReplay", mask |-> e.mask,
         open |-> TransposeOpen(e.open)]
  ELSE [Off EXCEPT !.on = TRUE]
-----------------------------------------------------------------------------
(* The masks beaver->Mul, Square and Dot give an operand.  Mul and Square  *)
(* draw a fresh one unless they replay; Dot draws from counter_ only when  *)
(* there is no description, and otherwise reads where the description      *)
(* says, which FillReplayDesc has set to the current counter on Init.      *)
Described(kind, o) == IF kind = "dot" THEN o.on ELSE o.status = "Replay"

(* Mutant: the stored counter is replayed with the seed of the context.    *)
DrawOwnSeed(t, kind, o, c) ==
  [o EXCEPT !.mask = IF Described(kind, o) /\ o.status # "Init"
                     THEN [@ EXCEPT !.ctx = t,
                                    !.trans = (o.status = "TransposeReplay")]
                     ELSE [ctx |-> t, at |-> c, trans |-> FALSE]]

(* Mutant: the description of a dot is not filled in.                      *)
DrawUnfilled(t, kind, o, c) ==
  [o EXCEPT !.mask = IF ~Described(kind, o)
                     THEN [ctx |-> t, at |-> c, trans |-> FALSE]
                     ELSE IF o.status = "Init" THEN @
                     ELSE [@ EXCEPT !.trans = (o.status = "TransposeReplay")]]

Draw(t, kind, o, c) ==
  [o EXCEPT !.mask = IF Described(kind, o) /\ o.status # "Init"
                     THEN [@ EXCEPT !.trans = (o.status = "TransposeReplay")]
                     ELSE [ctx |-> t, at |-> c, trans |-> FALSE]]

Drawn(kind, o, c) == IF Described(kind, o) THEN c ELSE c + 1

IsHit(o) == o.status # "Init"

Idle == [step |-> "Idle", op |-> None, left |-> {},
         opd |-> [s \in Sides |-> Off]]

Operands(op) == IF op.kind = "square" THEN {"x"} ELSE Sides

OperandView(op, s) == IF s = "x" THEN op.x ELSE op.y

(* What is opened by the next message: both operands if vectorized and     *)
(* neither is cached, otherwise x before y.                                *)
Openings(f) ==
  IF (Vectorize /\ \A s \in Sides : ~IsHit(f.opd[s])) \/ "x" \notin f.left
  THEN f.left ELSE {"x"}

Contribution(p, f) ==
  [s \in Sides |-> IF s \in Openings(f)
                   THEN [value |-> ValueOf(p, OperandView(f.op, s)),
                         mask |-> f.opd[s].mask]
                   ELSE None]

SameSides(m, n) == \A s \in Sides : m[s] = None <=> n[s] = None

Init ==
  /\ todo = [p \in Party |-> [t \in Thread |-> <<>>]]
  /\ issued = [t \in Thread |-> 0]
  /\ memory \in {[p \in Party |-> [v \in Var |-> [addr |-> a[v], gen |-> 0]]] :
                   a \in {b \in [Var -> Addr] :
                            \A v, w \in Var : b[v] = b[w] => v = w}}
  /\ meta = [p \in Party |->
              {[addr |-> memory[p][v].addr, var |-> v, gen |-> 0] : v \in Marked}]
  /\ entries = [p \in Party |-> {}]
  /\ counter = [p \in Party |-> [t \in Thread |-> 0]]
  /\ frame = [p \in Party |-> [t \in Thread |-> Idle]]
  /\ chan = [t \in Thread |-> [p \in Party |-> [q \in Party |-> <<>>]]]
-----------------------------------------------------------------------------
(* The next operation of p's thread t: the oldest one another party has    *)
(* started, or else any operation of the program, then next for the others.*)
Ended(p, t) ==
  frame[p][t].step = "Idle" /\ todo[p][t] = <<>> /\ issued[t] = MaxOps

Takes(p, t, op) ==
  /\ frame[p][t].step = "Idle"
  /\ \A u \in Awaits[t] : Ended(p, u)
  /\ IF todo[p][t] # <<>>
     THEN /\ op = Head(todo[p][t])
          /\ todo' = [todo EXCEPT ![p][t] = Tail(@)]
          /\ UNCHANGED issued
     ELSE /\ issued[t] < MaxOps
          /\ issued' = [issued EXCEPT ![t] = @ + 1]
          /\ todo' = [q \in Party |->
                       IF q = p THEN todo[q]
                       ELSE [todo[q] EXCEPT ![t] = Append(@, op)]]

(* The beaver of a context, each forked with the context.  Mutant: forked  *)
(* contexts go on with the beaver they are forked from.                    *)
SharedBeaver(t) == CHOOSE u \in Thread : TRUE

Beaver(t) == t

(* make_cached_var.                                                        *)
EnableCache(p, t, op) ==
  /\ op.kind = "enable"
  /\ Takes(p, t, op)
  /\ meta' = [meta EXCEPT ![p] =
               IF IsMarked(p, op.x) THEN @
               ELSE @ \cup {[addr |-> AddrOf(p, op.x), var |-> op.x.var,
                             gen |-> memory[p][op.x.var].gen]}]
  /\ UNCHANGED <<memory, entries, counter, frame, chan>>

(* drop_cached_var.  Mutant: the marks of all buffers are dropped.         *)
DisableCacheOfAll(p, t, op) ==
  /\ op.kind = "disable"
  /\ Takes(p, t, op)
  /\ meta' = [meta EXCEPT ![p] = {}]
  /\ entries' = [entries EXCEPT ![p] = {}]
  /\ UNCHANGED <<memory, counter, frame, chan>>

DisableCache(p, t, op) ==
  /\ op.kind = "disable"
  /\ Takes(p, t, op)
  /\ meta' = [meta EXCEPT ![p] = {m \in @ : m.addr # AddrOf(p, op.x)}]
  /\ entries' = [entries EXCEPT ![p] =
                  {e \in @ : e.addr # AddrOf(p, op.x)}]
  /\ UNCHANGED <<memory, counter, frame, chan>>

(* An assignment w = w - grad: the program drops its last reference to the *)
(* buffer of the variable, and its new value is in a buffer that neither   *)
(* a variable nor a key of the cache holds.                                *)
(* Mutant: the keys of the cache do not hold their buffers.                *)
HeldByVariables(p, v) == {memory[p][w].addr : w \in Var \ {v}}

HeldBy(p, v) ==
  {memory[p][w].addr : w \in Var \ {v}} \cup {e.addr : e \in entries[p]}

Replace(p, t, op) ==
  /\ op.kind = "replace"
  /\ memory[p][op.x.var].gen < MaxGen
  /\ DropsFirst /\ IsMarked(p, op.x) =>
       \E e \in entries[p] : e.addr = AddrOf(p, op.x)
  /\ Takes(p, t, op)
  /\ \E a \in Addr \ HeldBy(p, op.x.var) :
       memory' = [memory EXCEPT ![p][op.x.var] = [addr |-> a, gen |-> @.gen + 1]]
  /\ UNCHANGED <<meta, entries, counter, frame, chan>>
-----------------------------------------------------------------------------
Advance(p, t, f) == frame' = [frame EXCEPT ![p][t] = f]

(* MulOpen and SquareA: the cache is read for x,                           *)
LookX(p, t, op) ==
  /\ op.kind \in Products
  /\ Takes(p, t, op)
  /\ Advance(p, t, [step |-> IF op.kind = "square" THEN "Draw" ELSE "LookY",
                    op |-> op, left |-> {},
                    opd |-> [s \in Sides |->
                              IF s = "x" THEN GetCache(p, op.x, op.kind = "dot")
                              ELSE Off]])
  /\ UNCHANGED <<memory, meta, entries, counter, chan>>

(* then for y, unless it is x and x is to be cached: no array is cached    *)
(* twice.  Mutant: it may be.                                              *)
CachedTwiceUnseen(op, x) == FALSE

CachedTwice(op, x) == op.x = op.y /\ x.on /\ x.status = "Init"

LookY(p, t) ==
  LET f == frame[p][t]
      x == f.opd["x"]
      y == GetCache(p, f.op.y, f.op.kind = "dot")
  IN  /\ f.step = "LookY"
      /\ Advance(p, t, [f EXCEPT !.step = "Draw",
                                 !.opd["y"] = IF CachedTwice(f.op, x)
                                              THEN [y EXCEPT !.on = FALSE]
                                              ELSE y])
      /\ UNCHANGED <<todo, issued, memory, meta, entries, counter, chan>>

(* the masks and the product of the masks are drawn,                       *)
DrawMasks(p, t) ==
  LET f == frame[p][t]
      b == Beaver(t)
      kind == f.op.kind
      c == counter[p][b]
      d == Drawn(kind, f.opd["x"], c)
      masked == [s \in Sides |->
                  IF s \notin Operands(f.op) THEN Off
                  ELSE Draw(b, kind, f.opd[s], IF s = "x" THEN c ELSE d)]
      e == IF kind = "square" THEN d ELSE Drawn(kind, f.opd["y"], d)
  IN  /\ f.step = "Draw"
      /\ counter' = [counter EXCEPT ![p][b] = e + 1]
      /\ Advance(p, t,
           [f EXCEPT !.step = "Open", !.opd = masked,
                     !.left = {s \in Operands(f.op) : ~IsHit(f.opd[s])}])
      /\ UNCHANGED <<todo, issued, memory, meta, entries, chan>>

(* and what the cache does not have is opened by allReduce: sent to all,   *)
SendShares(p, t) ==
  LET f == frame[p][t] IN
  /\ f.step = "Open" /\ f.left # {}
  /\ chan' = [chan EXCEPT ![t][p] =
               [q \in Party |-> IF q = p THEN @[q]
                                ELSE Append(@[q], Contribution(p, f))]]
  /\ Advance(p, t, [f EXCEPT !.step = "Wait"])
  /\ UNCHANGED <<todo, issued, memory, meta, entries, counter>>

(* and received from all; a message about other operands is garbage.       *)
AddShares(p, t) ==
  LET f == frame[p][t]
      mine == Contribution(p, f)
      from(q) == IF q = p THEN mine ELSE Head(chan[t][q][p])
      sum(s) == [q \in Party |-> IF SameSides(from(q), mine) THEN from(q)[s]
                                 ELSE None]
  IN  /\ f.step = "Wait"
      /\ \A q \in Party \ {p} : chan[t][q][p] # <<>>
      /\ chan' = [chan EXCEPT ![t] =
                   [q \in Party |-> IF q = p THEN chan[t][q]
                                    ELSE [chan[t][q] EXCEPT ![p] = Tail(@)]]]
      /\ Advance(p, t,
           [f EXCEPT !.step = "Open", !.left = @ \ Openings(f),
                     !.opd = [s \in Sides |->
                               IF s \in Openings(f)
                               THEN [f.opd[s] EXCEPT !.open = sum(s)]
                               ELSE f.opd[s]]])
      /\ UNCHANGED <<todo, issued, memory, meta, entries, counter>>

(* SetCache of a fresh opening, whose two checks may fail.                 *)
SetCache(p, t, f, s, next) ==
  LET view == OperandView(f.op, s)
      o == f.opd[s]
      checks == IsMarked(p, view) /\ Found(p, view, view.trans) = {}
      kept == [addr |-> AddrOf(p, view), trans |-> view.trans,
               mask |-> o.mask, open |-> o.open]
  IN  IF ~(o.on /\ o.status = "Init")
      THEN Advance(p, t, [f EXCEPT !.step = next]) /\ UNCHANGED entries
      ELSE IF ~checks
      THEN Advance(p, t, [f EXCEPT !.step = "Failed"]) /\ UNCHANGED entries
      ELSE /\ entries' = [entries EXCEPT ![p] = @ \cup {kept}]
           /\ Advance(p, t, [f EXCEPT !.step = next])

StoreX(p, t) ==
  LET f == frame[p][t] IN
  /\ f.step = "Open" /\ f.left = {}
  /\ SetCache(p, t, f, "x", "StoreY")
  /\ UNCHANGED <<todo, issued, memory, meta, counter, chan>>

StoreY(p, t) ==
  LET f == frame[p][t] IN
  /\ f.step = "StoreY"
  /\ SetCache(p, t, f, "y", "Done")
  /\ UNCHANGED <<todo, issued, memory, meta, counter, chan>>

(* The product is computed from the masks and the openings.                *)
Return(p, t) ==
  /\ frame[p][t].step = "Done"
  /\ Advance(p, t, Idle)
  /\ UNCHANGED <<todo, issued, memory, meta, entries, counter, chan>>

Step(p, t) ==
  \/ /\ frame[p][t].step = "Idle"
     /\ \E op \in Ops[t] : EnableCache(p, t, op) \/ DisableCache(p, t, op)
                        \/ Replace(p, t, op) \/ LookX(p, t, op)
  \/ LookY(p, t) \/ DrawMasks(p, t) \/ SendShares(p, t) \/ AddShares(p, t)
  \/ StoreX(p, t) \/ StoreY(p, t) \/ Return(p, t)

Next == \E p \in Party, t \in Thread : Step(p, t)

Spec == Init /\ [][Next]_vars

(* The threads of a party are not starved, and a party starts what another *)
(* has started.                                                            *)
Resumes(p, t) ==
  /\ frame[p][t].step # "Idle" \/ todo[p][t] # <<>>
  /\ Step(p, t)

Fairness == \A p \in Party, t \in Thread : WF_vars(Resumes(p, t))
-----------------------------------------------------------------------------
Steps == {"Idle", "LookY", "Draw", "Open", "Wait", "StoreY", "Done", "Failed"}

AllOps == UNION {Ops[t] : t \in Thread}

Frame == [step : Steps, op : AllOps \cup {None}, left : SUBSET Sides,
          opd : [Sides -> Lookup]]

Entry == [addr : Addr, trans : BOOLEAN, mask : Mask,
          open : [Party -> Share \cup {None}]]

Message == [Sides -> Share \cup {None}]

TypeOK ==
  /\ todo \in [Party -> [Thread -> Seq(AllOps)]]
  /\ issued \in [Thread -> 0 .. MaxOps]
  /\ memory \in [Party -> [Var -> [addr : Addr, gen : 0 .. MaxGen]]]
  /\ meta \in [Party -> SUBSET [addr : Addr, var : Var, gen : 0 .. MaxGen]]
  /\ entries \in [Party -> SUBSET Entry]
  /\ counter \in [Party -> [Thread -> Nat]]
  /\ frame \in [Party -> [Thread -> Frame]]
  /\ chan \in [Thread -> [Party -> [Party -> Seq(Message)]]]

(* A product is computed from openings of its own operands, to which every *)
(* party contributed its share minus its share of the mask this party uses *)
(* now: x - a is opened with the a of the triple, although it was opened   *)
(* by an earlier product, perhaps transposed and of another context.       *)
OpeningsMatch ==
  \A p \in Party, t \in Thread :
    frame[p][t].step = "Done" =>
      \A s \in Operands(frame[p][t].op), q \in Party :
        frame[p][t].opd[s].open[q] =
          [value |-> ValueOf(p, OperandView(frame[p][t].op, s)),
           mask |-> frame[p][t].opd[s].mask]

(* The parties agree on what is opened: a message that is there when a     *)
(* party waits has the operands and the masks the party has sent itself.   *)
MessagesAgree ==
  \A p, q \in Party, t \in Thread :
    frame[p][t].step = "Wait" /\ p # q /\ chan[t][q][p] # <<>> =>
      Head(chan[t][q][p]) = Contribution(p, frame[p][t])

(* The caches of the parties, each behind its own addresses, hold the same *)
(* when the parties have finished the same operations, and their beavers   *)
(* have drawn as much.                                                     *)
CachesAgree ==
  \A p, q \in Party :
    (\A t \in Thread : /\ frame[p][t].step = "Idle" /\ frame[q][t].step = "Idle"
                       /\ todo[p][t] = todo[q][t]) =>
      /\ counter[p] = counter[q]
      /\ \A view \in View : GetCache(p, view, TRUE) = GetCache(q, view, TRUE)

(* The checks of SetCache: the buffer is still marked, and no opening of   *)
(* the view has been stored since the lookup missed it.                    *)
SetCacheChecks == \A p \in Party, t \in Thread : frame[p][t].step # "Failed"

(* A variable is cached only if that variable was marked, not an earlier   *)
(* one at the address of its buffer.                                       *)
MarkedOnly ==
  \A p \in Party : \A v \in Var : \A m \in meta[p] :
    m.addr = memory[p][v].addr => m.var = v /\ m.gen = memory[p][v].gen

(* Every product returns: no party waits for a message that is never sent. *)
ProductsReturn ==
  \A p \in Party, t \in Thread :
    frame[p][t].step # "Idle" ~> frame[p][t].step = "Idle"

(* What a party opens or replays for an operand has in it the party's own  *)
(* share of that operand under the mask the product uses, at any number of *)
(* threads and whatever the other parties do.                              *)
OwnShare ==
  \A p \in Party, t \in Thread :
    frame[p][t].step = "Done" =>
      \A s \in Operands(frame[p][t].op) :
        frame[p][t].opd[s].open[p] =
          [value |-> ValueOf(p, OperandView(frame[p][t].op, s)),
           mask |-> frame[p][t].opd[s].mask]
-----------------------------------------------------------------------------
(* The inductive invariant.  Two variables never share a buffer, and a     *)
(* mark is held by its variable or else by an entry, if variables are      *)
(* dropped before they are replaced.                                       *)
MemoryInv ==
  \A p \in Party :
    /\ \A v, w \in Var : memory[p][v].addr = memory[p][w].addr => v = w
    /\ DropsFirst => \A m \in meta[p] :
         /\ \/ memory[p][m.var].addr = m.addr
            \/ \E e \in entries[p] : e.addr = m.addr
         /\ \A v \in Var : memory[p][v].addr = m.addr =>
                             m.var = v /\ m.gen = memory[p][v].gen

(* An entry has the party's own share of the value that is at its address, *)
(* if a variable still is, under the mask it describes.                    *)
EntryOK(p, e) ==
  /\ ~e.mask.trans
  /\ e.open[p] # None
  /\ e.open[p].mask = e.mask
  /\ e.open[p].value.trans = e.trans
  /\ \A v \in Var : memory[p][v].addr = e.addr =>
                      /\ e.open[p].value.var = v
                      /\ e.open[p].value.gen = memory[p][v].gen

EntryInv == \A p \in Party : \A e \in entries[p] : EntryOK(p, e)

OwnOpening(p, view, o, mask) ==
  o.open[p] = [value |-> ValueOf(p, view), mask |-> mask]

(* What a lookup has found, and what it becomes when the masks are drawn.  *)
LookedUp(p, kind, view, o) ==
  /\ o.status = "TransposeReplay" => kind = "dot"
  /\ IsHit(o) =>
       /\ o.on
       /\ o.mask \in Mask
       /\ OwnOpening(p, view, o,
            [o.mask EXCEPT !.trans = (o.status = "TransposeReplay")])

Masked(p, view, o, closed) ==
  /\ o.mask \in Mask
  /\ ~IsHit(o) => ~o.mask.trans
  /\ closed => OwnOpening(p, view, o, o.mask)

(* An operand that is to be cached: nothing has been stored since the      *)
(* lookup.                                                                 *)
Pending(p, view, o) ==
  o.on /\ ~IsHit(o) => IsMarked(p, view) /\ Found(p, view, view.trans) = {}

FrameOK(p, t, f) ==
  f.step \in Steps \ {"Idle", "Failed"} =>
    /\ f.op \in Ops[t] /\ f.op.kind \in Products
    /\ f.step = "LookY" =>
         /\ f.op.kind # "square"
         /\ f.opd["x"] = GetCache(p, f.op.x, f.op.kind = "dot")
    /\ f.step = "Draw" =>
         \A s \in Operands(f.op) :
           LookedUp(p, f.op.kind, OperandView(f.op, s), f.opd[s])
    /\ f.step \in {"Draw", "Open", "Wait"} =>
         /\ \A s \in Operands(f.op) :
              Pending(p, OperandView(f.op, s), f.opd[s])
         /\ f.op.kind # "square" /\ CachedTwice(f.op, f.opd["x"]) => ~f.opd["y"].on
    /\ f.step \in {"Draw", "Open", "Wait", "StoreY"} =>
         (f.op.kind = "square" => ~f.opd["y"].on)
    /\ f.step \in {"Open", "Wait", "StoreY", "Done"} =>
         /\ f.left \subseteq Operands(f.op)
         /\ \A s \in Operands(f.op) :
              Masked(p, OperandView(f.op, s), f.opd[s], s \notin f.left)
    /\ f.step = "StoreY" => Pending(p, f.op.y, f.opd["y"])
    /\ f.step \in {"StoreY", "Done"} => f.left = {}

FrameInv == \A p \in Party, t \in Thread :
  FrameOK(p, t, frame[p][t]) /\ frame[p][t].step # "Failed"

(* A thread that has started comes after the threads it awaits.            *)
OrderInv == \A p \in Party, t \in Thread :
  frame[p][t].step # "Idle" => \A u \in Awaits[t] : Ended(p, u)

IInv == TypeOK /\ MemoryInv /\ EntryInv /\ FrameInv /\ OrderInv
=============================================================================
