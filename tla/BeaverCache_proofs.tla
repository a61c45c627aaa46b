------------------------- MODULE BeaverCache_proofs -------------------------
(***************************************************************************)
(* Proofs about cached multiplication, for any number of parties, threads, *)
(* variables and operations.  First one party's side: what is replayed has *)
(* the party's own share of the operand, under the mask of the product,    *)
(* and nothing is cached for a variable that was not marked.  Then the     *)
(* parties together: their caches follow one history of the operations, so *)
(* they agree on what is sent, what is opened and what is kept.            *)
(***************************************************************************)
EXTENDS BeaverCache, TLAPS

USE KindsAssumption, UsesAssumption, NoneAssumption, BoundsAssumption

LEMMA OffType == Off \in Lookup
BY DEF Off, Lookup

LEMMA ViewsOfOps ==
  ASSUME NEW t \in Thread, NEW op \in Ops[t], NEW s \in Sides
  PROVE  /\ OperandView(op, s) \in View /\ OperandView(op, s).var \in Uses[t]
         /\ op.x \in View /\ op.x.var \in Uses[t]
         /\ Operands(op) \subseteq Sides /\ "x" \in Operands(op)
         /\ op \in AllOps
BY DEF Ops, AllOps, OperandView, Operands, Sides

LEMMA Values ==
  ASSUME TypeOK, NEW p \in Party, NEW view \in View
  PROVE  /\ ValueOf(p, view) \in Value
         /\ ValueOf(p, view).var = view.var
         /\ ValueOf(p, view).gen = memory[p][view.var].gen
         /\ ValueOf(p, view).trans = view.trans
         /\ AddrOf(p, view) \in Addr
BY DEF TypeOK, ValueOf, AddrOf, View, Value

LEMMA Shares ==
  ASSUME NEW val \in Value, NEW mask \in Mask
  PROVE  /\ [value |-> val, mask |-> mask] \in Share
         /\ [value |-> val, mask |-> mask] # None
BY DEF Share

(* A share is its value and its mask, and these are their fields.          *)
LEMMA ShareFields ==
  ASSUME NEW s \in Share
  PROVE  /\ s.value \in Value /\ s.mask \in Mask
         /\ s = [value |-> s.value, mask |-> s.mask]
         /\ s # None
BY DEF Share

LEMMA MaskOf ==
  ASSUME NEW m \in Mask, NEW b \in BOOLEAN
  PROVE  /\ [m EXCEPT !.trans = b] \in Mask
         /\ [m EXCEPT !.trans = b].trans = b
         /\ m.trans = b => [m EXCEPT !.trans = b] = m
BY DEF Mask

LEMMA SameValue ==
  ASSUME NEW a \in Value, NEW b \in Value,
         a.var = b.var, a.gen = b.gen, a.trans = b.trans
  PROVE  a = b
BY DEF Value

LEMMA SameView ==
  ASSUME NEW a \in View, NEW b \in View, a.var = b.var, a.trans = b.trans
  PROVE  a = b
BY DEF View

LEMMA Transposed ==
  ASSUME NEW s \in Share
  PROVE  /\ TransposeShare(s) \in Share
         /\ TransposeShare(s).value = [s.value EXCEPT !.trans = ~@]
         /\ TransposeShare(s).mask = [s.mask EXCEPT !.trans = ~@]
<1>1. [s.value EXCEPT !.trans = ~@] \in Value BY DEF Share, Value
<1>2. [s.mask EXCEPT !.trans = ~@] \in Mask BY DEF Share, Mask
<1>3. s # None BY ShareFields
<1>4. TransposeShare(s) = [s EXCEPT !.value = [s.value EXCEPT !.trans = ~@],
                                    !.mask = [s.mask EXCEPT !.trans = ~@]]
  BY <1>3 DEF TransposeShare, Share
<1> QED BY <1>1, <1>2, <1>4 DEF Share

LEMMA TransposedOpening ==
  ASSUME NEW open \in [Party -> Share \cup {None}]
  PROVE  TransposeOpen(open) \in [Party -> Share \cup {None}]
BY Transposed DEF TransposeOpen, TransposeShare
-----------------------------------------------------------------------------
(* What an entry that is found for a view has in it.                       *)
LEMMA FoundOwn ==
  ASSUME TypeOK, EntryInv, NEW p \in Party, NEW view \in View,
         NEW b \in BOOLEAN, NEW e \in Found(p, view, b)
  PROVE  /\ e \in Entry /\ e.mask \in Mask /\ ~e.mask.trans
         /\ e.open \in [Party -> Share \cup {None}]
         /\ e.open[p] \in Share
         /\ e.open[p] = [value |-> [ValueOf(p, view) EXCEPT !.trans = b],
                         mask |-> e.mask]
<1>1. e \in Entry /\ e \in entries[p] /\ e.addr = AddrOf(p, view) /\ e.trans = b
  BY DEF TypeOK, Found
<1>2. e.mask \in Mask /\ e.open \in [Party -> Share \cup {None}]
  BY <1>1 DEF Entry
<1>3. EntryOK(p, e) BY <1>1 DEF EntryInv
<1>4. e.open[p] \in Share BY <1>2, <1>3 DEF EntryOK
<1>5. view.var \in Var /\ memory[p][view.var].addr = e.addr
  BY <1>1 DEF View, AddrOf
<1>6. /\ e.open[p].value.var = view.var
      /\ e.open[p].value.gen = memory[p][view.var].gen
      /\ e.open[p].value.trans = b
  BY <1>1, <1>3, <1>5 DEF EntryOK
<1>7. [ValueOf(p, view) EXCEPT !.trans = b] \in Value
  BY Values DEF Value
<1>8. e.open[p].value = [ValueOf(p, view) EXCEPT !.trans = b]
  <2>1. e.open[p].value \in Value BY <1>4, ShareFields
  <2>2. /\ [ValueOf(p, view) EXCEPT !.trans = b].var = view.var
        /\ [ValueOf(p, view) EXCEPT !.trans = b].gen = memory[p][view.var].gen
        /\ [ValueOf(p, view) EXCEPT !.trans = b].trans = b
    BY Values DEF Value
  <2> QED BY <1>6, <1>7, <2>1, <2>2, SameValue
<1> QED BY <1>1, <1>2, <1>3, <1>4, <1>8, ShareFields DEF EntryOK

LEMMA Flipped ==
  ASSUME NEW val \in Value, NEW b \in BOOLEAN, b = (~val.trans)
  PROVE  [[val EXCEPT !.trans = b] EXCEPT !.trans = ~@] = val
<1>1. val.trans \in BOOLEAN BY DEF Value
<1>2. CASE b = TRUE
  <2>1. val.trans = FALSE BY <1>1, <1>2
  <2> QED BY <1>2, <2>1 DEF Value
<1>3. CASE b = FALSE
  <2>1. val.trans = TRUE BY <1>1, <1>3
  <2> QED BY <1>3, <2>1 DEF Value
<1> QED BY <1>2, <1>3

LEMMA HitType ==
  ASSUME NEW mask \in Mask, NEW open \in [Party -> Share \cup {None}],
         NEW status \in {"Replay", "TransposeReplay"}, NEW o,
         o = [on |-> TRUE, status |-> status, mask |-> mask, open |-> open]
  PROVE  /\ o \in Lookup /\ o.on
         /\ o.status = status /\ o.mask = mask /\ o.open = open
<1>1. mask \in Mask \cup {None} OBVIOUS
<1> QED BY <1>1 DEF Lookup

(* GetCache finds the party's own share of the view.                       *)
LEMMA GetCacheFinds ==
  ASSUME TypeOK, EntryInv, NEW p \in Party, NEW view \in View,
         NEW kind, NEW o, o = GetCache(p, view, kind = "dot")
  PROVE  o \in Lookup /\ LookedUp(p, kind, view, o)
<1>1. CASE ~IsMarked(p, view)
  BY <1>1, OffType DEF GetCache, LookedUp, IsHit, Off
<1>2. CASE IsMarked(p, view) /\ Found(p, view, view.trans) # {}
  <2>1. PICK e \in Found(p, view, view.trans) :
          o = [on |-> TRUE, status |-> "Replay", mask |-> e.mask, open |-> e.open]
    BY <1>2 DEF GetCache
  <2>2. view.trans \in BOOLEAN BY DEF View
  <2>3. /\ e.mask \in Mask /\ ~e.mask.trans
        /\ e.open \in [Party -> Share \cup {None}]
        /\ e.open[p] = [value |-> [ValueOf(p, view) EXCEPT !.trans = view.trans],
                        mask |-> e.mask]
    BY <2>2, FoundOwn
  <2>4. [ValueOf(p, view) EXCEPT !.trans = view.trans] = ValueOf(p, view)
    BY DEF ValueOf
  <2>5. [e.mask EXCEPT !.trans = FALSE] = e.mask
    <3>1. e.mask.trans = FALSE BY <2>3 DEF Mask
    <3> QED BY <2>3, <3>1, MaskOf
  <2>6. /\ o.on /\ o.status = "Replay" /\ o.mask = e.mask /\ o.open = e.open
        /\ o \in Lookup
    BY <2>1, <2>3, HitType
  <2> QED BY <2>3, <2>4, <2>5, <2>6 DEF LookedUp, OwnOpening
<1>3. CASE /\ IsMarked(p, view) /\ Found(p, view, view.trans) = {}
           /\ kind = "dot" /\ Found(p, view, ~view.trans) # {}
  <2>0. PICK b \in BOOLEAN : b = (~view.trans) OBVIOUS
  <2>1. PICK e \in Found(p, view, b) :
          o = [on |-> TRUE, status |-> "TransposeReplay", mask |-> e.mask,
               open |-> TransposeOpen(e.open)]
    BY <1>3, <2>0 DEF GetCache
  <2>3. /\ e.mask \in Mask /\ ~e.mask.trans
        /\ e.open \in [Party -> Share \cup {None}]
        /\ e.open[p] \in Share
        /\ e.open[p] = [value |-> [ValueOf(p, view) EXCEPT !.trans = b],
                        mask |-> e.mask]
    BY FoundOwn
  <2>4. /\ e.open[p].mask = e.mask
        /\ e.open[p].value = [ValueOf(p, view) EXCEPT !.trans = b]
    BY <2>3
  <2>5. [e.open[p].value EXCEPT !.trans = ~@] = ValueOf(p, view)
    <3>1. ValueOf(p, view) \in Value /\ ValueOf(p, view).trans = view.trans
      BY Values
    <3>2. [[ValueOf(p, view) EXCEPT !.trans = b] EXCEPT !.trans = ~@]
            = ValueOf(p, view)
      BY <2>0, <3>1, Flipped
    <3> QED BY <2>4, <3>2
  <2>6. [e.mask EXCEPT !.trans = ~@] = [e.mask EXCEPT !.trans = TRUE]
    BY <2>3 DEF Mask
  <2>7. TransposeOpen(e.open)[p] =
          [value |-> ValueOf(p, view), mask |-> [e.mask EXCEPT !.trans = TRUE]]
    <3>1. TransposeOpen(e.open)[p] = TransposeShare(e.open[p])
      BY DEF TransposeOpen
    <3>2. /\ TransposeShare(e.open[p]) \in Share
          /\ TransposeShare(e.open[p]).value = ValueOf(p, view)
          /\ TransposeShare(e.open[p]).mask = [e.mask EXCEPT !.trans = TRUE]
      BY <2>3, <2>4, <2>5, <2>6, Transposed
    <3> QED BY <3>1, <3>2, ShareFields
  <2>8. /\ o.on /\ o.status = "TransposeReplay" /\ o.mask = e.mask
        /\ o.open = TransposeOpen(e.open) /\ o \in Lookup
    <3>1. TransposeOpen(e.open) \in [Party -> Share \cup {None}]
      BY <2>3, TransposedOpening
    <3> QED BY <2>1, <2>3, <3>1, HitType
  <2> QED BY <1>3, <2>3, <2>7, <2>8 DEF LookedUp, OwnOpening
<1>4. CASE /\ IsMarked(p, view) /\ Found(p, view, view.trans) = {}
           /\ ~(kind = "dot" /\ Found(p, view, ~view.trans) # {})
  <2>1. o = [Off EXCEPT !.on = TRUE] BY <1>4 DEF GetCache
  <2>2. o \in Lookup /\ o.status = "Init" BY <2>1, OffType DEF Off, Lookup
  <2> QED BY <2>2 DEF LookedUp, IsHit
<1> QED BY <1>1, <1>2, <1>3, <1>4
-----------------------------------------------------------------------------
(* A frame stays right while nothing its thread uses is changed.           *)
SameFor(p, t) ==
  \A v \in Uses[t] :
    /\ memory'[p][v] = memory[p][v]
    /\ \A m : m.addr = memory[p][v].addr => (m \in meta'[p] <=> m \in meta[p])
    /\ \A e : e.addr = memory[p][v].addr => (e \in entries'[p] <=> e \in entries[p])

LEMMA FrameKept ==
  ASSUME NEW p \in Party, NEW t \in Thread, NEW f, FrameOK(p, t, f), SameFor(p, t)
  PROVE  FrameOK(p, t, f)'
<1> SUFFICES ASSUME f.step \in Steps \ {"Idle", "Failed"}
             PROVE  FrameOK(p, t, f)'
  BY DEF FrameOK
<1>1. f.op \in Ops[t] /\ f.op.kind \in Products BY DEF FrameOK
<1>2. \A s \in Sides : OperandView(f.op, s).var \in Uses[t]
  BY <1>1, ViewsOfOps
<1>3. /\ OperandView(f.op, "x") = f.op.x /\ OperandView(f.op, "y") = f.op.y
      /\ "x" \in Sides /\ "y" \in Sides
  BY DEF OperandView, Sides
<1>4. Operands(f.op) \subseteq Sides BY DEF Operands, Sides
<1>5. ASSUME NEW view, view.var \in Uses[t]
      PROVE  /\ ValueOf(p, view)' = ValueOf(p, view)
             /\ IsMarked(p, view)' <=> IsMarked(p, view)
             /\ Found(p, view, view.trans)' = Found(p, view, view.trans)
             /\ \A b : GetCache(p, view, b)' = GetCache(p, view, b)
  <2>1. memory'[p][view.var] = memory[p][view.var] BY <1>5 DEF SameFor
  <2>2. IsMarked(p, view)' <=> IsMarked(p, view)
    BY <1>5, <2>1 DEF SameFor, IsMarked, AddrOf
  <2>3. \A b : Found(p, view, b)' = Found(p, view, b)
    BY <1>5, <2>1 DEF SameFor, Found, AddrOf
  <2>4. \A b : GetCache(p, view, b)' = GetCache(p, view, b)
    BY <2>2, <2>3 DEF GetCache
  <2> QED BY <2>1, <2>2, <2>3, <2>4 DEF ValueOf
<1>6. ASSUME NEW view, view.var \in Uses[t], NEW o, NEW kind, NEW closed
      PROVE  /\ LookedUp(p, kind, view, o) => LookedUp(p, kind, view, o)'
             /\ Masked(p, view, o, closed) => Masked(p, view, o, closed)'
             /\ Pending(p, view, o) => Pending(p, view, o)'
             /\ \A b : GetCache(p, view, b)' = GetCache(p, view, b)
  BY <1>5, <1>6 DEF LookedUp, Masked, OwnOpening, Pending
<1>7. \A s \in Sides : \A o, kind, closed :
        /\ LookedUp(p, kind, OperandView(f.op, s), o)
             => LookedUp(p, kind, OperandView(f.op, s), o)'
        /\ Masked(p, OperandView(f.op, s), o, closed)
             => Masked(p, OperandView(f.op, s), o, closed)'
        /\ Pending(p, OperandView(f.op, s), o)
             => Pending(p, OperandView(f.op, s), o)'
        /\ GetCache(p, OperandView(f.op, s), kind = "dot")'
             = GetCache(p, OperandView(f.op, s), kind = "dot")
  BY <1>2, <1>6
<1>8. GetCache(p, f.op.x, f.op.kind = "dot")' = GetCache(p, f.op.x, f.op.kind = "dot")
  BY <1>3, <1>7
<1>9. f.step = "LookY" =>
        (/\ f.op.kind # "square"
         /\ f.opd["x"] = GetCache(p, f.op.x, f.op.kind = "dot"))'
  BY <1>8 DEF FrameOK
<1>10. f.step = "Draw" =>
         \A s \in Operands(f.op) :
           LookedUp(p, f.op.kind, OperandView(f.op, s), f.opd[s])'
  BY <1>4, <1>7 DEF FrameOK
<1>11. f.step \in {"Draw", "Open", "Wait"} =>
         \A s \in Operands(f.op) : Pending(p, OperandView(f.op, s), f.opd[s])'
  BY <1>4, <1>7 DEF FrameOK
<1>12. f.step \in {"Open", "Wait", "StoreY", "Done"} =>
         \A s \in Operands(f.op) :
           Masked(p, OperandView(f.op, s), f.opd[s], s \notin f.left)'
  BY <1>4, <1>7 DEF FrameOK
<1>13. f.step = "StoreY" => Pending(p, f.op.y, f.opd["y"])'
  BY <1>3, <1>7 DEF FrameOK
<1> QED BY <1>1, <1>9, <1>10, <1>11, <1>12, <1>13 DEF FrameOK

LEMMA TakesType ==
  ASSUME TypeOK, NEW p \in Party, NEW t \in Thread, NEW op \in Ops[t],
         Takes(p, t, op)
  PROVE  /\ todo' \in [Party -> [Thread -> Seq(AllOps)]]
         /\ issued' \in [Thread -> 0 .. MaxOps]
         /\ frame[p][t].step = "Idle"
<1>1. todo \in [Party -> [Thread -> Seq(AllOps)]] /\ issued \in [Thread -> 0 .. MaxOps]
  BY DEF TypeOK
<1>2. op \in AllOps BY DEF AllOps
<1>3. CASE todo[p][t] # <<>>
  <2>1. todo' = [todo EXCEPT ![p][t] = Tail(@)] /\ issued' = issued
    BY <1>3 DEF Takes
  <2>2. Tail(todo[p][t]) \in Seq(AllOps) BY <1>1, <1>3
  <2> QED BY <1>1, <2>1, <2>2 DEF Takes
<1>4. CASE todo[p][t] = <<>>
  <2>1. /\ issued[t] < MaxOps
        /\ issued' = [issued EXCEPT ![t] = @ + 1]
        /\ todo' = [q \in Party |-> IF q = p THEN todo[q]
                                    ELSE [todo[q] EXCEPT ![t] = Append(@, op)]]
    BY <1>4 DEF Takes
  <2>2. issued[t] + 1 \in 0 .. MaxOps BY <1>1, <2>1
  <2>3. \A q \in Party : Append(todo[q][t], op) \in Seq(AllOps)
    BY <1>1, <1>2
  <2>4. \A q \in Party :
          [todo[q] EXCEPT ![t] = Append(@, op)] \in [Thread -> Seq(AllOps)]
    BY <1>1, <2>3
  <2>5. issued' \in [Thread -> 0 .. MaxOps] BY <1>1, <2>1, <2>2
  <2>6. todo' \in [Party -> [Thread -> Seq(AllOps)]] BY <1>1, <2>1, <2>4
  <2> QED BY <2>5, <2>6 DEF Takes
<1> QED BY <1>3, <1>4

LEMMA IdleFrame == Idle \in Frame /\ Idle.step = "Idle"
BY OffType DEF Idle, Frame, Steps
-----------------------------------------------------------------------------
(* What a step of thread t of party p leaves alone: the frames of all      *)
(* other threads, what they still have to do, and the variables that t     *)
(* does not use.                                                           *)
Moves(p, t) ==
  /\ ~Ended(p, t)
  /\ frame' \in [Party -> [Thread -> Frame]]
  /\ \A q \in Party, u \in Thread : q # p \/ u # t => frame'[q][u] = frame[q][u]
  /\ \/ UNCHANGED <<todo, issued>>
     \/ \E op \in Ops[t] : Takes(p, t, op)

Local(p, t) ==
  /\ \A q \in Party, v \in Var :
       memory'[q][v] = memory[q][v] \/ (q = p /\ v \in Uses[t])
  /\ \A q \in Party : \A m :
       (m \in meta'[q] <=> m \in meta[q])
         \/ (q = p /\ \E v \in Uses[t] : memory[p][v].addr = m.addr)
  /\ \A q \in Party : \A e :
       (e \in entries'[q] <=> e \in entries[q])
         \/ (q = p /\ \E v \in Uses[t] : memory[p][v].addr = e.addr)

LEMMA EndedKept ==
  ASSUME TypeOK, NEW p \in Party, NEW t \in Thread, Moves(p, t),
         NEW q \in Party, NEW u \in Thread, Ended(q, u)
  PROVE  Ended(q, u)'
<1>1. q # p \/ u # t BY DEF Moves
<1>2. frame'[q][u].step = "Idle" BY <1>1 DEF Moves, Ended
<1>3. todo'[q][u] = <<>> /\ issued'[u] = MaxOps
  <2>1. CASE UNCHANGED <<todo, issued>> BY <2>1 DEF Ended
  <2>2. CASE \E op \in Ops[t] : Takes(p, t, op)
    <3>1. PICK op \in Ops[t] : Takes(p, t, op) BY <2>2
    <3>2. CASE todo[p][t] # <<>>
      <4>1. todo' = [todo EXCEPT ![p][t] = Tail(@)] /\ issued' = issued
        BY <3>1, <3>2 DEF Takes
      <4>2. todo'[q][u] = todo[q][u] BY <1>1, <4>1 DEF TypeOK
      <4> QED BY <4>1, <4>2 DEF Ended
    <3>3. CASE todo[p][t] = <<>>
      <4>1. /\ issued[t] < MaxOps
            /\ issued' = [issued EXCEPT ![t] = @ + 1]
            /\ todo' = [r \in Party |->
                         IF r = p THEN todo[r]
                         ELSE [todo[r] EXCEPT ![t] = Append(@, op)]]
        BY <3>1, <3>3 DEF Takes
      <4>2. u # t BY <4>1 DEF Ended, BoundsAssumption
      <4>3. issued'[u] = issued[u] /\ todo'[q][u] = todo[q][u]
        BY <4>1, <4>2 DEF TypeOK
      <4> QED BY <4>3 DEF Ended
    <3> QED BY <3>2, <3>3
  <2> QED BY <2>1, <2>2 DEF Moves
<1> QED BY <1>2, <1>3 DEF Ended

(* Two threads of a party that are not over use different variables.       *)
LEMMA ThreadsApart ==
  ASSUME IInv, Exclusive, NEW p \in Party, NEW t \in Thread, NEW u \in Thread,
         t # u, frame[p][u].step # "Idle", ~Ended(p, t),
         \A r \in Awaits[t] : Ended(p, r)
  PROVE  Uses[t] \cap Uses[u] = {}
<1>1. u \notin Awaits[t] BY DEF Ended
<1>2. t \notin Awaits[u] BY DEF IInv, OrderInv
<1> QED BY <1>1, <1>2 DEF Exclusive

LEMMA OthersKept ==
  ASSUME IInv, Exclusive, NEW p \in Party, NEW t \in Thread,
         ~Ended(p, t), \A r \in Awaits[t] : Ended(p, r), Local(p, t),
         NEW q \in Party, NEW u \in Thread, q # p \/ u # t,
         frame[q][u].step # "Idle"
  PROVE  SameFor(q, u)
<1>1. q = p => Uses[t] \cap Uses[u] = {} BY ThreadsApart
<1>2. Uses[u] \subseteq Var /\ Uses[t] \subseteq Var BY DEF UsesAssumption
<1>3. \A v \in Uses[u], w \in Uses[t] :
        q = p => memory[p][v].addr # memory[p][w].addr
  BY <1>1, <1>2 DEF IInv, MemoryInv
<1> SUFFICES ASSUME NEW v \in Uses[u]
             PROVE  /\ memory'[q][v] = memory[q][v]
                    /\ \A m : m.addr = memory[q][v].addr =>
                                (m \in meta'[q] <=> m \in meta[q])
                    /\ \A e : e.addr = memory[q][v].addr =>
                                (e \in entries'[q] <=> e \in entries[q])
  BY DEF SameFor
<1>4. memory'[q][v] = memory[q][v] BY <1>1, <1>2 DEF Local
<1>5. ASSUME NEW m, m.addr = memory[q][v].addr PROVE m \in meta'[q] <=> m \in meta[q]
  BY <1>3, <1>5 DEF Local
<1>6. ASSUME NEW e, e.addr = memory[q][v].addr
      PROVE  e \in entries'[q] <=> e \in entries[q]
  BY <1>3, <1>6 DEF Local
<1> QED BY <1>4, <1>5, <1>6

(* A step that is local preserves the invariant if its own part does.      *)
LEMMA LocalStep ==
  ASSUME IInv, Exclusive, NEW p \in Party, NEW t \in Thread,
         Moves(p, t), Local(p, t), \A r \in Awaits[t] : Ended(p, r),
         TypeOK', MemoryInv', EntryInv',
         FrameOK(p, t, frame[p][t])', frame'[p][t].step # "Failed"
  PROVE  IInv'
<1>1. FrameInv'
  <2> SUFFICES ASSUME NEW q \in Party, NEW u \in Thread
               PROVE  /\ FrameOK(q, u, frame[q][u])'
                      /\ frame'[q][u].step # "Failed"
    BY DEF FrameInv
  <2>1. CASE q = p /\ u = t BY <2>1
  <2>2. CASE q # p \/ u # t
    <3>1. PICK f : f = frame[q][u] OBVIOUS
    <3>2. frame'[q][u] = f BY <2>2, <3>1 DEF Moves
    <3>3. FrameOK(q, u, f) /\ f.step # "Failed" BY <3>1 DEF IInv, FrameInv
    <3>4. FrameOK(q, u, f)'
      <4>1. CASE f.step = "Idle" BY <4>1 DEF FrameOK
      <4>2. CASE f.step # "Idle"
        <5>1. SameFor(q, u) BY <2>2, <3>1, <4>2, OthersKept DEF Moves
        <5> QED BY <3>3, <5>1, FrameKept
      <4> QED BY <4>1, <4>2
    <3> QED BY <3>2, <3>3, <3>4
  <2> QED BY <2>1, <2>2
<1>2. OrderInv'
  <2> SUFFICES ASSUME NEW q \in Party, NEW u \in Thread,
                      frame'[q][u].step # "Idle", NEW r \in Awaits[u]
               PROVE  Ended(q, r)'
    BY DEF OrderInv
  <2>1. r \in Thread BY DEF UsesAssumption
  <2>2. Ended(q, r)
    <3>1. CASE q = p /\ u = t BY <3>1
    <3>2. CASE q # p \/ u # t
      <4>1. frame[q][u].step # "Idle" BY <3>2 DEF Moves
      <4> QED BY <4>1 DEF IInv, OrderInv
    <3> QED BY <3>1, <3>2
  <2> QED BY <2>1, <2>2, EndedKept DEF IInv
<1> QED BY <1>1, <1>2 DEF IInv

LEMMA Initial == Init => IInv
<1> SUFFICES ASSUME Init PROVE IInv OBVIOUS
<1>1. PICK a \in [Var -> Addr] :
        /\ \A v, w \in Var : a[v] = a[w] => v = w
        /\ memory = [p \in Party |-> [v \in Var |-> [addr |-> a[v], gen |-> 0]]]
  BY DEF Init
<1>2. 0 \in 0 .. MaxGen /\ 0 \in 0 .. MaxOps BY DEF BoundsAssumption
<1>3. memory \in [Party -> [Var -> [addr : Addr, gen : 0 .. MaxGen]]]
  BY <1>1, <1>2
<1>4. \A p \in Party, v \in Var : memory[p][v].addr = a[v] /\ memory[p][v].gen = 0
  BY <1>1
<1>5. /\ meta \in [Party -> SUBSET [addr : Addr, var : Var, gen : 0 .. MaxGen]]
      /\ \A p \in Party : \A m \in meta[p] :
           m.var \in Var /\ m.addr = a[m.var] /\ m.gen = 0
  <2>1. \A p \in Party, v \in Marked :
          [addr |-> memory[p][v].addr, var |-> v, gen |-> 0]
            \in [addr : Addr, var : Var, gen : 0 .. MaxGen]
    BY <1>2, <1>4 DEF BoundsAssumption
  <2> QED BY <1>4, <2>1 DEF Init, BoundsAssumption
<1>6. TypeOK
  BY <1>2, <1>3, <1>5, IdleFrame DEF Init, TypeOK
<1>7. MemoryInv BY <1>1, <1>4, <1>5 DEF MemoryInv
<1>8. EntryInv BY DEF Init, EntryInv
<1>9. FrameInv BY IdleFrame DEF Init, FrameInv, FrameOK
<1>10. OrderInv BY IdleFrame DEF Init, OrderInv
<1> QED BY <1>6, <1>7, <1>8, <1>9, <1>10 DEF IInv
-----------------------------------------------------------------------------
LEMMA TakesMoves ==
  ASSUME IInv, NEW p \in Party, NEW t \in Thread, NEW op \in Ops[t],
         Takes(p, t, op)
  PROVE  /\ ~Ended(p, t) /\ \A r \in Awaits[t] : Ended(p, r)
         /\ frame[p][t].step = "Idle"
         /\ todo' \in [Party -> [Thread -> Seq(AllOps)]]
         /\ issued' \in [Thread -> 0 .. MaxOps]
         /\ frame' = frame => Moves(p, t) /\ FrameOK(p, t, frame[p][t])'
                              /\ frame'[p][t].step # "Failed"
<1>1. ~Ended(p, t) /\ \A r \in Awaits[t] : Ended(p, r)
  BY DEF Takes, Ended, BoundsAssumption
<1>2. /\ todo' \in [Party -> [Thread -> Seq(AllOps)]]
      /\ issued' \in [Thread -> 0 .. MaxOps]
      /\ frame[p][t].step = "Idle"
  BY TakesType DEF IInv
<1>3. frame' = frame => Moves(p, t) BY <1>1 DEF Moves, IInv, TypeOK
<1>4. frame' = frame => FrameOK(p, t, frame[p][t])'
  BY <1>2 DEF FrameOK
<1> QED BY <1>1, <1>2, <1>3, <1>4

LEMMA EnableStep ==
  ASSUME IInv, Exclusive, NEW p \in Party, NEW t \in Thread, NEW op \in Ops[t],
         EnableCache(p, t, op)
  PROVE  IInv'
<1>1. op.x \in View /\ op.x.var \in Var /\ op.x.var \in Uses[t]
  BY DEF Ops, View
<1>2. UNCHANGED <<memory, entries, counter, frame, chan>> /\ Takes(p, t, op)
  BY DEF EnableCache
<1> DEFINE new == [addr |-> AddrOf(p, op.x), var |-> op.x.var,
                   gen |-> memory[p][op.x.var].gen]
<1>3. /\ new \in [addr : Addr, var : Var, gen : 0 .. MaxGen]
      /\ new.addr = memory[p][op.x.var].addr /\ new.var = op.x.var
      /\ new.gen = memory[p][op.x.var].gen
  BY <1>1 DEF IInv, TypeOK, AddrOf
<1>4. meta' = [meta EXCEPT ![p] = IF IsMarked(p, op.x) THEN @ ELSE @ \cup {new}]
  BY DEF EnableCache
<1>5. \A q \in Party : meta'[q] = meta[q] \/ (q = p /\ meta'[q] = meta[q] \cup {new})
  BY <1>4 DEF IInv, TypeOK
<1> HIDE DEF new
<1>6. TypeOK'
  <2>1. meta' \in [Party -> SUBSET [addr : Addr, var : Var, gen : 0 .. MaxGen]]
    BY <1>3, <1>4 DEF IInv, TypeOK
  <2> QED BY <1>2, <2>1, TakesMoves DEF IInv, TypeOK
<1>7. MemoryInv'
  BY <1>1, <1>2, <1>3, <1>5 DEF IInv, MemoryInv
<1>8. EntryInv' BY <1>2 DEF IInv, EntryInv, EntryOK
<1>9. Local(p, t) BY <1>1, <1>2, <1>3, <1>5 DEF Local
<1> QED BY <1>2, <1>6, <1>7, <1>8, <1>9, TakesMoves, LocalStep

LEMMA DisableStep ==
  ASSUME IInv, Exclusive, NEW p \in Party, NEW t \in Thread, NEW op \in Ops[t],
         DisableCache(p, t, op)
  PROVE  IInv'
<1>1. op.x.var \in Uses[t] BY DEF Ops
<1>2. /\ meta' = [meta EXCEPT ![p] = {m \in @ : m.addr # AddrOf(p, op.x)}]
      /\ entries' = [entries EXCEPT ![p] = {e \in @ : e.addr # AddrOf(p, op.x)}]
      /\ UNCHANGED <<memory, counter, frame, chan>> /\ Takes(p, t, op)
  BY DEF DisableCache
<1>3. \A q \in Party :
        /\ meta'[q] \subseteq meta[q] /\ entries'[q] \subseteq entries[q]
        /\ \A m \in meta'[q], e \in entries[q] :
             e.addr = m.addr => e \in entries'[q]
  BY <1>2 DEF IInv, TypeOK
<1>4. TypeOK'
  <2>1. /\ meta' \in [Party -> SUBSET [addr : Addr, var : Var, gen : 0 .. MaxGen]]
        /\ entries' \in [Party -> SUBSET Entry]
    BY <1>2 DEF IInv, TypeOK
  <2> QED BY <1>2, <2>1, TakesMoves DEF IInv, TypeOK
<1>5. MemoryInv' BY SMTT(60), <1>2, <1>3 DEF IInv, MemoryInv, TypeOK
<1>6. EntryInv' BY <1>2, <1>3 DEF IInv, EntryInv, EntryOK
<1>7. Local(p, t) BY <1>1, <1>2 DEF Local, AddrOf, IInv, TypeOK
<1> QED BY <1>2, <1>4, <1>5, <1>6, <1>7, TakesMoves, LocalStep

(* The new buffer is that of no other variable and of no entry; a mark at  *)
(* its address would be held by the variable itself, which is dropped.     *)
LEMMA ReplaceStep ==
  ASSUME IInv, Exclusive, NEW p \in Party, NEW t \in Thread, NEW op \in Ops[t],
         Replace(p, t, op)
  PROVE  IInv'
<1> DEFINE r == op.x.var
<1>1. op.x \in View /\ r \in Var /\ r \in Uses[t] BY DEF Ops, View
<1>2. /\ todo' \in [Party -> [Thread -> Seq(AllOps)]]
      /\ issued' \in [Thread -> 0 .. MaxOps] /\ Takes(p, t, op)
  BY TakesMoves DEF Replace
<1>3. PICK a \in Addr \ HeldBy(p, r) :
        memory' = [memory EXCEPT ![p][r] = [addr |-> a, gen |-> @.gen + 1]]
  BY DEF Replace
<1>4. UNCHANGED <<meta, entries, counter, frame, chan>> BY DEF Replace
<1> DEFINE g == memory[p][r].gen + 1
<1>5. g \in 0 .. MaxGen BY <1>1 DEF Replace, IInv, TypeOK
<1>6. memory' = [memory EXCEPT ![p] = [memory[p] EXCEPT ![r] =
                   [addr |-> a, gen |-> g]]]
  BY <1>1, <1>3 DEF IInv, TypeOK
<1> HIDE DEF r, g
<1>7. \A q \in Party, v \in Var :
        memory'[q][v] = IF q = p /\ v = r THEN [addr |-> a, gen |-> g]
                        ELSE memory[q][v]
  BY <1>1, <1>6 DEF IInv, TypeOK
<1>8. /\ \A w \in Var \ {r} : memory[p][w].addr # a
      /\ \A e \in entries[p] : e.addr # a
  BY <1>3 DEF HeldBy
<1>9. TypeOK'
  <2>1. memory' \in [Party -> [Var -> [addr : Addr, gen : 0 .. MaxGen]]]
    BY <1>1, <1>3, <1>5, <1>6 DEF IInv, TypeOK
  <2> QED BY <1>2, <1>4, <2>1 DEF IInv, TypeOK
<1>10. DropsFirst =>
         (\A m \in meta[p] : m.addr = memory[p][r].addr =>
            \E e \in entries[p] : e.addr = memory[p][r].addr)
  BY DEF Replace, IsMarked, AddrOf, r
<1>11. MemoryInv'
  <2>1. \A q \in Party, v, w \in Var :
          memory'[q][v].addr = memory'[q][w].addr => v = w
    BY <1>7, <1>8 DEF IInv, MemoryInv
  <2>2. ASSUME DropsFirst, NEW q \in Party, NEW m \in meta[q]
        PROVE  /\ \/ memory'[q][m.var].addr = m.addr
                  \/ \E e \in entries[q] : e.addr = m.addr
               /\ \A v \in Var : memory'[q][v].addr = m.addr =>
                                   m.var = v /\ m.gen = memory'[q][v].gen
    <3>0. m.var \in Var BY DEF IInv, TypeOK
    <3>1. CASE q # p BY <2>2, <3>0, <3>1, <1>7 DEF IInv, MemoryInv
    <3>2. CASE q = p
      <4>1. \/ memory'[q][m.var].addr = m.addr
            \/ \E e \in entries[q] : e.addr = m.addr
        BY <2>2, <3>0, <3>2, <1>7, <1>10 DEF IInv, MemoryInv
      <4>2. m.addr # a
        <5>1. SUFFICES ASSUME m.addr = a PROVE FALSE OBVIOUS
        <5>2. memory[p][m.var].addr = a
          BY <2>2, <3>2, <5>1, <1>8 DEF IInv, MemoryInv
        <5>3. m.var = r BY <3>0, <5>2, <1>8
        <5>4. \E e \in entries[p] : e.addr = a
          BY <2>2, <3>2, <5>1, <5>2, <5>3, <1>10
        <5> QED BY <5>4, <1>8
      <4>3. \A v \in Var \ {r} : memory'[q][v].addr = m.addr =>
              m.var = v /\ m.gen = memory'[q][v].gen
        BY <2>2, <3>2, <1>7 DEF IInv, MemoryInv
      <4>4. memory'[q][r].addr = a BY <1>1, <1>7, <3>2 DEF r
      <4> QED BY <4>1, <4>2, <4>3, <4>4
    <3> QED BY <3>1, <3>2
  <2> QED BY <1>4, <2>1, <2>2 DEF IInv, MemoryInv
<1>12. EntryInv'
  <2> SUFFICES ASSUME NEW q \in Party, NEW e \in entries[q], EntryOK(q, e)
               PROVE  EntryOK(q, e)'
    BY <1>4 DEF IInv, EntryInv
  <2>1. \A v \in Var : memory'[q][v].addr = e.addr =>
          memory'[q][v] = memory[q][v]
    BY <1>7, <1>8
  <2> QED BY <2>1 DEF EntryOK
<1>13. Local(p, t) BY <1>1, <1>4, <1>7 DEF Local
<1> QED BY <1>2, <1>4, <1>9, <1>11, <1>12, <1>13, TakesMoves, LocalStep
-----------------------------------------------------------------------------
LEMMA Advances ==
  ASSUME IInv, NEW p \in Party, NEW t \in Thread, NEW f \in Frame,
         Advance(p, t, f)
  PROVE  /\ frame' \in [Party -> [Thread -> Frame]] /\ frame'[p][t] = f
         /\ \A q \in Party, u \in Thread :
              q # p \/ u # t => frame'[q][u] = frame[q][u]
BY DEF Advance, IInv, TypeOK

(* The cache and the memory are not touched.                               *)
LEMMA CacheKept ==
  ASSUME MemoryInv, EntryInv,
         memory' = memory, meta' = meta, entries' = entries
  PROVE  MemoryInv' /\ EntryInv'
BY DEF MemoryInv, EntryInv, EntryOK

(* A step of a product that changes neither memory nor cache: it is enough *)
(* that the rest is well-typed and the new frame is right.                 *)
LEMMA ProductStep ==
  ASSUME IInv, Exclusive, NEW p \in Party, NEW t \in Thread, NEW f \in Frame,
         Advance(p, t, f), FrameOK(p, t, f), f.step # "Failed",
         UNCHANGED <<memory, meta, entries>>,
         ~Ended(p, t), \A r \in Awaits[t] : Ended(p, r),
         UNCHANGED <<todo, issued>> \/ \E op \in Ops[t] : Takes(p, t, op),
         todo' \in [Party -> [Thread -> Seq(AllOps)]],
         issued' \in [Thread -> 0 .. MaxOps],
         counter' \in [Party -> [Thread -> Nat]],
         chan' \in [Thread -> [Party -> [Party -> Seq(Message)]]]
  PROVE  IInv'
<1>1. Moves(p, t) BY Advances DEF Moves
<1>2. MemoryInv' /\ EntryInv' BY CacheKept DEF IInv
<1>3. TypeOK' BY Advances DEF IInv, TypeOK
<1>4. Local(p, t) BY DEF Local
<1>5. FrameOK(p, t, f)'
  <2>1. SameFor(p, t) BY DEF SameFor
  <2> QED BY <2>1, FrameKept
<1>6. FrameOK(p, t, frame[p][t])' /\ frame'[p][t].step # "Failed"
  BY <1>5, Advances
<1> QED BY <1>1, <1>2, <1>3, <1>4, <1>6, LocalStep

LEMMA FrameOf ==
  ASSUME IInv, NEW p \in Party, NEW t \in Thread
  PROVE  frame[p][t] \in Frame /\ FrameOK(p, t, frame[p][t])
BY DEF IInv, TypeOK, FrameInv

LEMMA Running ==
  ASSUME IInv, NEW p \in Party, NEW t \in Thread, frame[p][t].step # "Idle"
  PROVE  ~Ended(p, t) /\ \A r \in Awaits[t] : Ended(p, r)
BY DEF Ended, IInv, OrderInv

(* The fields of TypeOK that a step leaves alone stay well-typed.          *)
LEMMA TypesKept ==
  ASSUME IInv
  PROVE  /\ UNCHANGED <<todo, issued>> =>
              /\ todo' \in [Party -> [Thread -> Seq(AllOps)]]
              /\ issued' \in [Thread -> 0 .. MaxOps]
         /\ UNCHANGED counter => counter' \in [Party -> [Thread -> Nat]]
         /\ UNCHANGED chan =>
              chan' \in [Thread -> [Party -> [Party -> Seq(Message)]]]
BY DEF IInv, TypeOK

(* GetCache misses a marked view only if there is no entry for it.         *)
LEMMA GetCachePending ==
  ASSUME NEW p, NEW view, NEW kind, NEW o, o = GetCache(p, view, kind = "dot")
  PROVE  Pending(p, view, o)
BY DEF GetCache, Pending, IsHit, Off

LEMMA LookXStep ==
  ASSUME IInv, Exclusive, NEW p \in Party, NEW t \in Thread, NEW op \in Ops[t],
         LookX(p, t, op)
  PROVE  IInv'
<1>1. PICK x : x = GetCache(p, op.x, op.kind = "dot") OBVIOUS
<1>2. PICK f : f = [step |-> IF op.kind = "square" THEN "Draw" ELSE "LookY",
                    op |-> op, left |-> {},
                    opd |-> [s \in Sides |-> IF s = "x" THEN x ELSE Off]]
  OBVIOUS
<1>3. Advance(p, t, f) /\ op.kind \in Products /\ Takes(p, t, op)
  BY <1>1, <1>2 DEF LookX
<1>4. op.x \in View /\ op \in AllOps BY DEF Ops, AllOps
<1>5. x \in Lookup /\ LookedUp(p, op.kind, op.x, x) /\ Pending(p, op.x, x)
  BY <1>1, <1>4, GetCacheFinds, GetCachePending DEF IInv
<1>6. f \in Frame
  <2>1. [s \in Sides |-> IF s = "x" THEN x ELSE Off] \in [Sides -> Lookup]
    BY <1>5, OffType
  <2> QED BY <1>2, <1>4, <2>1 DEF Frame, Steps
<1>7. FrameOK(p, t, f) /\ f.step # "Failed"
  <2>1. /\ f.op = op /\ f.opd["x"] = x /\ f.opd["y"] = Off
        /\ f.step \in {"Draw", "LookY"}
        /\ f.step = "Draw" <=> op.kind = "square"
    BY <1>2 DEF Sides
  <2>2. op.kind = "square" => Operands(op) = {"x"} BY DEF Operands
  <2>3. ~Off.on BY DEF Off
  <2> QED BY <1>1, <1>3, <1>5, <2>1, <2>2, <2>3 DEF FrameOK, OperandView
<1>8. UNCHANGED <<memory, meta, entries, counter, chan>> BY DEF LookX
<1> QED BY <1>3, <1>6, <1>7, <1>8, TypesKept, TakesMoves, ProductStep

LEMMA LookYStep ==
  ASSUME IInv, Exclusive, NEW p \in Party, NEW t \in Thread, LookY(p, t)
  PROVE  IInv'
<1>1. PICK f : f = frame[p][t] OBVIOUS
<1>2. f \in Frame /\ FrameOK(p, t, f) /\ f.step = "LookY"
  BY <1>1, FrameOf DEF LookY
<1>3. /\ f.op \in Ops[t] /\ f.op.kind \in Products /\ f.op.kind # "square"
      /\ f.opd["x"] = GetCache(p, f.op.x, f.op.kind = "dot")
  BY <1>2 DEF FrameOK, Steps
<1>4. f.op.x \in View /\ f.op.y \in View BY <1>3 DEF Ops
<1>5. PICK x : x = f.opd["x"] OBVIOUS
<1>6. PICK y : y = GetCache(p, f.op.y, f.op.kind = "dot") OBVIOUS
<1>7. /\ x \in Lookup /\ LookedUp(p, f.op.kind, f.op.x, x) /\ Pending(p, f.op.x, x)
      /\ y \in Lookup /\ LookedUp(p, f.op.kind, f.op.y, y) /\ Pending(p, f.op.y, y)
  BY ZenonT(60), <1>3, <1>4, <1>5, <1>6, GetCacheFinds, GetCachePending DEF IInv
<1>8. PICK z : z = IF CachedTwice(f.op, x) THEN [y EXCEPT !.on = FALSE] ELSE y
  OBVIOUS
<1>9. /\ z \in Lookup /\ LookedUp(p, f.op.kind, f.op.y, z) /\ Pending(p, f.op.y, z)
      /\ CachedTwice(f.op, x) => ~z.on
  <2>1. CASE CachedTwice(f.op, x)
    <3>1. y = x /\ ~IsHit(y) BY <1>3, <1>5, <1>6, <2>1 DEF CachedTwice, IsHit
    <3>2. z \in Lookup /\ ~z.on /\ z.status = y.status
      BY <1>7, <1>8, <2>1 DEF Lookup
    <3> QED BY <3>1, <3>2 DEF LookedUp, Pending, IsHit
  <2>2. CASE ~CachedTwice(f.op, x) BY <1>7, <1>8, <2>2
  <2> QED BY <2>1, <2>2
<1>10. PICK g : g = [f EXCEPT !.step = "Draw", !.opd["y"] = z] OBVIOUS
<1>11. Advance(p, t, g) BY <1>1, <1>5, <1>6, <1>8, <1>10 DEF LookY
<1>12. /\ g \in Frame /\ g.step = "Draw" /\ g.op = f.op
       /\ g.opd["x"] = x /\ g.opd["y"] = z
  <2>1. [f.opd EXCEPT !["y"] = z] \in [Sides -> Lookup]
    BY <1>2, <1>9 DEF Frame
  <2>2. g = [f EXCEPT !.step = "Draw", !.opd = [f.opd EXCEPT !["y"] = z]]
    BY <1>2, <1>10 DEF Frame
  <2>3. /\ [f.opd EXCEPT !["y"] = z]["x"] = x
        /\ [f.opd EXCEPT !["y"] = z]["y"] = z
    BY <1>2, <1>5 DEF Frame, Sides
  <2> QED BY <1>2, <2>1, <2>2, <2>3 DEF Frame, Steps
<1>13. FrameOK(p, t, g)
  <2>1. \A s \in Operands(g.op) :
          /\ LookedUp(p, g.op.kind, OperandView(g.op, s), g.opd[s])
          /\ Pending(p, OperandView(g.op, s), g.opd[s])
    BY <1>7, <1>9, <1>12 DEF Operands, OperandView, Sides
  <2> QED BY <1>3, <1>9, <1>12, <2>1 DEF FrameOK
<1>14. UNCHANGED <<todo, issued, memory, meta, entries, counter, chan>>
       /\ frame[p][t].step # "Idle" /\ g.step # "Failed"
  BY <1>12 DEF LookY
<1> QED BY <1>11, <1>12, <1>13, <1>14, TypesKept, Running, ProductStep

(* A drawn mask is fresh, or the one the opening that was found is under.  *)
DrawnFor(p, kind, view, o, c, d) ==
  /\ d \in Lookup /\ d.on = o.on /\ d.status = o.status
  /\ Masked(p, view, d, IsHit(o)) /\ Pending(p, view, d)
  /\ Drawn(kind, o, c) \in Nat

LEMMA DrawOwn ==
  ASSUME NEW p, NEW t \in Thread, NEW kind \in Products, NEW view,
         NEW o \in Lookup, LookedUp(p, kind, view, o), Pending(p, view, o),
         NEW c \in Nat, NEW d, d = Draw(t, kind, o, c)
  PROVE  DrawnFor(p, kind, view, o, c, d)
<1> USE DEF DrawnFor
<1>1. PICK m : d = [o EXCEPT !.mask = m] /\
        m = IF Described(kind, o) /\ o.status # "Init"
            THEN [o.mask EXCEPT !.trans = (o.status = "TransposeReplay")]
            ELSE [ctx |-> t, at |-> c, trans |-> FALSE]
  BY DEF Draw
<1>2. CASE IsHit(o)
  <2>1. /\ o.status \in {"Replay", "TransposeReplay"} /\ o.on /\ o.mask \in Mask
        /\ OwnOpening(p, view, o,
             [o.mask EXCEPT !.trans = (o.status = "TransposeReplay")])
    BY <1>2 DEF LookedUp, IsHit, Lookup
  <2>2. Described(kind, o) /\ o.status # "Init"
    BY <2>1 DEF Described, LookedUp
  <2>3. m = [o.mask EXCEPT !.trans = (o.status = "TransposeReplay")]
    BY <1>1, <2>2
  <2>4. m \in Mask
    <3>1. PICK b \in BOOLEAN : b = (o.status = "TransposeReplay") OBVIOUS
    <3> QED BY <2>1, <2>3, <3>1, MaskOf
  <2>5. d \in Lookup /\ d.on = o.on /\ d.status = o.status /\ d.mask = m
        /\ d.open = o.open
    BY <1>1, <2>4 DEF Lookup
  <2>6. Masked(p, view, d, IsHit(o))
    BY <1>2, <2>1, <2>3, <2>4, <2>5 DEF Masked, OwnOpening, IsHit
  <2>7. Pending(p, view, d) BY <1>2, <2>5 DEF Pending, IsHit
  <2> QED BY <2>5, <2>6, <2>7 DEF Drawn
<1>3. CASE ~IsHit(o)
  <2>1. m = [ctx |-> t, at |-> c, trans |-> FALSE] BY <1>1, <1>3 DEF IsHit
  <2>2. m \in Mask /\ ~m.trans BY <2>1 DEF Mask
  <2>3. d \in Lookup /\ d.on = o.on /\ d.status = o.status /\ d.mask = m
        /\ d.open = o.open
    BY <1>1, <2>2 DEF Lookup
  <2>4. Masked(p, view, d, IsHit(o)) BY <1>3, <2>2, <2>3 DEF Masked
  <2>5. Pending(p, view, d) BY <2>3 DEF Pending, IsHit
  <2> QED BY <2>3, <2>4, <2>5 DEF Drawn
<1> QED BY <1>2, <1>3

LEMMA DrawStep ==
  ASSUME IInv, Exclusive, NEW p \in Party, NEW t \in Thread, DrawMasks(p, t)
  PROVE  IInv'
<1>1. PICK f : f = frame[p][t] OBVIOUS
<1>2. f \in Frame /\ FrameOK(p, t, f) /\ f.step = "Draw"
  BY <1>1, FrameOf DEF DrawMasks
<1>3. /\ f.op \in Ops[t] /\ f.op.kind \in Products
      /\ \A s \in Operands(f.op) :
           /\ LookedUp(p, f.op.kind, OperandView(f.op, s), f.opd[s])
           /\ Pending(p, OperandView(f.op, s), f.opd[s])
      /\ f.op.kind = "square" => ~f.opd["y"].on
      /\ f.op.kind # "square" /\ CachedTwice(f.op, f.opd["x"]) => ~f.opd["y"].on
  BY <1>2 DEF FrameOK, Steps
<1>4. /\ \A s \in Sides : f.opd[s] \in Lookup
      /\ Operands(f.op) \subseteq Sides /\ "x" \in Operands(f.op)
      /\ "x" \in Sides /\ "y" \in Sides
      /\ "y" \in Operands(f.op) <=> f.op.kind # "square"
  BY <1>2 DEF Frame, Operands, Sides
<1>5. PICK c \in Nat : c = counter[p][t] BY DEF IInv, TypeOK
<1>6. PICK d : d = Drawn(f.op.kind, f.opd["x"], c) OBVIOUS
<1>7. PICK masked : masked =
        [s \in Sides |-> IF s \notin Operands(f.op) THEN Off
                         ELSE Draw(t, f.op.kind, f.opd[s], IF s = "x" THEN c ELSE d)]
  OBVIOUS
<1>8. PICK e : e = IF f.op.kind = "square" THEN d
                   ELSE Drawn(f.op.kind, f.opd["y"], d)
  OBVIOUS
<1>9. PICK left : left = {s \in Operands(f.op) : ~IsHit(f.opd[s])} OBVIOUS
<1>10. PICK g : g = [f EXCEPT !.step = "Open", !.opd = masked, !.left = left]
  OBVIOUS
<1>11. /\ counter' = [counter EXCEPT ![p][t] = e + 1] /\ Advance(p, t, g)
       /\ UNCHANGED <<todo, issued, memory, meta, entries, chan>>
  BY <1>1, <1>5, <1>6, <1>7, <1>8, <1>9, <1>10 DEF DrawMasks, Beaver
<1>0. ASSUME NEW s \in Operands(f.op), NEW n \in Nat
      PROVE  DrawnFor(p, f.op.kind, OperandView(f.op, s), f.opd[s], n,
                      Draw(t, f.op.kind, f.opd[s], n))
  <2>1. PICK o : o = f.opd[s] OBVIOUS
  <2>2. PICK view : view = OperandView(f.op, s) OBVIOUS
  <2>3. PICK k \in Products : k = f.op.kind BY <1>3
  <2>4. PICK m : m = Draw(t, k, o, n) OBVIOUS
  <2>5. o \in Lookup /\ LookedUp(p, k, view, o) /\ Pending(p, view, o)
    BY <1>3, <1>4, <2>1, <2>2, <2>3
  <2>6. DrawnFor(p, k, view, o, n, m) BY <2>4, <2>5, DrawOwn
  <2> QED BY <2>1, <2>2, <2>3, <2>4, <2>6
<1>12. d \in Nat BY <1>0, <1>4, <1>6 DEF DrawnFor
<1>13. e \in Nat BY <1>0, <1>4, <1>8, <1>12 DEF DrawnFor
<1>14. \A s \in Operands(f.op) :
         /\ masked[s] \in Lookup /\ masked[s].on = f.opd[s].on
         /\ masked[s].status = f.opd[s].status
         /\ Masked(p, OperandView(f.op, s), masked[s], IsHit(f.opd[s]))
         /\ Pending(p, OperandView(f.op, s), masked[s])
  <2> SUFFICES ASSUME NEW s \in Operands(f.op)
               PROVE  /\ masked[s] \in Lookup /\ masked[s].on = f.opd[s].on
                      /\ masked[s].status = f.opd[s].status
                      /\ Masked(p, OperandView(f.op, s), masked[s], IsHit(f.opd[s]))
                      /\ Pending(p, OperandView(f.op, s), masked[s])
    OBVIOUS
  <2>1. PICK n \in Nat : n = IF s = "x" THEN c ELSE d BY <1>12
  <2>2. masked[s] = Draw(t, f.op.kind, f.opd[s], n) BY <1>4, <1>7, <2>1
  <2>3. DrawnFor(p, f.op.kind, OperandView(f.op, s), f.opd[s], n, masked[s])
    BY <1>0, <2>2
  <2> QED BY <2>3 DEF DrawnFor
<1>15. f.op.kind = "square" => masked["y"] = Off BY <1>4, <1>7
<1>16. g \in Frame /\ g.step = "Open" /\ g.op = f.op /\ g.left = left
       /\ g.opd = masked
  <2>1. masked \in [Sides -> Lookup]
    <3>1. \A s \in Sides : masked[s] \in Lookup BY <1>7, <1>14, OffType
    <3> QED BY <1>7, <3>1
  <2>2. left \subseteq Sides BY <1>4, <1>9
  <2> QED BY <1>2, <1>10, <2>1, <2>2 DEF Frame, Steps
<1>17. FrameOK(p, t, g)
  <2>1. /\ g.left \subseteq Operands(g.op)
        /\ \A s \in Operands(g.op) :
             Masked(p, OperandView(g.op, s), g.opd[s], s \notin g.left)
    BY <1>9, <1>14, <1>16 DEF Masked
  <2>2. \A s \in Operands(g.op) : Pending(p, OperandView(g.op, s), g.opd[s])
    BY <1>14, <1>16
  <2>3. g.op.kind = "square" => ~g.opd["y"].on BY <1>15, <1>16 DEF Off
  <2>4. g.op.kind # "square" /\ CachedTwice(g.op, g.opd["x"]) => ~g.opd["y"].on
    BY <1>3, <1>4, <1>14, <1>16 DEF CachedTwice
  <2> QED BY <1>3, <1>16, <2>1, <2>2, <2>3, <2>4 DEF FrameOK
<1>18. counter' \in [Party -> [Thread -> Nat]]
  BY <1>11, <1>13 DEF IInv, TypeOK
<1>19. frame[p][t].step # "Idle" /\ g.step # "Failed" BY <1>1, <1>2, <1>16
<1> QED BY <1>11, <1>16, <1>17, <1>18, <1>19, TypesKept, Running, ProductStep

(* The contribution of a party is its own share of what is opened.         *)
LEMMA ContributionType ==
  ASSUME IInv, NEW p \in Party, NEW t \in Thread, NEW f \in Frame,
         FrameOK(p, t, f), f.step \in {"Open", "Wait"}
  PROVE  /\ Contribution(p, f) \in Message
         /\ Openings(f) \subseteq f.left /\ f.left \subseteq Operands(f.op)
         /\ \A s \in Openings(f) :
              /\ Contribution(p, f)[s] = [value |-> ValueOf(p, OperandView(f.op, s)),
                                          mask |-> f.opd[s].mask]
              /\ Contribution(p, f)[s] \in Share
<1>1. f.op \in Ops[t] /\ f.left \subseteq Operands(f.op) BY DEF FrameOK, Steps
<1>2. Operands(f.op) \subseteq Sides BY DEF Operands, Sides
<1>3. Openings(f) \subseteq f.left BY DEF Openings
<1>4. \A s \in Openings(f) :
        [value |-> ValueOf(p, OperandView(f.op, s)), mask |-> f.opd[s].mask] \in Share
  <2> SUFFICES ASSUME NEW s \in Openings(f)
               PROVE  [value |-> ValueOf(p, OperandView(f.op, s)),
                       mask |-> f.opd[s].mask] \in Share
    OBVIOUS
  <2>1. s \in Sides /\ s \in Operands(f.op) BY <1>1, <1>2, <1>3
  <2>2. f.opd[s].mask \in Mask BY <2>1 DEF FrameOK, Steps, Masked
  <2>3. OperandView(f.op, s) \in View BY <1>1, <2>1, ViewsOfOps
  <2>4. ValueOf(p, OperandView(f.op, s)) \in Value BY <2>3, Values DEF IInv
  <2> QED BY <2>2, <2>4, Shares
<1>5. \A s \in Openings(f) :
        Contribution(p, f)[s] = [value |-> ValueOf(p, OperandView(f.op, s)),
                                 mask |-> f.opd[s].mask]
  BY <1>1, <1>2, <1>3 DEF Contribution
<1>6. \A s \in Sides : Contribution(p, f)[s] \in Share \cup {None}
  BY <1>4, <1>5 DEF Contribution
<1>7. Contribution(p, f) \in Message BY <1>6 DEF Contribution, Message
<1> QED BY <1>1, <1>3, <1>4, <1>5, <1>7

LEMMA SendStep ==
  ASSUME IInv, Exclusive, NEW p \in Party, NEW t \in Thread, SendShares(p, t)
  PROVE  IInv'
<1>1. PICK f : f = frame[p][t] OBVIOUS
<1>2. f \in Frame /\ FrameOK(p, t, f) /\ f.step = "Open"
  BY <1>1, FrameOf DEF SendShares
<1>3. PICK g : g = [f EXCEPT !.step = "Wait"] OBVIOUS
<1>4. /\ Advance(p, t, g)
      /\ UNCHANGED <<todo, issued, memory, meta, entries, counter>>
  BY <1>1, <1>3 DEF SendShares
<1>5. g \in Frame /\ g.step = "Wait" /\ g.op = f.op /\ g.left = f.left
      /\ g.opd = f.opd
  BY <1>2, <1>3 DEF Frame, Steps
<1>6. FrameOK(p, t, g) BY <1>2, <1>5 DEF FrameOK, Steps
<1>7. PICK m : m = Contribution(p, f) OBVIOUS
<1>8. m \in Message BY <1>2, <1>7, ContributionType DEF Steps
<1>9. chan' = [chan EXCEPT ![t][p] =
                [q \in Party |-> IF q = p THEN @[q] ELSE Append(@[q], m)]]
  BY <1>1, <1>7 DEF SendShares
<1>10. chan' \in [Thread -> [Party -> [Party -> Seq(Message)]]]
  <2>1. chan \in [Thread -> [Party -> [Party -> Seq(Message)]]]
    BY DEF IInv, TypeOK
  <2>2. PICK c \in [Party -> Seq(Message)] : c = chan[t][p] BY <2>1
  <2>3. PICK d : d = [q \in Party |-> IF q = p THEN c[q] ELSE Append(c[q], m)]
    OBVIOUS
  <2>4. d \in [Party -> Seq(Message)] BY <1>8, <2>2, <2>3
  <2>5. chan' = [chan EXCEPT ![t][p] = d] BY <1>9, <2>2, <2>3
  <2> QED BY <2>1, <2>4, <2>5
<1>11. frame[p][t].step # "Idle" /\ g.step # "Failed" BY <1>1, <1>2, <1>5
<1> QED BY <1>4, <1>5, <1>6, <1>10, <1>11, TypesKept, Running, ProductStep

(* What the messages of a round sum up to, for the operand s.              *)
Sum(p, t, mine, s) ==
  [q \in Party |-> IF q = p THEN mine[s]
                   ELSE IF SameSides(Head(chan[t][q][p]), mine)
                   THEN Head(chan[t][q][p])[s] ELSE None]

LEMMA SumType ==
  ASSUME IInv, NEW p \in Party, NEW t \in Thread, NEW mine \in Message,
         \A q \in Party \ {p} : chan[t][q][p] # <<>>, NEW s \in Sides
  PROVE  /\ Sum(p, t, mine, s) \in [Party -> Share \cup {None}]
         /\ Sum(p, t, mine, s)[p] = mine[s]
<1>1. \A q \in Party \ {p} : Head(chan[t][q][p]) \in Message
  BY DEF IInv, TypeOK
<1>2. \A m \in Message : m[s] \in Share \cup {None} BY DEF Message
<1> QED BY <1>1, <1>2 DEF Sum

LEMMA AddSharesStep ==
  ASSUME IInv, Exclusive, NEW p \in Party, NEW t \in Thread, AddShares(p, t)
  PROVE  IInv'
<1>1. PICK f : f = frame[p][t] OBVIOUS
<1>2. f \in Frame /\ FrameOK(p, t, f) /\ f.step = "Wait"
  BY <1>1, FrameOf DEF AddShares
<1>3. PICK mine : mine = Contribution(p, f) OBVIOUS
<1>4. /\ mine \in Message
      /\ Openings(f) \subseteq f.left /\ f.left \subseteq Operands(f.op)
      /\ \A s \in Openings(f) :
           mine[s] = [value |-> ValueOf(p, OperandView(f.op, s)),
                      mask |-> f.opd[s].mask]
  BY <1>2, <1>3, ContributionType
<1>5. \A q \in Party \ {p} : chan[t][q][p] # <<>> BY DEF AddShares
<1>6. PICK opd : opd = [s \in Sides |->
                         IF s \in Openings(f)
                         THEN [f.opd[s] EXCEPT !.open = Sum(p, t, mine, s)]
                         ELSE f.opd[s]]
  OBVIOUS
<1>7. PICK left : left = f.left \ Openings(f) OBVIOUS
<1>8. PICK g : g = [f EXCEPT !.step = "Open", !.left = left, !.opd = opd]
  OBVIOUS
<1>9. /\ Advance(p, t, g)
      /\ UNCHANGED <<todo, issued, memory, meta, entries, counter>>
  <2>1. \A s \in Sides :
          Sum(p, t, mine, s) =
            [q \in Party |->
              IF SameSides(IF q = p THEN mine ELSE Head(chan[t][q][p]), mine)
              THEN (IF q = p THEN mine ELSE Head(chan[t][q][p]))[s] ELSE None]
    BY DEF Sum, SameSides
  <2>2. opd = [s \in Sides |->
                IF s \in Openings(f)
                THEN [f.opd[s] EXCEPT !.open =
                  [q \in Party |->
                    IF SameSides(IF q = p THEN mine ELSE Head(chan[t][q][p]), mine)
                    THEN (IF q = p THEN mine ELSE Head(chan[t][q][p]))[s]
                    ELSE None]]
                ELSE f.opd[s]]
    BY <1>6, <2>1
  <2> QED BY <1>1, <1>3, <1>7, <1>8, <2>2 DEF AddShares
<1>10. /\ \A s \in Sides : opd[s] \in Lookup /\ opd[s].on = f.opd[s].on
                           /\ opd[s].status = f.opd[s].status
                           /\ opd[s].mask = f.opd[s].mask
       /\ \A s \in Sides \cap Openings(f) : opd[s].open[p] = mine[s]
       /\ \A s \in Sides \ Openings(f) : opd[s] = f.opd[s]
  <2> SUFFICES ASSUME NEW s \in Sides
               PROVE  /\ opd[s] \in Lookup /\ opd[s].on = f.opd[s].on
                      /\ opd[s].status = f.opd[s].status
                      /\ opd[s].mask = f.opd[s].mask
                      /\ s \in Openings(f) => opd[s].open[p] = mine[s]
                      /\ s \notin Openings(f) => opd[s] = f.opd[s]
    OBVIOUS
  <2>1. f.opd[s] \in Lookup BY <1>2 DEF Frame
  <2>2. CASE s \notin Openings(f) BY <1>6, <2>1, <2>2
  <2>3. CASE s \in Openings(f)
    <3>1. PICK sum : sum = Sum(p, t, mine, s) OBVIOUS
    <3>2. sum \in [Party -> Share \cup {None}] /\ sum[p] = mine[s]
      BY <1>4, <1>5, <3>1, SumType
    <3>3. opd[s] = [f.opd[s] EXCEPT !.open = sum] BY <1>6, <2>3, <3>1
    <3> QED BY <2>1, <2>3, <3>2, <3>3 DEF Lookup
  <2> QED BY <2>2, <2>3
<1>11. f.op \in Ops[t] /\ Operands(f.op) \subseteq Sides /\ "x" \in Sides /\ "y" \in Sides
  BY <1>2 DEF FrameOK, Steps, Operands, Sides
<1>12. g \in Frame /\ g.step = "Open" /\ g.op = f.op /\ g.left = left
       /\ g.opd = opd
  <2>1. opd \in [Sides -> Lookup] BY <1>6, <1>10
  <2>2. left \subseteq Sides BY <1>4, <1>7, <1>11
  <2> QED BY <1>2, <1>8, <2>1, <2>2 DEF Frame, Steps
<1>13. FrameOK(p, t, g)
  <2>1. /\ g.left \subseteq Operands(g.op)
        /\ \A s \in Operands(g.op) :
             Masked(p, OperandView(g.op, s), g.opd[s], s \notin g.left)
    <3>1. \A s \in Operands(f.op) :
            Masked(p, OperandView(f.op, s), f.opd[s], s \notin f.left)
      BY <1>2 DEF FrameOK, Steps
    <3>2. \A s \in Operands(f.op) :
            Masked(p, OperandView(f.op, s), opd[s], s \notin left)
      BY <1>4, <1>7, <1>10, <1>11, <3>1 DEF Masked, IsHit, OwnOpening
    <3> QED BY <1>4, <1>7, <1>12, <3>2
  <2>2. \A s \in Operands(g.op) : Pending(p, OperandView(g.op, s), g.opd[s])
    BY <1>2, <1>10, <1>11, <1>12 DEF FrameOK, Steps, Pending, IsHit
  <2>3. /\ g.op.kind = "square" => ~g.opd["y"].on
        /\ g.op.kind # "square" /\ CachedTwice(g.op, g.opd["x"]) => ~g.opd["y"].on
    BY <1>2, <1>10, <1>11, <1>12 DEF FrameOK, Steps, CachedTwice
  <2>4. f.op.kind \in Products BY <1>2 DEF FrameOK, Steps
  <2> QED BY <1>11, <1>12, <2>1, <2>2, <2>3, <2>4 DEF FrameOK
<1>14. chan' \in [Thread -> [Party -> [Party -> Seq(Message)]]]
  <2>1. chan \in [Thread -> [Party -> [Party -> Seq(Message)]]]
    BY DEF IInv, TypeOK
  <2>2. PICK c \in [Party -> [Party -> Seq(Message)]] : c = chan[t] BY <2>1
  <2>3. PICK d : d = [q \in Party |-> IF q = p THEN c[q]
                                      ELSE [c[q] EXCEPT ![p] = Tail(@)]]
    OBVIOUS
  <2>4. \A q \in Party \ {p} : Tail(c[q][p]) \in Seq(Message)
    BY <1>5, <2>2
  <2>5. d \in [Party -> [Party -> Seq(Message)]]
    <3>1. \A q \in Party \ {p} :
            [c[q] EXCEPT ![p] = Tail(@)] \in [Party -> Seq(Message)]
      BY <2>2, <2>4
    <3> QED BY <2>2, <2>3, <3>1
  <2>6. chan' = [chan EXCEPT ![t] = d]
    <3>1. d = [q \in Party |-> IF q = p THEN chan[t][q]
                               ELSE [chan[t][q] EXCEPT ![p] = Tail(@)]]
      BY <2>2, <2>3
    <3>2. chan' = [chan EXCEPT ![t] =
                    [q \in Party |-> IF q = p THEN chan[t][q]
                                     ELSE [chan[t][q] EXCEPT ![p] = Tail(@)]]]
      BY DEF AddShares
    <3> QED BY <3>1, <3>2, Zenon
  <2> QED BY <2>1, <2>5, <2>6
<1>15. frame[p][t].step # "Idle" /\ g.step # "Failed" BY <1>1, <1>2, <1>12
<1> QED BY <1>9, <1>12, <1>13, <1>14, <1>15, TypesKept, Running, ProductStep
(* No two variables of a party are at the same address.                    *)
LEMMA AddrOwns ==
  ASSUME MemoryInv, NEW p \in Party, NEW v \in Var, NEW w \in Var,
         memory[p][v].addr = memory[p][w].addr
  PROVE  v = w
<1>1. \A a, b \in Var : memory[p][a].addr = memory[p][b].addr => a = b
  BY DEF MemoryInv
<1> QED BY <1>1

(* The memory invariant outlives an insertion in the caches.               *)
LEMMA MemoryStays ==
  ASSUME MemoryInv, UNCHANGED <<memory, meta>>,
         \A q \in Party : \A e : e \in entries[q] => e \in entries'[q]
  PROVE  MemoryInv'
<1> SUFFICES ASSUME NEW q \in Party
             PROVE  /\ \A v, w \in Var :
                         memory[q][v].addr = memory[q][w].addr => v = w
                    /\ DropsFirst => \A m \in meta[q] :
                         /\ \/ memory[q][m.var].addr = m.addr
                            \/ \E e \in entries'[q] : e.addr = m.addr
                         /\ \A v \in Var : memory[q][v].addr = m.addr =>
                                  m.var = v /\ m.gen = memory[q][v].gen
  BY DEF MemoryInv
<1>1. \A v, w \in Var : memory[q][v].addr = memory[q][w].addr => v = w
  BY DEF MemoryInv
<1>2. DropsFirst => \A m \in meta[q] :
        /\ \/ memory[q][m.var].addr = m.addr
           \/ \E e \in entries[q] : e.addr = m.addr
        /\ \A v \in Var : memory[q][v].addr = m.addr =>
                 m.var = v /\ m.gen = memory[q][v].gen
  BY DEF MemoryInv
<1> QED BY <1>1, <1>2

(* A party that made an opening of its own has something in it.            *)
LEMMA OwnIsSome ==
  ASSUME NEW p \in Party, NEW view, NEW o, NEW mask \in Mask,
         ValueOf(p, view) \in Value, OwnOpening(p, view, o, mask)
  PROVE  /\ o.open[p] # None /\ o.open[p].mask = mask
         /\ o.open[p].value = ValueOf(p, view)
<1>1. o.open[p] = [value |-> ValueOf(p, view), mask |-> mask] BY DEF OwnOpening
<1>2. [value |-> ValueOf(p, view), mask |-> mask] # None BY Shares
<1> QED BY <1>1, <1>2
-----------------------------------------------------------------------------
(* SetCache never fails, and what it keeps is right: nothing was stored    *)
(* for the view since the lookup missed it.                                *)
NextOK(p, f, s, next) ==
  \/ next = "Done" /\ s = "y" /\ f.step = "StoreY"
  \/ /\ next = "StoreY" /\ s = "x" /\ f.step = "Open"
     /\ f.op.kind = "square" => ~f.opd["y"].on
     /\ f.op.kind # "square" =>
          /\ Pending(p, f.op.y, f.opd["y"])
          /\ CachedTwice(f.op, f.opd["x"]) => ~f.opd["y"].on

LEMMA StoreNothing ==
  ASSUME IInv, Exclusive, NEW p \in Party, NEW t \in Thread,
         NEW f \in Frame, f = frame[p][t], FrameOK(p, t, f), f.left = {},
         NEW s, NEW next, NextOK(p, f, s, next),
         NEW g, g = [f EXCEPT !.step = next], Advance(p, t, g),
         UNCHANGED <<todo, issued, memory, meta, entries, counter, chan>>
  PROVE  IInv'
<1>1. /\ g \in Frame /\ g.step = next /\ g.op = f.op /\ g.left = f.left
      /\ g.opd = f.opd
  BY DEF Frame, Steps, NextOK
<1>2. f.step \in {"Open", "StoreY"} /\ next \in {"StoreY", "Done"} BY DEF NextOK
<1>3. /\ f.op \in Ops[t] /\ f.op.kind \in Products
      /\ \A r \in Operands(f.op) :
           Masked(p, OperandView(f.op, r), f.opd[r], r \notin f.left)
  BY <1>2 DEF FrameOK, Steps
<1>4. next = "StoreY" =>
        /\ f.op.kind = "square" => ~f.opd["y"].on
        /\ Pending(p, f.op.y, f.opd["y"])
  BY DEF NextOK, Pending
<1>5. FrameOK(p, t, g) BY <1>1, <1>2, <1>3, <1>4 DEF FrameOK
<1>6. frame[p][t].step # "Idle" /\ g.step # "Failed" BY <1>1, <1>2
<1> QED BY <1>1, <1>5, <1>6, TypesKept, Running, ProductStep

LEMMA StoreKept ==
  ASSUME IInv, Exclusive, NEW p \in Party, NEW t \in Thread,
         NEW f \in Frame, f = frame[p][t], FrameOK(p, t, f), f.left = {},
         NEW s \in Operands(f.op), NEW next, NextOK(p, f, s, next),
         NEW view, view = OperandView(f.op, s), NEW o, o = f.opd[s],
         o.on, ~IsHit(o), Pending(p, view, o),
         NEW kept, kept = [addr |-> AddrOf(p, view), trans |-> view.trans,
                           mask |-> o.mask, open |-> o.open],
         entries' = [entries EXCEPT ![p] = @ \cup {kept}],
         NEW g, g = [f EXCEPT !.step = next], Advance(p, t, g),
         UNCHANGED <<todo, issued, memory, meta, counter, chan>>
  PROVE  IInv'
<1>1. /\ g \in Frame /\ g.step = next /\ g.op = f.op /\ g.left = f.left
      /\ g.opd = f.opd
  BY DEF Frame, Steps, NextOK
<1>2. f.step \in {"Open", "StoreY"} /\ next \in {"StoreY", "Done"} BY DEF NextOK
<1>3. /\ f.op \in Ops[t] /\ f.op.kind \in Products
      /\ \A r \in Operands(f.op) :
           Masked(p, OperandView(f.op, r), f.opd[r], TRUE)
  BY <1>2 DEF FrameOK, Steps
<1>4. /\ s \in Sides /\ view \in View /\ view.var \in Uses[t] /\ view.var \in Var
      /\ o \in Lookup
  BY <1>3, ViewsOfOps DEF Frame, UsesAssumption, Operands, Sides, View
<1>5. o.mask \in Mask /\ ~o.mask.trans /\ OwnOpening(p, view, o, o.mask)
  BY <1>3 DEF Masked
<1>6. /\ ValueOf(p, view) \in Value
      /\ ValueOf(p, view).var = view.var
      /\ ValueOf(p, view).gen = memory[p][view.var].gen
      /\ ValueOf(p, view).trans = view.trans
      /\ AddrOf(p, view) \in Addr
  BY <1>4, Values DEF IInv
<1>7. /\ kept \in Entry /\ kept.addr = memory[p][view.var].addr
      /\ kept.trans = view.trans /\ kept.mask = o.mask /\ kept.open = o.open
  BY <1>4, <1>5, <1>6 DEF Entry, Lookup, View, AddrOf
<1>8. \A e : (e \in entries'[p] <=> e \in entries[p] \/ e = kept)
  BY DEF IInv, TypeOK
<1>9. \A q \in Party \ {p} : entries'[q] = entries[q] BY DEF IInv, TypeOK
<1>10. TypeOK'
  <2>1. entries' \in [Party -> SUBSET Entry] BY ZenonT(60), <1>7 DEF IInv, TypeOK
  <2> QED BY <1>1, <2>1, Advances DEF IInv, TypeOK
<1>11. MemoryInv'
  <2>1. \A q \in Party : \A e : e \in entries[q] => e \in entries'[q]
    BY <1>8, <1>9
  <2> QED BY <2>1, MemoryStays DEF IInv
<1>12. EntryInv'
  <2>1. EntryOK(p, kept)
    <3>1. o.open[p] # None /\ o.open[p].mask = o.mask
          /\ o.open[p].value = ValueOf(p, view)
      <4>1. o.mask \in Mask /\ OwnOpening(p, view, o, o.mask) BY <1>5
      <4>2. ValueOf(p, view) \in Value BY <1>6
      <4> QED BY <4>1, <4>2, OwnIsSome, ZenonT(60)
    <3>2. \A v \in Var : memory[p][v].addr = kept.addr => v = view.var
      <4> SUFFICES ASSUME NEW v \in Var, memory[p][v].addr = kept.addr
                   PROVE  v = view.var
        OBVIOUS
      <4>1. memory[p][v].addr = memory[p][view.var].addr BY <1>7
      <4>2. MemoryInv /\ view.var \in Var BY <1>4 DEF IInv
      <4> QED BY <4>1, <4>2, AddrOwns, ZenonT(60)
    <3> QED BY <1>5, <1>6, <1>7, <3>1, <3>2 DEF EntryOK
  <2>2. \A q \in Party : \A e \in entries[q] : EntryOK(q, e)
    BY DEF IInv, EntryInv
  <2>3. \A q \in Party : \A e : EntryOK(q, e) => EntryOK(q, e)'
    BY DEF EntryOK
  <2> QED BY ZenonT(60), <1>8, <1>9, <2>1, <2>2, <2>3 DEF EntryInv
<1>13. Local(p, t) BY <1>4, <1>7, <1>8, <1>9 DEF Local
<1>14. FrameOK(p, t, g)'
  <2>1. \A r \in Operands(g.op) :
          Masked(p, OperandView(g.op, r), g.opd[r], r \notin g.left)'
    <3> SUFFICES ASSUME NEW r \in Operands(f.op)
                 PROVE  Masked(p, OperandView(f.op, r), f.opd[r], r \notin f.left)'
      BY <1>1
    <3>1. PICK w : w = OperandView(f.op, r) OBVIOUS
    <3>2. PICK d : d = f.opd[r] OBVIOUS
    <3>3. Masked(p, w, d, TRUE) BY <1>3, <3>1, <3>2
    <3>4. ValueOf(p, w)' = ValueOf(p, w) BY DEF ValueOf
    <3>5. \A closed : Masked(p, w, d, closed)' BY <3>3, <3>4 DEF Masked, OwnOpening
    <3> QED BY <3>1, <3>2, <3>5
  <2>2. next = "StoreY" =>
          /\ f.op.kind = "square" => ~f.opd["y"].on
          /\ Pending(p, f.op.y, f.opd["y"])'
    <3>0. next = "StoreY" => (f.op.kind = "square" => ~f.opd["y"].on)
      BY DEF NextOK
    <3> SUFFICES ASSUME next = "StoreY", f.opd["y"].on, ~IsHit(f.opd["y"])
                 PROVE  IsMarked(p, f.op.y)' /\ Found(p, f.op.y, f.op.y.trans)' = {}
      BY <3>0 DEF Pending
    <3>1. /\ s = "x" /\ f.op.kind # "square" /\ Pending(p, f.op.y, f.opd["y"])
          /\ ~CachedTwice(f.op, f.opd["x"])
      BY DEF NextOK
    <3>2. IsMarked(p, f.op.y) /\ Found(p, f.op.y, f.op.y.trans) = {}
      BY <3>1 DEF Pending
    <3>3. IsMarked(p, f.op.y)' BY <3>2 DEF IsMarked, AddrOf
    <3>4. view = f.op.x /\ f.op.x # f.op.y /\ f.op.y \in View
      BY <1>3, <3>1 DEF OperandView, CachedTwice, IsHit, Ops
    <3>5. ~(kept.addr = AddrOf(p, f.op.y) /\ kept.trans = f.op.y.trans)
      <4> SUFFICES ASSUME kept.addr = AddrOf(p, f.op.y), kept.trans = f.op.y.trans
                   PROVE  FALSE
        OBVIOUS
      <4>1. view.var = f.op.y.var
        <5>1. f.op.y.var \in Var BY <3>4 DEF View
        <5>2. memory[p][view.var].addr = memory[p][f.op.y.var].addr
          BY <1>7 DEF AddrOf
        <5>3. MemoryInv /\ view.var \in Var BY <1>4 DEF IInv
        <5> QED BY <5>1, <5>2, <5>3, AddrOwns, ZenonT(60)
      <4>2. view.trans = f.op.y.trans BY <1>7
      <4>3. view = f.op.y BY <1>4, <3>4, <4>1, <4>2, SameView
      <4> QED BY <3>4, <4>3
    <3>6. Found(p, f.op.y, f.op.y.trans)' = {}
      BY <1>8, <3>2, <3>5 DEF Found, AddrOf
    <3> QED BY <3>1, <3>3, <3>6
  <2> QED BY <1>1, <1>2, <1>3, <2>1, <2>2 DEF FrameOK
<1>15. frame[p][t].step # "Idle" BY <1>2
<1>16. Moves(p, t) BY <1>1, <1>15, Advances, Running DEF Moves
<1>17. FrameOK(p, t, frame[p][t])' /\ frame'[p][t].step # "Failed"
  <2>1. frame'[p][t] = g /\ g.step # "Failed" BY <1>1, <1>2, Advances
  <2> QED BY <1>14, <2>1
<1> QED BY <1>10, <1>11, <1>12, <1>13, <1>15, <1>16, <1>17, Running, LocalStep

LEMMA StoreStep ==
  ASSUME IInv, Exclusive, NEW p \in Party, NEW t \in Thread,
         NEW f \in Frame, f = frame[p][t], FrameOK(p, t, f), f.left = {},
         NEW s \in Sides, s \notin Operands(f.op) => ~f.opd[s].on,
         Pending(p, OperandView(f.op, s), f.opd[s]),
         NEW next, NextOK(p, f, s, next), SetCache(p, t, f, s, next),
         UNCHANGED <<todo, issued, memory, meta, counter, chan>>
  PROVE  IInv'
<1>1. PICK view : view = OperandView(f.op, s) OBVIOUS
<1>2. PICK o : o = f.opd[s] OBVIOUS
<1>3. PICK kept : kept = [addr |-> AddrOf(p, view), trans |-> view.trans,
                          mask |-> o.mask, open |-> o.open]
  OBVIOUS
<1>4. PICK g : g = [f EXCEPT !.step = next] OBVIOUS
<1>5. CASE ~(o.on /\ ~IsHit(o))
  <2>1. Advance(p, t, g) /\ UNCHANGED entries
    BY <1>2, <1>4, <1>5 DEF SetCache, IsHit
  <2> QED BY <1>4, <2>1, StoreNothing
<1>6. CASE o.on /\ ~IsHit(o)
  <2>1. s \in Operands(f.op) /\ Pending(p, view, o)
    BY <1>1, <1>2, <1>6
  <2>2. IsMarked(p, view) /\ Found(p, view, view.trans) = {}
    BY <1>6, <2>1 DEF Pending
  <2>3. /\ entries' = [entries EXCEPT ![p] = @ \cup {kept}]
        /\ Advance(p, t, g)
    BY <1>1, <1>2, <1>3, <1>4, <1>6, <2>2 DEF SetCache, IsHit
  <2> QED BY <1>1, <1>2, <1>3, <1>4, <1>6, <2>1, <2>3, StoreKept
<1> QED BY <1>5, <1>6

LEMMA StoreXStep ==
  ASSUME IInv, Exclusive, NEW p \in Party, NEW t \in Thread, StoreX(p, t)
  PROVE  IInv'
<1>1. PICK f : f = frame[p][t] OBVIOUS
<1>2. /\ f \in Frame /\ FrameOK(p, t, f) /\ f.step = "Open" /\ f.left = {}
      /\ SetCache(p, t, f, "x", "StoreY")
      /\ UNCHANGED <<todo, issued, memory, meta, counter, chan>>
  BY <1>1, FrameOf DEF StoreX
<1>3. /\ \A s \in Operands(f.op) : Pending(p, OperandView(f.op, s), f.opd[s])
      /\ f.op.kind = "square" => ~f.opd["y"].on
      /\ f.op.kind # "square" /\ CachedTwice(f.op, f.opd["x"]) => ~f.opd["y"].on
  BY <1>2 DEF FrameOK, Steps
<1>4. /\ "x" \in Operands(f.op) /\ "x" \in Sides
      /\ f.op.kind # "square" => "y" \in Operands(f.op)
      /\ OperandView(f.op, "y") = f.op.y
  BY DEF Operands, Sides, OperandView
<1>5. NextOK(p, f, "x", "StoreY")
  <2>1. f.op.kind # "square" => Pending(p, f.op.y, f.opd["y"]) BY <1>3, <1>4
  <2> QED BY <1>2, <1>3, <2>1 DEF NextOK
<1>6. Pending(p, OperandView(f.op, "x"), f.opd["x"]) BY <1>3, <1>4
<1> QED BY <1>1, <1>2, <1>4, <1>5, <1>6, StoreStep

LEMMA StoreYStep ==
  ASSUME IInv, Exclusive, NEW p \in Party, NEW t \in Thread, StoreY(p, t)
  PROVE  IInv'
<1>1. PICK f : f = frame[p][t] OBVIOUS
<1>2. /\ f \in Frame /\ FrameOK(p, t, f) /\ f.step = "StoreY"
      /\ SetCache(p, t, f, "y", "Done")
      /\ UNCHANGED <<todo, issued, memory, meta, counter, chan>>
  BY <1>1, FrameOf DEF StoreY
<1>3. /\ Pending(p, f.op.y, f.opd["y"]) /\ f.left = {}
      /\ f.op.kind = "square" => ~f.opd["y"].on
  BY <1>2 DEF FrameOK, Steps
<1>4. /\ "y" \in Sides /\ OperandView(f.op, "y") = f.op.y
      /\ "y" \notin Operands(f.op) => ~f.opd["y"].on
  BY <1>3 DEF Operands, Sides, OperandView
<1>5. NextOK(p, f, "y", "Done") BY <1>2 DEF NextOK
<1>6. Pending(p, OperandView(f.op, "y"), f.opd["y"]) BY <1>3, <1>4
<1> QED BY <1>1, <1>2, <1>3, <1>4, <1>5, <1>6, StoreStep

LEMMA ReturnStep ==
  ASSUME IInv, Exclusive, NEW p \in Party, NEW t \in Thread, Return(p, t)
  PROVE  IInv'
<1>1. /\ Advance(p, t, Idle) /\ frame[p][t].step # "Idle"
      /\ UNCHANGED <<todo, issued, memory, meta, entries, counter, chan>>
  BY DEF Return
<1>2. FrameOK(p, t, Idle) /\ Idle.step # "Failed" BY IdleFrame DEF FrameOK
<1> QED BY <1>1, <1>2, IdleFrame, TypesKept, Running, ProductStep
-----------------------------------------------------------------------------
LEMMA StepKeeps == Exclusive /\ IInv /\ [Next]_vars => IInv'
<1> SUFFICES ASSUME Exclusive, IInv, [Next]_vars PROVE IInv'
  OBVIOUS
<1>1. CASE Next
  <2>1. PICK p \in Party, t \in Thread : Step(p, t) BY <1>1 DEF Next
  <2>2. ASSUME NEW op \in Ops[t], EnableCache(p, t, op) PROVE IInv'
    BY <2>2, EnableStep
  <2>3. ASSUME NEW op \in Ops[t], DisableCache(p, t, op) PROVE IInv'
    BY <2>3, DisableStep
  <2>4. ASSUME NEW op \in Ops[t], Replace(p, t, op) PROVE IInv'
    BY <2>4, ReplaceStep
  <2>5. ASSUME NEW op \in Ops[t], LookX(p, t, op) PROVE IInv'
    BY <2>5, LookXStep
  <2>6. CASE LookY(p, t) BY <2>6, LookYStep
  <2>7. CASE DrawMasks(p, t) BY <2>7, DrawStep
  <2>8. CASE SendShares(p, t) BY <2>8, SendStep
  <2>9. CASE AddShares(p, t) BY <2>9, AddSharesStep
  <2>10. CASE StoreX(p, t) BY <2>10, StoreXStep
  <2>11. CASE StoreY(p, t) BY <2>11, StoreYStep
  <2>12. CASE Return(p, t) BY <2>12, ReturnStep
  <2> QED BY <2>1, <2>2, <2>3, <2>4, <2>5, <2>6, <2>7, <2>8, <2>9, <2>10,
             <2>11, <2>12 DEF Step
<1>2. CASE UNCHANGED vars
  <2>1. /\ TypeOK' /\ MemoryInv' /\ EntryInv'
        /\ \A p \in Party, t \in Thread : Ended(p, t) => Ended(p, t)'
    BY <1>2, CacheKept DEF vars, IInv, TypeOK, Ended
  <2>2. ASSUME NEW p \in Party, NEW t \in Thread
        PROVE  FrameOK(p, t, frame[p][t])'
    <3>1. PICK f : f = frame[p][t] OBVIOUS
    <3>2. frame'[p][t] = f /\ FrameOK(p, t, f)
      BY <1>2, <3>1, FrameOf DEF vars
    <3>3. SameFor(p, t) BY <1>2 DEF vars, SameFor
    <3> QED BY <3>2, <3>3, FrameKept
  <2>3. FrameInv' BY <1>2, <2>2 DEF vars, IInv, FrameInv
  <2>4. OrderInv'
    BY <1>2, <2>1 DEF vars, IInv, OrderInv, UsesAssumption
  <2> QED BY <2>1, <2>3, <2>4 DEF IInv
<1> QED BY <1>1, <1>2

(* The invariant, of any number of parties and threads that do not use a   *)
(* variable of another thread: whatever order the threads look up, draw,   *)
(* open and store in, a product that was to store an opening finds its     *)
(* buffer marked and no opening of it, and an entry is the party's own     *)
(* share of the variable at its address.                                   *)
THEOREM Invariance == ASSUME Exclusive PROVE Spec => []IInv
<1>1. Init => IInv BY Initial
<1>2. IInv /\ [Next]_vars => IInv' BY StepKeeps
<1> QED BY <1>1, <1>2, PTL DEF Spec

(* SetCache finds what GetCache said still true: the two checks of         *)
(* SetCache never fail.                                                    *)
THEOREM StoreNeverFails == ASSUME Exclusive PROVE Spec => []SetCacheChecks
<1>1. IInv => SetCacheChecks BY DEF IInv, FrameInv, SetCacheChecks
<1> QED BY <1>1, Invariance, PTL

(* If a marked variable is not dropped from the program before a product   *)
(* has used it, an address is never marked for a variable that is gone.    *)
THEOREM CachesMarkedOnly ==
  ASSUME Exclusive, DropsFirst PROVE Spec => []MarkedOnly
<1>1. IInv => MarkedOnly BY DEF IInv, MemoryInv, MarkedOnly
<1> QED BY <1>1, Invariance, PTL

(* A product is computed from openings that have the party's own share of  *)
(* its operands in them, under the masks the product draws or replays.     *)
THEOREM OpensOwnShare == ASSUME Exclusive PROVE Spec => []OwnShare
<1>1. IInv => OwnShare
  <2> SUFFICES ASSUME IInv, NEW p \in Party, NEW t \in Thread,
                      frame[p][t].step = "Done", NEW s \in Operands(frame[p][t].op)
               PROVE  OwnOpening(p, OperandView(frame[p][t].op, s),
                                 frame[p][t].opd[s], frame[p][t].opd[s].mask)
    BY DEF OwnShare, OwnOpening
  <2>1. PICK f : f = frame[p][t] OBVIOUS
  <2>2. FrameOK(p, t, f) BY <2>1, FrameOf
  <2>3. f.left = {} /\ Masked(p, OperandView(f.op, s), f.opd[s], s \notin f.left)
    BY <2>1, <2>2 DEF FrameOK, Steps
  <2> QED BY <2>1, <2>3 DEF Masked
<1> QED BY <1>1, Invariance, PTL
-----------------------------------------------------------------------------
(* The parties follow one history.  What a lookup finds, without the       *)
(* opening: an entry's opening is known from its mask.                     *)
Shape(o) == [on |-> o.on, status |-> o.status, mask |-> o.mask]

Touches(op, r) == r = op.x.var \/ r = op.y.var

(* A variable as a party's cache sees it, wherever its buffer is.          *)
Abs(p, r) ==
  [gen |-> memory[p][r].gen,
   marked |-> \E m \in meta[p] : m.addr = memory[p][r].addr,
   kept |-> {[trans |-> e.trans, mask |-> e.mask] :
               e \in {d \in entries[p] : d.addr = memory[p][r].addr}}]

KeptFor(a, b) == {k \in a.kept : k.trans = b}

MaskFor(a, b) == (CHOOSE k \in KeptFor(a, b) : TRUE).mask

(* GetCache on such a variable.                                            *)
Look(a, b, allow) ==
  IF ~a.marked THEN Shape(Off)
  ELSE IF KeptFor(a, b) # {}
  THEN [on |-> TRUE, status |-> "Replay", mask |-> MaskFor(a, b)]
  ELSE IF allow /\ KeptFor(a, ~b) # {}
  THEN [on |-> TRUE, status |-> "TransposeReplay", mask |-> MaskFor(a, ~b)]
  ELSE [on |-> TRUE, status |-> "Init", mask |-> None]

(* An operation op of thread t in a state S: the variables var, the        *)
(* counter cnt of the thread's beaver and the number snt of messages of    *)
(* the thread.  What it looks up and draws,                                *)
LookedX(S, op) == Look(S.var[op.x.var], op.x.trans, op.kind = "dot")

LookedY(S, op) ==
  LET y == Look(S.var[op.y.var], op.y.trans, op.kind = "dot")
  IN  IF op.kind = "square" THEN Shape(Off)
      ELSE IF CachedTwice(op, LookedX(S, op)) THEN [y EXCEPT !.on = FALSE]
      ELSE y

Looked(S, op, s) == IF s = "x" THEN LookedX(S, op) ELSE LookedY(S, op)

CountX(S, op) == Drawn(op.kind, LookedX(S, op), S.cnt)

Count(S, op) ==
  (IF op.kind = "square" THEN CountX(S, op)
   ELSE Drawn(op.kind, LookedY(S, op), CountX(S, op))) + 1

Masks(S, t, op, s) ==
  IF s \notin Operands(op) THEN Shape(Off)
  ELSE Draw(t, op.kind, Looked(S, op, s),
            IF s = "x" THEN S.cnt ELSE CountX(S, op))

(* what it opens, by one message or by two,                                *)
Left(S, op) == {s \in Operands(op) : ~IsHit(Looked(S, op, s))}

First(S, op) ==
  IF (Vectorize /\ \A s \in Sides : ~IsHit(Looked(S, op, s)))
       \/ "x" \notin Left(S, op)
  THEN Left(S, op) ELSE {"x"}

Rest(S, op) == Left(S, op) \ First(S, op)

Number(S, op) ==
  IF op.kind \notin Products \/ Left(S, op) = {} THEN 0
  ELSE IF Rest(S, op) = {} THEN 1 ELSE 2

Opened(S, t, op, sides) ==
  [s \in Sides |->
     IF s \in sides
     THEN [value |-> [var |-> OperandView(op, s).var,
                      gen |-> S.var[OperandView(op, s).var].gen,
                      trans |-> OperandView(op, s).trans],
           mask |-> Masks(S, t, op, s).mask]
     ELSE None]

(* and what it leaves.                                                     *)
Stored(a, S, t, op, s, r) ==
  IF /\ OperandView(op, s).var = r
     /\ Masks(S, t, op, s).on /\ Masks(S, t, op, s).status = "Init"
  THEN [gen |-> a.gen, marked |-> a.marked,
        kept |-> a.kept \cup {[trans |-> OperandView(op, s).trans,
                               mask |-> Masks(S, t, op, s).mask]}]
  ELSE a

After(S, t, op, r) ==
  IF op.kind \in Products
  THEN Stored(Stored(S.var[r], S, t, op, "x", r), S, t, op, "y", r)
  ELSE IF op.kind = "enable"
  THEN [gen |-> S.var[r].gen, marked |-> TRUE, kept |-> S.var[r].kept]
  ELSE IF op.kind = "disable"
  THEN [gen |-> S.var[r].gen, marked |-> FALSE, kept |-> {}]
  ELSE [gen |-> S.var[r].gen + 1, marked |-> FALSE, kept |-> {}]

CountAfter(S, op) == IF op.kind \in Products THEN Count(S, op) ELSE S.cnt
-----------------------------------------------------------------------------
(* A history h: ops[t][n] is the n-th operation of thread t, at[t][n][r]   *)
(* the version of variable r it starts from, vs[r][k] version k of r and   *)
(* len[r] the last one; cnt[t][n] and snt[t][n] are the counter and the    *)
(* number of messages of the thread before its n-th operation, and         *)
(* msg[t][i] is its i-th message.                                          *)
Before(h, t, n) ==
  [var |-> [r \in Var |-> h.vs[r][h.at[t][n][r]]],
   cnt |-> h.cnt[t][n], snt |-> h.snt[t][n]]

OpAt(h, t, n, r) == n \in 1 .. issued[t] /\ Touches(h.ops[t][n], r)

(* An operation makes the next version of the variables it touches.        *)
Makes(h, t, op, S, at) ==
  \A r \in Var :
    /\ at[r] \in 0 .. h.len[r]
    /\ Touches(op, r) => /\ at[r] + 1 <= h.len[r]
                         /\ h.vs[r][at[r] + 1] = After(S, t, op, r)

Sends(h, t, n, op, S) ==
  /\ h.snt[t][n] \in Nat /\ h.snt[t][n + 1] = h.snt[t][n] + Number(S, op)
  /\ h.snt[t][n + 1] <= h.snt[t][issued[t] + 1]
  /\ Number(S, op) >= 1 =>
       h.msg[t][h.snt[t][n] + 1] = Opened(S, t, op, First(S, op))
  /\ Number(S, op) = 2 =>
       h.msg[t][h.snt[t][n] + 2] = Opened(S, t, op, Rest(S, op))

OpOK(h, t, n) ==
  /\ h.ops[t][n] \in Ops[t]
  /\ Makes(h, t, h.ops[t][n], Before(h, t, n), h.at[t][n])
  /\ h.cnt[t][n + 1] = CountAfter(Before(h, t, n), h.ops[t][n])
  /\ Sends(h, t, n, h.ops[t][n], Before(h, t, n))

OpsOK(h) ==
  /\ \A t \in Thread : \A n \in 1 .. issued[t] : OpOK(h, t, n)
  /\ \A r \in Var : h.len[r] \in Nat
  /\ \A t \in Thread : h.snt[t][issued[t] + 1] \in Nat

(* Every version but the first is made by one operation, and the versions  *)
(* are in the order the program prescribes.                                *)
Precedes(h, t, n, u, m, r) ==
  /\ h.at[t][n][r] = h.at[u][m][r] => t = u /\ n = m
  /\ t = u /\ n < m => h.at[t][n][r] < h.at[u][m][r]
  /\ t \in Awaits[u] => h.at[t][n][r] < h.at[u][m][r]

OrderOK(h) ==
  /\ \A r \in Var : \A k \in Nat : k < h.len[r] =>
       \E u \in Thread : \E m \in Nat : OpAt(h, u, m, r) /\ h.at[u][m][r] = k
  /\ \A r \in Var : \A t, u \in Thread : \A n, m \in Nat :
       OpAt(h, t, n, r) /\ OpAt(h, u, m, r) => Precedes(h, t, n, u, m, r)
  /\ \A u \in Thread : \A t \in Awaits[u] : issued[u] > 0 => issued[t] = MaxOps

History(h) == OpsOK(h) /\ OrderOK(h)
-----------------------------------------------------------------------------
(* Where a party is in the history: the operations of t it has begun.      *)
Begun(p, t) == issued[t] - Len(todo[p][t])

TodoOK(h) ==
  \A p \in Party : \A t \in Thread :
    /\ Begun(p, t) \in 0 .. issued[t]
    /\ \A k \in 1 .. Len(todo[p][t]) : todo[p][t][k] = h.ops[t][Begun(p, t) + k]

(* The version k of r is made by the operations p has begun.               *)
Cut(h, p, r, k) ==
  /\ k \in 0 .. h.len[r]
  /\ \A u \in Thread : \A m \in Nat :
       OpAt(h, u, m, r) => (m <= Begun(p, u) <=> h.at[u][m][r] < k)

Busy(p, r) ==
  \E t \in Thread : frame[p][t].step # "Idle" /\ Touches(frame[p][t].op, r)

VarOK(h, p, r) ==
  ~Busy(p, r) => \E k \in Nat : Cut(h, p, r, k) /\ Abs(p, r) = h.vs[r][k]

Looking == {"LookY", "Draw"}

(* A variable in the middle of a product.                                  *)
Stage(S, t, f, r) ==
  IF f.step = "StoreY" THEN Stored(S.var[r], S, t, f.op, "x", r)
  ELSE IF f.step = "Done" THEN After(S, t, f.op, r)
  ELSE S.var[r]

(* A thread in the middle of its n-th operation, a product.                *)
FrameAt(S, t, f, c) ==
  /\ f.step \in Looking =>
       /\ c = S.cnt
       /\ Shape(f.opd["x"]) = LookedX(S, f.op)
       /\ f.step = "Draw" => Shape(f.opd["y"]) = LookedY(S, f.op)
  /\ f.step \notin Looking =>
       /\ c = Count(S, f.op)
       /\ \A s \in Sides : Shape(f.opd[s]) = Masks(S, t, f.op, s)
       /\ f.left \in {Left(S, f.op), Rest(S, f.op), {}}
       /\ f.step = "Wait" => f.left # {}

VarsAt(h, p, t, n, S, f) ==
  \A r \in Var : Touches(f.op, r) =>
    Cut(h, p, r, h.at[t][n][r] + 1) /\ Abs(p, r) = Stage(S, t, f, r)

RunOK(h, p, t, n, f) ==
  /\ n \in 1 .. issued[t] /\ f.op = h.ops[t][n] /\ f.op.kind \in Products
  /\ VarsAt(h, p, t, n, Before(h, t, n), f)
  /\ FrameAt(Before(h, t, n), t, f, counter[p][t])

ThreadOK(h, p, t) ==
  IF frame[p][t].step = "Idle" THEN counter[p][t] = h.cnt[t][Begun(p, t) + 1]
  ELSE RunOK(h, p, t, Begun(p, t), frame[p][t])

PartyOK(h, p) ==
  (\A r \in Var : VarOK(h, p, r)) /\ (\A t \in Thread : ThreadOK(h, p, t))

(* The messages of thread t that p has received from each other party, and *)
(* those it has sent to each.                                              *)
SentBefore(S, op, left) ==
  IF left = Left(S, op) THEN 0 ELSE IF left = {} THEN Number(S, op) ELSE 1

ReceivedIn(h, t, n, f) ==
  IF f.step = "Idle" THEN h.snt[t][n + 1]
  ELSE IF f.step \in Looking THEN h.snt[t][n]
  ELSE h.snt[t][n] + SentBefore(Before(h, t, n), f.op, f.left)

Received(h, p, t) == ReceivedIn(h, t, Begun(p, t), frame[p][t])

Sent(h, p, t) ==
  IF frame[p][t].step = "Wait" THEN Received(h, p, t) + 1 ELSE Received(h, p, t)

ChanOK(h) ==
  \A t \in Thread : \A p, q \in Party : p # q =>
    /\ Len(chan[t][p][q]) = Sent(h, p, t) - Received(h, q, t)
    /\ \A i \in 1 .. Len(chan[t][p][q]) :
         chan[t][p][q][i] = h.msg[t][Received(h, q, t) + i]

Follows(h) == TodoOK(h) /\ (\A p \in Party : PartyOK(h, p)) /\ ChanOK(h)

(* Every party has the same in an opening.                                 *)
Uniform(p, open) == \A q \in Party : open[q] = open[p]

UniformInv ==
  \A p \in Party :
    /\ \A e \in entries[p] : Uniform(p, e.open)
    /\ \A t \in Thread, s \in Sides : Uniform(p, frame[p][t].opd[s].open)

UniqueInv ==
  \A p \in Party : \A e, d \in entries[p] :
    e.addr = d.addr /\ e.trans = d.trans => e = d

AgreeInv == (\E h : History(h) /\ Follows(h)) /\ UniformInv /\ UniqueInv
-----------------------------------------------------------------------------
(* Lookups and drawings of a party are those of the history.               *)
LEMMA OffShape ==
  /\ Shape(Off) = [on |-> FALSE, status |-> "Init", mask |-> None]
  /\ Shape(Off).on = FALSE /\ Shape(Off).status = "Init"
BY DEF Shape, Off

LEMMA ShapeFields ==
  ASSUME NEW o
  PROVE  /\ Shape(o).on = o.on /\ Shape(o).status = o.status
         /\ Shape(o).mask = o.mask /\ (IsHit(Shape(o)) <=> IsHit(o))
BY DEF Shape, IsHit

LEMMA KeptIsFound ==
  ASSUME UniqueInv, NEW p \in Party, NEW view, NEW b
  PROVE  /\ KeptFor(Abs(p, view.var), b) = {} <=> Found(p, view, b) = {}
         /\ \A e \in Found(p, view, b) : \A k \in KeptFor(Abs(p, view.var), b) :
              k.mask = e.mask
<1>1. PICK a : a = memory[p][view.var].addr OBVIOUS
<1>2. Found(p, view, b) = {e \in entries[p] : e.addr = a /\ e.trans = b}
  BY <1>1 DEF Found, AddrOf
<1>3. Abs(p, view.var).kept = {[trans |-> e.trans, mask |-> e.mask] :
                                 e \in {d \in entries[p] : d.addr = a}}
  BY <1>1 DEF Abs
<1>4. \A k \in KeptFor(Abs(p, view.var), b) :
        \E e \in entries[p] : e.addr = a /\ e.trans = b /\ k.mask = e.mask
  BY <1>3 DEF KeptFor
<1>5. \A e \in entries[p] : e.addr = a /\ e.trans = b =>
        [trans |-> e.trans, mask |-> e.mask] \in KeptFor(Abs(p, view.var), b)
  BY <1>3 DEF KeptFor
<1>6. \A e, d \in entries[p] : e.addr = d.addr /\ e.trans = d.trans => e = d
  BY DEF UniqueInv
<1> QED BY <1>2, <1>4, <1>5, <1>6

EntryFor(p, view, b) == CHOOSE e \in Found(p, view, b) : TRUE

LEMMA GetCacheShape ==
  ASSUME UniqueInv, NEW p \in Party, NEW view, NEW allow
  PROVE  Shape(GetCache(p, view, allow)) = Look(Abs(p, view.var), view.trans, allow)
<1>1. PICK a : a = Abs(p, view.var) OBVIOUS
<1>2. IsMarked(p, view) <=> a.marked BY <1>1 DEF IsMarked, AddrOf, Abs
<1>3. ASSUME NEW b, Found(p, view, b) # {}
      PROVE  /\ KeptFor(a, b) # {}
             /\ EntryFor(p, view, b).mask = MaskFor(a, b)
  <2>1. KeptFor(a, b) # {} BY <1>1, <1>3, KeptIsFound
  <2>2. PICK e : e = CHOOSE d \in Found(p, view, b) : TRUE OBVIOUS
  <2>3. PICK k : k = CHOOSE d \in KeptFor(a, b) : TRUE OBVIOUS
  <2>4. e \in Found(p, view, b) /\ k \in KeptFor(a, b)
    BY <1>3, <2>1, <2>2, <2>3
  <2>5. k.mask = e.mask BY <1>1, <2>4, KeptIsFound
  <2> QED BY <2>1, <2>2, <2>3, <2>5 DEF MaskFor, EntryFor
<1>4. CASE ~IsMarked(p, view) BY <1>1, <1>2, <1>4 DEF GetCache, Look
<1>5. CASE IsMarked(p, view) /\ Found(p, view, view.trans) # {}
  BY <1>1, <1>2, <1>3, <1>5 DEF GetCache, Look, Shape, EntryFor
<1>6. CASE /\ IsMarked(p, view) /\ Found(p, view, view.trans) = {}
           /\ allow /\ Found(p, view, ~view.trans) # {}
  <2>1. KeptFor(a, view.trans) = {} BY <1>1, <1>6, KeptIsFound
  <2>2. PICK b : b = (~view.trans) OBVIOUS
  <2>3. /\ KeptFor(a, b) # {}
        /\ EntryFor(p, view, b).mask = MaskFor(a, b)
    BY <1>3, <1>6, <2>2
  <2>4. GetCache(p, view, allow) =
          [on |-> TRUE, status |-> "TransposeReplay",
           mask |-> EntryFor(p, view, b).mask,
           open |-> TransposeOpen(EntryFor(p, view, b).open)]
    BY <1>6, <2>2 DEF GetCache, EntryFor
  <2>5. Look(a, view.trans, allow) =
          [on |-> TRUE, status |-> "TransposeReplay", mask |-> MaskFor(a, b)]
    BY <1>2, <1>6, <2>1, <2>2, <2>3 DEF Look
  <2> QED BY <1>1, <2>3, <2>4, <2>5 DEF Shape
<1>7. CASE /\ IsMarked(p, view) /\ Found(p, view, view.trans) = {}
           /\ ~(allow /\ Found(p, view, ~view.trans) # {})
  <2>1. KeptFor(a, view.trans) = {} BY <1>1, <1>7, KeptIsFound
  <2>2. PICK b : b = (~view.trans) OBVIOUS
  <2>3. ~(allow /\ KeptFor(a, b) # {}) BY <1>1, <1>7, <2>2, KeptIsFound
  <2>4. GetCache(p, view, allow) = [Off EXCEPT !.on = TRUE]
    BY <1>7 DEF GetCache
  <2>5. Look(a, view.trans, allow) = [on |-> TRUE, status |-> "Init", mask |-> None]
    BY <1>2, <1>7, <2>1, <2>2, <2>3 DEF Look
  <2> QED BY <1>1, <2>4, <2>5 DEF Shape, Off
<1> QED BY <1>4, <1>5, <1>6, <1>7

LEMMA DrawShape ==
  ASSUME NEW o \in Lookup, NEW t, NEW kind, NEW c
  PROVE  /\ Shape(Draw(t, kind, o, c)) = Draw(t, kind, Shape(o), c)
         /\ Drawn(kind, o, c) = Drawn(kind, Shape(o), c)
<1>1. o = [on |-> o.on, status |-> o.status, mask |-> o.mask, open |-> o.open]
  BY DEF Lookup
<1>2. Described(kind, Shape(o)) <=> Described(kind, o) BY DEF Described, Shape
<1>3. PICK m : m = IF Described(kind, o) /\ o.status # "Init"
                   THEN [o.mask EXCEPT !.trans = (o.status = "TransposeReplay")]
                   ELSE [ctx |-> t, at |-> c, trans |-> FALSE]
  OBVIOUS
<1>4. Draw(t, kind, o, c) = [o EXCEPT !.mask = m] BY <1>3 DEF Draw
<1>5. Draw(t, kind, Shape(o), c) = [Shape(o) EXCEPT !.mask = m]
  BY <1>2, <1>3, ShapeFields DEF Draw
<1>6. Shape([o EXCEPT !.mask = m]) = [Shape(o) EXCEPT !.mask = m]
  BY <1>1 DEF Shape
<1> QED BY <1>2, <1>4, <1>5, <1>6 DEF Drawn
-----------------------------------------------------------------------------
(* A party takes the next operation of a thread.  g is the history after   *)
(* it: h, and the operation at its end if no party has started it before.  *)
Extends(h, g) ==
  /\ \A u \in Thread : \A n \in 1 .. issued[u] :
       /\ g.ops[u][n] = h.ops[u][n] /\ Before(g, u, n) = Before(h, u, n)
       /\ \A r \in Var : g.at[u][n][r] = h.at[u][n][r]
  /\ \A u \in Thread : \A n \in 1 .. issued[u] + 1 :
       g.cnt[u][n] = h.cnt[u][n] /\ g.snt[u][n] = h.snt[u][n]
  /\ \A r \in Var : \A k \in 0 .. h.len[r] : g.vs[r][k] = h.vs[r][k]
  /\ \A u \in Thread : \A i \in Nat :
       i <= h.snt[u][issued[u] + 1] => g.msg[u][i] = h.msg[u][i]

(* The operations begun by every party, when p takes one of t.             *)
Begins(p, t) ==
  /\ \A u \in Thread : issued'[u] \in Nat /\ issued[u] <= issued'[u]
  /\ Begun(p, t)' = Begun(p, t) + 1 /\ Begun(p, t)' <= issued'[t]
  /\ \A q \in Party : \A u \in Thread :
       q # p \/ u # t => Begun(q, u)' = Begun(q, u)

CutsMove(h, g, p, t, op) ==
  \A q \in Party : \A r \in Var : \A k \in Nat : Cut(h, q, r, k) =>
    /\ q # p \/ ~Touches(op, r) => Cut(g, q, r, k)'
    /\ q = p /\ Touches(op, r) => /\ g.at[t][Begun(p, t) + 1][r] = k
                                  /\ Cut(g, p, r, k + 1)'

Taken(h, g, p, t, op) ==
  /\ History(g)' /\ TodoOK(g)' /\ Extends(h, g) /\ Begins(p, t)
  /\ g.ops[t][Begun(p, t) + 1] = op
  /\ CutsMove(h, g, p, t, op)

LEMMA UsedBy ==
  ASSUME NEW t \in Thread, NEW op \in Ops[t], NEW r, Touches(op, r)
  PROVE  r \in Uses[t] /\ r \in Var
BY DEF Ops, Touches, View

LEMMA IssuedNat ==
  ASSUME TypeOK, NEW u \in Thread
  PROVE  issued[u] \in Nat /\ issued[u] <= MaxOps
BY DEF TypeOK, BoundsAssumption

LEMMA BegunNat ==
  ASSUME TypeOK, NEW h, TodoOK(h), NEW p \in Party, NEW u \in Thread
  PROVE  /\ Begun(p, u) \in Nat /\ Begun(p, u) <= issued[u]
         /\ todo[p][u] = <<>> => Begun(p, u) = issued[u]
<1>1. Begun(p, u) \in 0 .. issued[u] BY DEF TodoOK
<1>2. todo[p][u] = <<>> => Begun(p, u) = issued[u]
  BY IssuedNat DEF Begun
<1> QED BY <1>1, <1>2, IssuedNat

(* What is not begun of a variable comes after the version a party is at.  *)
LEMMA CutNext ==
  ASSUME TypeOK, Exclusive, NEW h, History(h), TodoOK(h),
         NEW p \in Party, NEW t \in Thread, \A r \in Awaits[t] : Ended(p, r),
         NEW r \in Uses[t], NEW k \in Nat, Cut(h, p, r, k), k < h.len[r]
  PROVE  \E u \in Thread : \E m \in Nat :
           /\ OpAt(h, u, m, r) /\ h.at[u][m][r] = k /\ m > Begun(p, u)
           /\ u # t => t \in Awaits[u]
<1>1. r \in Var BY DEF UsesAssumption
<1>2. PICK u \in Thread, m \in Nat : OpAt(h, u, m, r) /\ h.at[u][m][r] = k
  BY <1>1 DEF History, OrderOK
<1>3. m > Begun(p, u)
  <2>1. m <= Begun(p, u) <=> h.at[u][m][r] < k BY <1>2 DEF Cut
  <2> QED BY <1>2, <2>1, BegunNat
<1>4. ASSUME u # t PROVE t \in Awaits[u]
  <2>1. m \in 1 .. issued[u] BY <1>2 DEF OpAt
  <2>2. r \in Uses[u]
    <3>1. h.ops[u][m] \in Ops[u] BY <2>1 DEF History, OpsOK, OpOK
    <3> QED BY <1>2, <3>1, UsedBy DEF OpAt
  <2>3. u \notin Awaits[t]
    <3>1. SUFFICES ASSUME u \in Awaits[t] PROVE FALSE OBVIOUS
    <3>2. todo[p][u] = <<>> BY <3>1 DEF Ended
    <3>3. Begun(p, u) = issued[u] BY <3>2, BegunNat
    <3> QED BY <1>3, <2>1, <3>3, IssuedNat
  <2> QED BY <1>4, <2>2, <2>3 DEF Exclusive
<1> QED BY <1>2, <1>3, <1>4

LEMMA CutOfNext ==
  ASSUME TypeOK, Exclusive, NEW h, History(h), TodoOK(h),
         NEW p \in Party, NEW t \in Thread, \A r \in Awaits[t] : Ended(p, r),
         NEW n \in Nat, n = Begun(p, t) + 1,
         NEW r \in Uses[t], OpAt(h, t, n, r), NEW k \in Nat, Cut(h, p, r, k)
  PROVE  h.at[t][n][r] = k
<1>1. r \in Var BY DEF UsesAssumption
<1>2. n \in 1 .. issued[t] BY DEF OpAt
<1>3. h.at[t][n][r] \in Nat /\ h.at[t][n][r] < h.len[r] /\ h.len[r] \in Nat
  <2>1. Makes(h, t, h.ops[t][n], Before(h, t, n), h.at[t][n])
    BY <1>2 DEF History, OpsOK, OpOK
  <2>2. h.len[r] \in Nat BY <1>1 DEF History, OpsOK
  <2>3. h.at[t][n][r] \in 0 .. h.len[r] /\ h.at[t][n][r] + 1 <= h.len[r]
    BY <1>1, <2>1 DEF Makes, OpAt
  <2> QED BY <2>2, <2>3
<1>4. ~(h.at[t][n][r] < k)
  <2>1. n <= Begun(p, t) <=> h.at[t][n][r] < k BY DEF Cut
  <2> QED BY <2>1, BegunNat
<1>5. SUFFICES ASSUME k < h.at[t][n][r] PROVE FALSE BY <1>3, <1>4
<1>6. PICK u \in Thread, m \in Nat :
        /\ OpAt(h, u, m, r) /\ h.at[u][m][r] = k /\ m > Begun(p, u)
        /\ u # t => t \in Awaits[u]
  BY <1>3, <1>5, CutNext
<1>7. Precedes(h, t, n, u, m, r) BY <1>1, <1>6 DEF History, OrderOK
<1>8. CASE u = t BY <1>3, <1>5, <1>6, <1>7, <1>8, BegunNat DEF Precedes
<1>9. CASE u # t BY <1>3, <1>5, <1>6, <1>7, <1>9 DEF Precedes
<1> QED BY <1>8, <1>9

(* The history of the operations that are issued is what it was.           *)
LEMMA HistoryStays ==
  ASSUME issued' = issued, NEW h, History(h)
  PROVE  History(h)'
<1>1. \A u, m, r : OpAt(h, u, m, r)' <=> OpAt(h, u, m, r) BY DEF OpAt
<1>2. OpsOK(h)' BY DEF History, OpsOK, OpOK, Makes, Sends
<1>3. OrderOK(h)' BY <1>1 DEF History, OrderOK
<1> QED BY <1>2, <1>3 DEF History

(* The operation was started by another party.                             *)
LEMMA TakeHead ==
  ASSUME TypeOK, Exclusive, NEW h, History(h), TodoOK(h),
         NEW p \in Party, NEW t \in Thread, NEW op \in Ops[t],
         Takes(p, t, op), todo[p][t] # <<>>
  PROVE  Taken(h, h, p, t, op)
<1>1. /\ op = Head(todo[p][t]) /\ todo' = [todo EXCEPT ![p][t] = Tail(@)]
      /\ issued' = issued /\ \A r \in Awaits[t] : Ended(p, r)
  BY DEF Takes
<1>2. /\ todo[p][t] \in Seq(AllOps) /\ todo'[p][t] = Tail(todo[p][t])
      /\ \A q \in Party, u \in Thread : q # p \/ u # t => todo'[q][u] = todo[q][u]
  BY <1>1 DEF TypeOK
<1>3. Len(todo[p][t]) \in Nat \ {0} /\ Len(todo'[p][t]) = Len(todo[p][t]) - 1
  BY <1>2
<1>4. PICK n \in Nat : n = Begun(p, t) + 1 BY BegunNat
<1>5. n <= issued[t] BY <1>3, <1>4, IssuedNat DEF Begun
<1>6. Begins(p, t)
  <2>1. Begun(p, t)' = Begun(p, t) + 1
    BY <1>1, <1>3, IssuedNat DEF Begun
  <2>2. \A q \in Party : \A u \in Thread :
          q # p \/ u # t => Begun(q, u)' = Begun(q, u)
    BY <1>1, <1>2 DEF Begun
  <2> QED BY <1>1, <1>4, <1>5, <2>1, <2>2, IssuedNat DEF Begins
<1>7. History(h)' BY <1>1, HistoryStays
<1>8. Extends(h, h) BY DEF Extends
<1>9. h.ops[t][n] = op
  <2>1. todo[p][t][1] = h.ops[t][Begun(p, t) + 1] BY <1>3 DEF TodoOK
  <2> QED BY <1>1, <1>2, <1>4, <2>1
<1>10. TodoOK(h)'
  <2> SUFFICES ASSUME NEW q \in Party, NEW u \in Thread
               PROVE  /\ Begun(q, u)' \in 0 .. issued'[u]
                      /\ \A k \in 1 .. Len(todo'[q][u]) :
                           todo'[q][u][k] = h.ops[u][Begun(q, u)' + k]
    BY DEF TodoOK
  <2>1. CASE q # p \/ u # t
    <3>1. todo'[q][u] = todo[q][u] BY <1>2, <2>1
    <3>2. Begun(q, u)' = Begun(q, u) BY <1>6, <2>1 DEF Begins
    <3>3. issued'[u] = issued[u] BY <1>1
    <3> QED BY <3>1, <3>2, <3>3 DEF TodoOK
  <2>2. CASE q = p /\ u = t
    <3>1. Begun(p, t)' = n BY <1>4, <1>6 DEF Begins
    <3>2. ASSUME NEW k \in 1 .. Len(todo'[p][t])
          PROVE  todo'[p][t][k] = h.ops[t][n + k]
      <4>1. k + 1 \in 1 .. Len(todo[p][t]) BY <1>3
      <4>2. todo'[p][t][k] = todo[p][t][k + 1] BY <1>2, <1>3
      <4>3. todo[p][t][k + 1] = h.ops[t][Begun(p, t) + (k + 1)]
        BY <4>1 DEF TodoOK
      <4>4. Begun(p, t) + (k + 1) = n + k
        <5>1. k \in Nat BY <1>3
        <5>2. Begun(p, t) \in Nat BY BegunNat
        <5>3. n = Begun(p, t) + 1 BY <1>4
        <5> QED BY <5>1, <5>2, <5>3
      <4> QED BY <4>2, <4>3, <4>4
    <3> QED BY <1>1, <1>5, <2>2, <3>1, <3>2, IssuedNat
  <2> QED BY <2>1, <2>2
<1>11. CutsMove(h, h, p, t, op)
  <2> SUFFICES ASSUME NEW q \in Party, NEW r \in Var, NEW k \in Nat, Cut(h, q, r, k)
               PROVE  /\ q # p \/ ~Touches(op, r) => Cut(h, q, r, k)'
                      /\ q = p /\ Touches(op, r) => /\ h.at[t][Begun(p, t) + 1][r] = k
                                                    /\ Cut(h, p, r, k + 1)'
    BY DEF CutsMove
  <2>1. \A u \in Thread, m \in Nat : OpAt(h, u, m, r)' <=> OpAt(h, u, m, r)
    BY <1>1 DEF OpAt
  <2>2. OpAt(h, t, n, r) <=> Touches(op, r) BY <1>4, <1>5, <1>9, BegunNat, IssuedNat DEF OpAt
  <2>3. \A u \in Thread, m \in Nat :
          u # t \/ m # n \/ q # p => (m <= Begun(q, u)' <=> m <= Begun(q, u))
    BY <1>4, <1>6, BegunNat DEF Begins
  <2>4. ASSUME q # p \/ ~Touches(op, r) PROVE Cut(h, q, r, k)'
    BY <2>1, <2>2, <2>3, <2>4 DEF Cut
  <2>5. ASSUME q = p, Touches(op, r)
        PROVE  h.at[t][n][r] = k /\ Cut(h, p, r, k + 1)'
    <3>1. h.at[t][n][r] = k BY <1>1, <1>4, <2>2, <2>5, UsedBy, CutOfNext
    <3>2. \A u \in Thread, m \in Nat : OpAt(h, u, m, r) =>
            /\ h.at[u][m][r] \in Nat /\ h.at[u][m][r] < h.len[r]
            /\ h.at[u][m][r] = k => u = t /\ m = n
      <4> SUFFICES ASSUME NEW u \in Thread, NEW m \in Nat, OpAt(h, u, m, r)
                   PROVE  /\ h.at[u][m][r] \in Nat /\ h.at[u][m][r] < h.len[r]
                          /\ h.at[u][m][r] = k => u = t /\ m = n
        OBVIOUS
      <4>1. Makes(h, u, h.ops[u][m], Before(h, u, m), h.at[u][m])
        BY DEF History, OpsOK, OpOK, OpAt
      <4>2. h.len[r] \in Nat BY DEF History, OpsOK
      <4>3. h.at[u][m][r] \in 0 .. h.len[r] /\ h.at[u][m][r] + 1 <= h.len[r]
        BY <4>1 DEF Makes, OpAt
      <4>4. Precedes(h, u, m, t, n, r) BY <2>2, <2>5 DEF History, OrderOK
      <4> QED BY <3>1, <4>2, <4>3, <4>4 DEF Precedes
    <3>3. k + 1 \in 0 .. h.len[r]
      <4>1. k < h.len[r] BY <2>2, <2>5, <3>1, <3>2
      <4>2. h.len[r] \in Nat BY DEF History, OpsOK
      <4> QED BY <4>1, <4>2
    <3>4. ASSUME NEW u \in Thread, NEW m \in Nat, OpAt(h, u, m, r)
          PROVE  m <= Begun(p, u)' <=> h.at[u][m][r] < k + 1
      <4>1. m <= Begun(p, u) <=> h.at[u][m][r] < k BY <2>5, <3>4 DEF Cut
      <4>2. CASE u = t /\ m = n
        BY <1>4, <1>6, <3>1, <4>2, BegunNat DEF Begins
      <4>3. CASE u # t \/ m # n
        BY <2>3, <2>5, <3>2, <3>4, <4>1, <4>3
      <4> QED BY <4>2, <4>3
    <3> QED BY <2>1, <3>1, <3>3, <3>4 DEF Cut
  <2> QED BY <1>4, <2>4, <2>5
<1> QED BY <1>4, <1>6, <1>7, <1>8, <1>9, <1>10, <1>11 DEF Taken

(* The history with the operation op of t at its end.                      *)
Final(h, t) ==
  [var |-> [r \in Var |-> h.vs[r][h.len[r]]],
   cnt |-> h.cnt[t][issued[t] + 1], snt |-> h.snt[t][issued[t] + 1]]

Appended(h, t, op, n, S) ==
  [ops |-> [u \in Thread |-> [m \in Nat |->
             IF u = t /\ m = n THEN op ELSE h.ops[u][m]]],
   at  |-> [u \in Thread |-> [m \in Nat |->
             IF u = t /\ m = n THEN h.len ELSE h.at[u][m]]],
   vs  |-> [r \in Var |-> [k \in Nat |->
             IF k = h.len[r] + 1 THEN After(S, t, op, r) ELSE h.vs[r][k]]],
   len |-> [r \in Var |-> IF Touches(op, r) THEN h.len[r] + 1 ELSE h.len[r]],
   cnt |-> [u \in Thread |-> [m \in Nat |->
             IF u = t /\ m = n + 1 THEN CountAfter(S, op) ELSE h.cnt[u][m]]],
   snt |-> [u \in Thread |-> [m \in Nat |->
             IF u = t /\ m = n + 1 THEN h.snt[t][n] + Number(S, op)
             ELSE h.snt[u][m]]],
   msg |-> [u \in Thread |-> [i \in Nat |->
             IF u = t /\ i = h.snt[t][n] + 1 THEN Opened(S, t, op, First(S, op))
             ELSE IF u = t /\ i = h.snt[t][n] + 2 THEN Opened(S, t, op, Rest(S, op))
             ELSE h.msg[u][i]]]]

AppendedTo(h, g, t, op, n, S) ==
  /\ \A u \in Thread : \A m \in Nat :
       /\ g.ops[u][m] = IF u = t /\ m = n THEN op ELSE h.ops[u][m]
       /\ g.at[u][m] = IF u = t /\ m = n THEN h.len ELSE h.at[u][m]
       /\ g.cnt[u][m] = IF u = t /\ m = n + 1 THEN CountAfter(S, op)
                        ELSE h.cnt[u][m]
       /\ g.snt[u][m] = IF u = t /\ m = n + 1 THEN h.snt[t][n] + Number(S, op)
                        ELSE h.snt[u][m]
       /\ g.msg[u][m] = IF u = t /\ m = h.snt[t][n] + 1
                        THEN Opened(S, t, op, First(S, op))
                        ELSE IF u = t /\ m = h.snt[t][n] + 2
                        THEN Opened(S, t, op, Rest(S, op))
                        ELSE h.msg[u][m]
  /\ \A r \in Var :
       /\ g.len[r] = IF Touches(op, r) THEN h.len[r] + 1 ELSE h.len[r]
       /\ \A k \in Nat : g.vs[r][k] = IF k = h.len[r] + 1 THEN After(S, t, op, r)
                                      ELSE h.vs[r][k]

LEMMA AppendedFields ==
  ASSUME NEW h, NEW t \in Thread, NEW op, NEW n, NEW S
  PROVE  AppendedTo(h, Appended(h, t, op, n, S), t, op, n, S)
<1>0. PICK g : g = Appended(h, t, op, n, S) OBVIOUS
<1>1. /\ g.ops = [u \in Thread |-> [m \in Nat |->
                   IF u = t /\ m = n THEN op ELSE h.ops[u][m]]]
      /\ g.at = [u \in Thread |-> [m \in Nat |->
                  IF u = t /\ m = n THEN h.len ELSE h.at[u][m]]]
      /\ g.cnt = [u \in Thread |-> [m \in Nat |->
                   IF u = t /\ m = n + 1 THEN CountAfter(S, op) ELSE h.cnt[u][m]]]
      /\ g.snt = [u \in Thread |-> [m \in Nat |->
                   IF u = t /\ m = n + 1 THEN h.snt[t][n] + Number(S, op)
                   ELSE h.snt[u][m]]]
  BY <1>0 DEF Appended
<1>2. /\ g.vs = [r \in Var |-> [k \in Nat |->
                  IF k = h.len[r] + 1 THEN After(S, t, op, r) ELSE h.vs[r][k]]]
      /\ g.len = [r \in Var |-> IF Touches(op, r) THEN h.len[r] + 1 ELSE h.len[r]]
      /\ g.msg = [u \in Thread |-> [i \in Nat |->
                   IF u = t /\ i = h.snt[t][n] + 1 THEN Opened(S, t, op, First(S, op))
                   ELSE IF u = t /\ i = h.snt[t][n] + 2 THEN Opened(S, t, op, Rest(S, op))
                   ELSE h.msg[u][i]]]
  BY <1>0 DEF Appended
<1> QED BY <1>0, <1>1, <1>2 DEF AppendedTo

LEMMA NumberNat == \A S, op : Number(S, op) \in {0, 1, 2}
BY DEF Number

(* No party has started the operation.                                     *)
Fresh(h, g, p, t, op, n, S) ==
  /\ TypeOK /\ Exclusive /\ History(h) /\ TodoOK(h)
  /\ p \in Party /\ t \in Thread /\ op \in Ops[t] /\ n \in Nat
  /\ n = issued[t] + 1 /\ n <= MaxOps /\ issued'[t] = n
  /\ \A u \in Thread : u # t => issued'[u] = issued[u]
  /\ \A r \in Awaits[t] : Ended(p, r)
  /\ Begun(p, t) + 1 = n
  /\ S = Final(h, t) /\ AppendedTo(h, g, t, op, n, S)

LEMMA FreshExtends ==
  ASSUME NEW h, NEW g, NEW p, NEW t, NEW op, NEW n, NEW S, Fresh(h, g, p, t, op, n, S)
  PROVE  Extends(h, g) /\ Before(g, t, n) = S
<1> USE DEF Fresh
<1>1. \A u \in Thread : issued[u] \in Nat BY IssuedNat
<1>2. \A r \in Var : h.len[r] \in Nat BY DEF History, OpsOK
<1>3. \A u \in Thread : \A m \in 1 .. issued[u] : \A r \in Var :
        h.at[u][m][r] \in 0 .. h.len[r]
  BY DEF History, OpsOK, OpOK, Makes
<1>4. h.snt[t][n] \in Nat BY DEF History, OpsOK
<1>5. \A r \in Var : \A k \in 0 .. h.len[r] : g.vs[r][k] = h.vs[r][k]
  BY <1>2 DEF AppendedTo
<1>6. ASSUME NEW u \in Thread, NEW m \in 1 .. issued[u]
      PROVE  /\ g.ops[u][m] = h.ops[u][m] /\ Before(g, u, m) = Before(h, u, m)
             /\ \A r \in Var : g.at[u][m][r] = h.at[u][m][r]
  <2>1. m \in Nat /\ ~(u = t /\ m = n) /\ ~(u = t /\ m = n + 1) BY <1>1, <1>6
  <2>2. /\ g.ops[u][m] = h.ops[u][m] /\ g.at[u][m] = h.at[u][m]
        /\ g.cnt[u][m] = h.cnt[u][m] /\ g.snt[u][m] = h.snt[u][m]
    BY <2>1 DEF AppendedTo
  <2>3. \A r \in Var : g.vs[r][h.at[u][m][r]] = h.vs[r][h.at[u][m][r]]
    BY <1>3, <1>5
  <2> QED BY <2>2, <2>3 DEF Before
<1>7. ASSUME NEW u \in Thread, NEW m \in 1 .. issued[u] + 1
      PROVE  g.cnt[u][m] = h.cnt[u][m] /\ g.snt[u][m] = h.snt[u][m]
  <2>1. m \in Nat /\ ~(u = t /\ m = n + 1) BY <1>1, <1>7
  <2> QED BY <2>1 DEF AppendedTo
<1>8. ASSUME NEW u \in Thread, NEW i \in Nat, i <= h.snt[u][issued[u] + 1]
      PROVE  g.msg[u][i] = h.msg[u][i]
  <2>1. ~(u = t /\ i = h.snt[t][n] + 1) /\ ~(u = t /\ i = h.snt[t][n] + 2)
    BY <1>4, <1>8
  <2> QED BY <2>1 DEF AppendedTo
<1>9. Before(g, t, n) = S
  <2>1. /\ g.at[t][n] = h.len /\ g.cnt[t][n] = h.cnt[t][n]
        /\ g.snt[t][n] = h.snt[t][n]
    BY DEF AppendedTo
  <2>2. \A r \in Var : g.vs[r][h.len[r]] = h.vs[r][h.len[r]] BY <1>2, <1>5
  <2> QED BY <2>1, <2>2 DEF Before, Final
<1> QED BY <1>5, <1>6, <1>7, <1>8, <1>9 DEF Extends

LEMMA FreshOps ==
  ASSUME NEW h, NEW g, NEW p, NEW t, NEW op, NEW n, NEW S, Fresh(h, g, p, t, op, n, S)
  PROVE  OpsOK(g)'
<1> USE DEF Fresh
<1>1. Extends(h, g) /\ Before(g, t, n) = S BY FreshExtends
<1>2. \A u \in Thread : issued[u] \in Nat BY IssuedNat
<1>3. \A r \in Var : h.len[r] \in Nat /\ g.len[r] \in Nat /\ h.len[r] <= g.len[r]
  BY DEF AppendedTo, History, OpsOK
<1>4. h.snt[t][n] \in Nat BY DEF History, OpsOK
<1>5. g.snt[t][n] = h.snt[t][n] /\ g.snt[t][n + 1] = h.snt[t][n] + Number(S, op)
  BY DEF AppendedTo
<1>6. Number(S, op) \in {0, 1, 2} BY NumberNat
<1>7. \A u \in Thread : u # t => g.snt[u][issued[u] + 1] = h.snt[u][issued[u] + 1]
  BY <1>1, <1>2 DEF Extends
<1>8. \A u \in Thread : /\ g.snt[u][issued'[u] + 1] \in Nat
                        /\ h.snt[u][issued[u] + 1] \in Nat
                        /\ h.snt[u][issued[u] + 1] <= g.snt[u][issued'[u] + 1]
  <2>1. \A u \in Thread : h.snt[u][issued[u] + 1] \in Nat BY DEF History, OpsOK
  <2> QED BY <1>4, <1>5, <1>6, <1>7, <2>1
<1>9. ASSUME NEW u \in Thread, NEW m \in 1 .. issued[u] PROVE OpOK(g, u, m)'
  <2>1. OpOK(h, u, m) BY DEF History, OpsOK
  <2>2. /\ g.ops[u][m] = h.ops[u][m] /\ Before(g, u, m) = Before(h, u, m)
        /\ \A r \in Var : g.at[u][m][r] = h.at[u][m][r]
    BY <1>1 DEF Extends
  <2>3. m \in 1 .. issued[u] + 1 /\ m + 1 \in 1 .. issued[u] + 1 BY <1>2
  <2>4. /\ g.cnt[u][m + 1] = h.cnt[u][m + 1] /\ g.snt[u][m] = h.snt[u][m]
        /\ g.snt[u][m + 1] = h.snt[u][m + 1]
    BY <1>1, <2>3 DEF Extends
  <2>5. PICK o : o = h.ops[u][m] OBVIOUS
  <2>6. PICK B : B = Before(h, u, m) OBVIOUS
  <2>7. Makes(g, u, o, B, g.at[u][m])'
    <3>1. Makes(h, u, o, B, h.at[u][m]) BY <2>1, <2>5, <2>6 DEF OpOK
    <3> SUFFICES ASSUME NEW r \in Var
                 PROVE  /\ h.at[u][m][r] \in 0 .. g.len[r]
                        /\ Touches(o, r) =>
                             /\ h.at[u][m][r] + 1 <= g.len[r]
                             /\ g.vs[r][h.at[u][m][r] + 1] = After(B, u, o, r)
      BY <2>2 DEF Makes
    <3>2. /\ h.at[u][m][r] \in 0 .. h.len[r]
          /\ Touches(o, r) => /\ h.at[u][m][r] + 1 <= h.len[r]
                              /\ h.vs[r][h.at[u][m][r] + 1] = After(B, u, o, r)
      BY <3>1 DEF Makes
    <3>3. Touches(o, r) => g.vs[r][h.at[u][m][r] + 1] = h.vs[r][h.at[u][m][r] + 1]
      <4>1. Touches(o, r) => h.at[u][m][r] + 1 \in 0 .. h.len[r] BY <1>3, <3>2
      <4> QED BY <1>1, <4>1 DEF Extends
    <3> QED BY <1>3, <3>2, <3>3
  <2>8. Sends(g, u, m, o, B)'
    <3>1. Sends(h, u, m, o, B) BY <2>1, <2>5, <2>6 DEF OpOK
    <3>2. /\ h.snt[u][m] \in Nat /\ h.snt[u][m + 1] = h.snt[u][m] + Number(B, o)
          /\ h.snt[u][m + 1] <= h.snt[u][issued[u] + 1]
      BY <3>1 DEF Sends
    <3>3. Number(B, o) \in {0, 1, 2} BY NumberNat
    <3>4. \A i \in {1, 2} : i <= Number(B, o) =>
            g.msg[u][h.snt[u][m] + i] = h.msg[u][h.snt[u][m] + i]
      <4> SUFFICES ASSUME NEW i \in {1, 2}, i <= Number(B, o)
                   PROVE  g.msg[u][h.snt[u][m] + i] = h.msg[u][h.snt[u][m] + i]
        OBVIOUS
      <4>1. h.snt[u][m] + i \in Nat /\ h.snt[u][m] + i <= h.snt[u][issued[u] + 1]
        BY <1>8, <3>2, <3>3
      <4> QED BY <1>1, <4>1 DEF Extends
    <3>5. h.snt[u][m + 1] <= g.snt[u][issued'[u] + 1] BY <1>8, <3>2, <3>3
    <3>6. /\ Number(B, o) >= 1 =>
               g.msg[u][h.snt[u][m] + 1] = Opened(B, u, o, First(B, o))
          /\ Number(B, o) = 2 =>
               g.msg[u][h.snt[u][m] + 2] = Opened(B, u, o, Rest(B, o))
      BY <3>1, <3>3, <3>4 DEF Sends
    <3> QED BY <2>4, <3>2, <3>5, <3>6 DEF Sends
  <2> QED BY <2>1, <2>2, <2>4, <2>5, <2>6, <2>7, <2>8 DEF OpOK
<1>10. OpOK(g, t, n)'
  <2>1. g.ops[t][n] = op /\ g.at[t][n] = h.len /\ g.cnt[t][n + 1] = CountAfter(S, op)
    BY DEF AppendedTo
  <2>2. Makes(g, t, op, S, h.len)'
    <3> SUFFICES ASSUME NEW r \in Var
                 PROVE  /\ h.len[r] \in 0 .. g.len[r]
                        /\ Touches(op, r) =>
                             /\ h.len[r] + 1 <= g.len[r]
                             /\ g.vs[r][h.len[r] + 1] = After(S, t, op, r)
      BY DEF Makes
    <3>1. g.len[r] = IF Touches(op, r) THEN h.len[r] + 1 ELSE h.len[r]
      BY DEF AppendedTo
    <3>2. h.len[r] + 1 \in Nat BY <1>3
    <3>3. g.vs[r][h.len[r] + 1] = After(S, t, op, r) BY <3>2 DEF AppendedTo
    <3> QED BY <1>3, <3>1, <3>3
  <2>3. Sends(g, t, n, op, S)'
    <3>1. /\ g.msg[t][h.snt[t][n] + 1] = Opened(S, t, op, First(S, op))
          /\ g.msg[t][h.snt[t][n] + 2] = Opened(S, t, op, Rest(S, op))
      <4>1. h.snt[t][n] + 1 \in Nat /\ h.snt[t][n] + 2 \in Nat BY <1>4
      <4>2. h.snt[t][n] + 2 # h.snt[t][n] + 1 BY <1>4
      <4> QED BY <4>1, <4>2 DEF AppendedTo
    <3> QED BY <1>4, <1>5, <1>6, <3>1 DEF Sends
  <2> QED BY <1>1, <2>1, <2>2, <2>3 DEF OpOK
<1>11. \A u \in Thread : \A m \in 1 .. issued'[u] :
         m \in 1 .. issued[u] \/ (u = t /\ m = n)
  BY <1>2
<1> QED BY <1>3, <1>8, <1>9, <1>10, <1>11 DEF OpsOK

LEMMA FreshOpAt ==
  ASSUME NEW h, NEW g, NEW p, NEW t, NEW op, NEW n, NEW S, Fresh(h, g, p, t, op, n, S),
         NEW u \in Thread, NEW m \in Nat, NEW r
  PROVE  /\ u = t /\ m = n => (OpAt(g, u, m, r)' <=> Touches(op, r))
         /\ u # t \/ m # n => (OpAt(g, u, m, r)' <=> OpAt(h, u, m, r))
         /\ OpAt(h, u, m, r) => u # t \/ m # n
<1> USE DEF Fresh
<1>1. issued[u] \in Nat BY IssuedNat
<1>2. CASE u = t /\ m = n
  <2>1. g.ops[u][m] = op BY <1>2 DEF AppendedTo
  <2>2. m \in 1 .. issued'[u] /\ m \notin 1 .. issued[u] BY <1>1, <1>2
  <2> QED BY <1>2, <2>1, <2>2 DEF OpAt
<1>3. CASE u # t \/ m # n
  <2>1. g.ops[u][m] = h.ops[u][m] BY <1>3 DEF AppendedTo
  <2>2. m \in 1 .. issued'[u] <=> m \in 1 .. issued[u] BY <1>1, <1>3
  <2> QED BY <1>3, <2>1, <2>2 DEF OpAt
<1> QED BY <1>2, <1>3

(* The version an operation starts from, in h and in g.                    *)
LEMMA FreshAt ==
  ASSUME NEW h, NEW g, NEW p, NEW t, NEW op, NEW n, NEW S, Fresh(h, g, p, t, op, n, S),
         NEW u \in Thread, NEW m \in Nat, NEW r \in Var
  PROVE  /\ u = t /\ m = n => g.at[u][m][r] = h.len[r]
         /\ u # t \/ m # n => g.at[u][m][r] = h.at[u][m][r]
         /\ OpAt(h, u, m, r) => /\ h.at[u][m][r] \in Nat
                                /\ h.at[u][m][r] < h.len[r]
                                /\ g.at[u][m][r] = h.at[u][m][r]
         /\ h.len[r] \in Nat
<1> USE DEF Fresh
<1>1. h.len[r] \in Nat BY DEF History, OpsOK
<1>2. /\ u = t /\ m = n => g.at[u][m][r] = h.len[r]
      /\ u # t \/ m # n => g.at[u][m][r] = h.at[u][m][r]
  BY DEF AppendedTo
<1>3. ASSUME OpAt(h, u, m, r)
      PROVE  h.at[u][m][r] \in Nat /\ h.at[u][m][r] < h.len[r]
  <2>1. Makes(h, u, h.ops[u][m], Before(h, u, m), h.at[u][m])
    BY <1>3 DEF History, OpsOK, OpOK, OpAt
  <2>2. h.at[u][m][r] \in 0 .. h.len[r] /\ h.at[u][m][r] + 1 <= h.len[r]
    BY <1>3, <2>1 DEF Makes, OpAt
  <2> QED BY <1>1, <2>2
<1> QED BY <1>1, <1>2, <1>3, FreshOpAt

LEMMA FreshOrder ==
  ASSUME NEW h, NEW g, NEW p, NEW t, NEW op, NEW n, NEW S, Fresh(h, g, p, t, op, n, S)
  PROVE  OrderOK(g)'
<1> USE DEF Fresh
<1>1. \A u \in Thread : issued[u] \in Nat BY IssuedNat
<1>2. issued[t] # MaxOps /\ MaxOps \in Nat BY <1>1 DEF BoundsAssumption
<1>3. \A u \in Thread : t \in Awaits[u] => issued[u] = 0 /\ u # t
  <2> SUFFICES ASSUME NEW u \in Thread, t \in Awaits[u]
               PROVE  issued[u] = 0 /\ u # t
    OBVIOUS
  <2>1. issued[u] > 0 => issued[t] = MaxOps BY DEF History, OrderOK
  <2>2. u # t BY <1>2 DEF Ended
  <2> QED BY <1>1, <1>2, <2>1, <2>2
<1>4. ASSUME NEW r \in Var, NEW k \in Nat, k < g.len[r]
      PROVE  \E u \in Thread : \E m \in Nat : OpAt(g, u, m, r)' /\ g.at[u][m][r] = k
  <2>1. h.len[r] \in Nat BY FreshAt
  <2>2. g.len[r] = IF Touches(op, r) THEN h.len[r] + 1 ELSE h.len[r]
    BY DEF AppendedTo
  <2>3. CASE k < h.len[r]
    <3>1. PICK u \in Thread, m \in Nat : OpAt(h, u, m, r) /\ h.at[u][m][r] = k
      BY <2>3 DEF History, OrderOK
    <3>2. OpAt(g, u, m, r)' /\ g.at[u][m][r] = k BY <3>1, FreshOpAt, FreshAt
    <3> QED BY <3>2
  <2>4. CASE ~(k < h.len[r])
    <3>1. Touches(op, r) /\ k = h.len[r] BY <1>4, <2>1, <2>2, <2>4
    <3>2. OpAt(g, t, n, r)' /\ g.at[t][n][r] = k BY <3>1, FreshOpAt, FreshAt
    <3> QED BY <3>2
  <2> QED BY <2>3, <2>4
<1>5. ASSUME NEW r \in Var, NEW a \in Thread, NEW u \in Thread, NEW i \in Nat, NEW m \in Nat,
             OpAt(g, a, i, r)', OpAt(g, u, m, r)'
      PROVE  Precedes(g, a, i, u, m, r)
  <2>0. h.len[r] \in Nat BY FreshAt
  <2>1. CASE (a # t \/ i # n) /\ (u # t \/ m # n)
    <3>1. OpAt(h, a, i, r) /\ OpAt(h, u, m, r) BY <1>5, <2>1, FreshOpAt
    <3>2. Precedes(h, a, i, u, m, r) BY <3>1 DEF History, OrderOK
    <3>3. g.at[a][i][r] = h.at[a][i][r] /\ g.at[u][m][r] = h.at[u][m][r]
      BY <3>1, FreshAt
    <3> QED BY <3>2, <3>3 DEF Precedes
  <2>2. CASE (a # t \/ i # n) /\ (u = t /\ m = n)
    <3>1. OpAt(h, a, i, r) BY <1>5, <2>2, FreshOpAt
    <3>2. /\ g.at[a][i][r] = h.at[a][i][r] /\ h.at[a][i][r] \in Nat
          /\ h.at[a][i][r] < h.len[r] /\ g.at[u][m][r] = h.len[r]
      BY <2>2, <3>1, FreshAt
    <3> QED BY <2>0, <3>2 DEF Precedes
  <2>3. CASE (a = t /\ i = n) /\ (u # t \/ m # n)
    <3>1. OpAt(h, u, m, r) BY <1>5, <2>3, FreshOpAt
    <3>2. /\ g.at[u][m][r] = h.at[u][m][r] /\ h.at[u][m][r] \in Nat
          /\ h.at[u][m][r] < h.len[r] /\ g.at[a][i][r] = h.len[r]
      BY <2>3, <3>1, FreshAt
    <3>3. m \in 1 .. issued[u] BY <3>1 DEF OpAt
    <3>4. ~(a = u /\ i < m) BY <1>1, <2>3, <3>3
    <3>5. a \notin Awaits[u] BY <1>1, <1>3, <2>3, <3>3
    <3> QED BY <2>0, <2>3, <3>2, <3>4, <3>5 DEF Precedes
  <2>4. CASE (a = t /\ i = n) /\ (u = t /\ m = n)
    BY <1>3, <2>4 DEF Precedes
  <2> QED BY <2>1, <2>2, <2>3, <2>4
<1>6. ASSUME NEW u \in Thread, NEW a \in Awaits[u], issued'[u] > 0
      PROVE  issued'[a] = MaxOps
  <2>1. a \in Thread BY DEF UsesAssumption
  <2>2. CASE u = t
    <3>1. issued[a] = MaxOps BY <2>2 DEF Ended
    <3>2. a # t BY <1>2, <3>1
    <3> QED BY <2>1, <3>1, <3>2
  <2>3. CASE u # t
    <3>1. issued[u] > 0 BY <1>6, <2>3
    <3>2. issued[a] = MaxOps BY <3>1 DEF History, OrderOK
    <3>3. a # t BY <1>2, <3>2
    <3> QED BY <2>1, <3>2, <3>3
  <2> QED BY <2>2, <2>3
<1> QED BY <1>4, <1>5, <1>6 DEF OrderOK, Precedes

LEMMA TakeFresh ==
  ASSUME TypeOK, Exclusive, NEW h, History(h), TodoOK(h),
         NEW p \in Party, NEW t \in Thread, NEW op \in Ops[t],
         Takes(p, t, op), todo[p][t] = <<>>
  PROVE  \E g : Taken(h, g, p, t, op)
<1>1. /\ issued[t] < MaxOps /\ issued' = [issued EXCEPT ![t] = @ + 1]
      /\ todo' = [q \in Party |-> IF q = p THEN todo[q]
                                  ELSE [todo[q] EXCEPT ![t] = Append(@, op)]]
      /\ \A r \in Awaits[t] : Ended(p, r)
  BY DEF Takes
<1>2. /\ \A u \in Thread : issued[u] \in Nat
      /\ Begun(p, t) = issued[t]
  BY IssuedNat, BegunNat
<1>3. PICK n \in Nat : n = issued[t] + 1 BY <1>2
<1>4. /\ issued'[t] = n /\ n <= MaxOps
      /\ \A u \in Thread : u # t => issued'[u] = issued[u]
  BY <1>1, <1>2, <1>3 DEF TypeOK, BoundsAssumption
<1>5. PICK S : S = Final(h, t) OBVIOUS
<1>6. PICK g : g = Appended(h, t, op, n, S) OBVIOUS
<1>7. Fresh(h, g, p, t, op, n, S)
  BY <1>1, <1>2, <1>3, <1>4, <1>5, <1>6, AppendedFields DEF Fresh
<1>8. /\ \A q \in Party : \A u \in Thread : todo[q][u] \in Seq(AllOps)
      /\ \A q \in Party : \A u \in Thread :
           q = p \/ u # t => todo'[q][u] = todo[q][u]
      /\ \A q \in Party : q # p => todo'[q][t] = Append(todo[q][t], op)
  BY <1>1 DEF TypeOK
<1>9. ASSUME NEW q \in Party, NEW u \in Thread
      PROVE  Begun(q, u)' = IF q = p /\ u = t THEN n ELSE Begun(q, u)
  <2>1. CASE u # t BY <1>4, <1>8, <2>1 DEF Begun
  <2>2. CASE u = t /\ q = p
    <3>1. Len(todo'[p][t]) = 0 BY <1>8
    <3> QED BY <1>3, <1>4, <2>2, <3>1 DEF Begun
  <2>3. CASE u = t /\ q # p
    <3>1. /\ Len(todo[q][t]) \in Nat /\ Len(todo'[q][t]) = Len(todo[q][t]) + 1
      BY <1>8, <2>3
    <3>2. issued'[t] = issued[t] + 1 /\ issued[t] \in Nat BY <1>2, <1>3, <1>4
    <3>3. /\ Begun(q, t)' = issued'[t] - Len(todo'[q][t])
          /\ Begun(q, t) = issued[t] - Len(todo[q][t])
      BY DEF Begun
    <3>4. Begun(q, t)' = Begun(q, t) BY <3>1, <3>2, <3>3
    <3> QED BY <2>3, <3>4
  <2> QED BY <2>1, <2>2, <2>3
<1>10. Begins(p, t)
  <2>1. \A u \in Thread : issued'[u] \in Nat /\ issued[u] <= issued'[u]
    BY <1>2, <1>3, <1>4
  <2> QED BY <1>2, <1>3, <1>4, <1>9, <2>1 DEF Begins
<1>11. Extends(h, g) /\ Before(g, t, n) = S BY <1>7, FreshExtends
<1>12. History(g)' BY <1>7, FreshOps, FreshOrder DEF History
<1>13. g.ops[t][n] = op BY <1>7 DEF Fresh, AppendedTo
<1>14. TodoOK(g)'
  <2> SUFFICES ASSUME NEW q \in Party, NEW u \in Thread
               PROVE  /\ Begun(q, u)' \in 0 .. issued'[u]
                      /\ \A k \in 1 .. Len(todo'[q][u]) :
                           todo'[q][u][k] = g.ops[u][Begun(q, u)' + k]
    BY DEF TodoOK
  <2>1. /\ Begun(q, u) \in Nat /\ Begun(q, u) <= issued[u]
        /\ \A k \in 1 .. Len(todo[q][u]) : todo[q][u][k] = h.ops[u][Begun(q, u) + k]
    BY BegunNat DEF TodoOK
  <2>2. Begun(q, u)' \in 0 .. issued'[u] BY <1>2, <1>3, <1>4, <1>9, <2>1
  <2>3. \A k \in 1 .. Len(todo[q][u]) : Begun(q, u) + k \in 1 .. issued[u]
    <3>1. Len(todo[q][u]) \in Nat BY <1>8
    <3>2. Begun(q, u) + Len(todo[q][u]) = issued[u] BY <1>2, <3>1 DEF Begun
    <3> QED BY <2>1, <3>1, <3>2
  <2>4. \A k \in 1 .. Len(todo[q][u]) : todo[q][u][k] = g.ops[u][Begun(q, u) + k]
    BY <1>11, <2>1, <2>3 DEF Extends
  <2>5. CASE u # t BY <1>8, <1>9, <2>2, <2>4, <2>5
  <2>6. CASE u = t /\ q = p
    <3>1. \A k \in 1 .. Len(todo'[q][u]) : FALSE BY <1>8, <2>6
    <3> QED BY <2>2, <3>1
  <2>7. CASE u = t /\ q # p
    <3>1. todo'[q][u] = Append(todo[q][u], op) /\ todo[q][u] \in Seq(AllOps)
      BY <1>8, <2>7
    <3>2. Begun(q, u) + Len(todo[q][u]) + 1 = n
      BY <1>2, <1>3, <2>7, <3>1 DEF Begun
    <3>3. ASSUME NEW k \in 1 .. Len(todo'[q][u])
          PROVE  todo'[q][u][k] = g.ops[u][Begun(q, u) + k]
      <4>1. CASE k \in 1 .. Len(todo[q][u])
        <5>1. todo'[q][u][k] = todo[q][u][k] BY <3>1, <4>1
        <5> QED BY <2>4, <4>1, <5>1
      <4>2. CASE k \notin 1 .. Len(todo[q][u])
        <5>1. k = Len(todo[q][u]) + 1 BY <3>1, <3>3, <4>2
        <5>2. todo'[q][u][k] = op BY <3>1, <5>1
        <5>3. Begun(q, u) + k = n BY <2>1, <3>1, <3>2, <5>1
        <5> QED BY <1>13, <2>7, <5>2, <5>3
      <4> QED BY <4>1, <4>2
    <3> QED BY <1>9, <2>2, <2>7, <3>3
  <2> QED BY <2>5, <2>6, <2>7
<1>15. CutsMove(h, g, p, t, op)
  <2> SUFFICES ASSUME NEW q \in Party, NEW r \in Var, NEW k \in Nat, Cut(h, q, r, k)
               PROVE  /\ q # p \/ ~Touches(op, r) => Cut(g, q, r, k)'
                      /\ q = p /\ Touches(op, r) => /\ g.at[t][n][r] = k
                                                    /\ Cut(g, p, r, k + 1)'
    BY <1>2, <1>3 DEF CutsMove
  <2>1. h.len[r] \in Nat BY <1>7, FreshAt
  <2>2. g.len[r] = IF Touches(op, r) THEN h.len[r] + 1 ELSE h.len[r]
    BY <1>7 DEF Fresh, AppendedTo
  <2>3. k \in 0 .. h.len[r] BY DEF Cut
  <2>4. ASSUME q # p \/ ~Touches(op, r) PROVE Cut(g, q, r, k)'
    <3>1. ASSUME NEW u \in Thread, NEW m \in Nat, OpAt(g, u, m, r)'
          PROVE  m <= Begun(q, u)' <=> g.at[u][m][r] < k
      <4>1. CASE u = t /\ m = n
        <5>1. Touches(op, r) BY <1>7, <3>1, <4>1, FreshOpAt
        <5>2. g.at[u][m][r] = h.len[r] BY <1>7, <4>1, FreshAt
        <5>3. Begun(q, u)' = Begun(q, u) BY <1>9, <2>4, <5>1
        <5>4. Begun(q, u) \in Nat /\ Begun(q, u) < n BY <1>2, <1>3, <4>1, BegunNat
        <5> QED BY <2>1, <2>3, <4>1, <5>2, <5>3, <5>4
      <4>2. CASE u # t \/ m # n
        <5>1. OpAt(h, u, m, r) BY <1>7, <3>1, <4>2, FreshOpAt
        <5>2. g.at[u][m][r] = h.at[u][m][r] BY <1>7, <5>1, FreshAt
        <5>3. m <= Begun(q, u) <=> h.at[u][m][r] < k BY <5>1 DEF Cut
        <5>4. m <= Begun(q, u)' <=> m <= Begun(q, u)
          <6>1. m \in 1 .. issued[u] BY <5>1 DEF OpAt
          <6> QED BY <1>2, <1>3, <1>9, <6>1
        <5> QED BY <5>2, <5>3, <5>4
      <4> QED BY <4>1, <4>2
    <3>2. k \in 0 .. g.len[r] BY <2>1, <2>2, <2>3
    <3> QED BY <3>1, <3>2 DEF Cut
  <2>5. ASSUME q = p, Touches(op, r)
        PROVE  g.at[t][n][r] = k /\ Cut(g, p, r, k + 1)'
    <3>1. r \in Uses[t] BY <2>5, UsedBy
    <3>2. k = h.len[r]
      <4>1. SUFFICES ASSUME k < h.len[r] PROVE FALSE BY <2>1, <2>3
      <4>2. PICK u \in Thread, m \in Nat :
              /\ OpAt(h, u, m, r) /\ m > Begun(p, u)
              /\ u # t => t \in Awaits[u]
        BY <1>1, <2>5, <3>1, <4>1, CutNext
      <4>3. m \in 1 .. issued[u] BY <4>2 DEF OpAt
      <4>4. u # t BY <1>2, <4>2, <4>3
      <4>5. issued[t] = MaxOps
        <5>1. issued[u] > 0 BY <1>2, <4>3
        <5> QED BY <4>2, <4>4, <5>1 DEF History, OrderOK
      <4> QED BY <1>1, <1>2, <4>5
    <3>3. g.at[t][n][r] = k BY <1>7, <3>2, FreshAt
    <3>4. ASSUME NEW u \in Thread, NEW m \in Nat, OpAt(g, u, m, r)'
          PROVE  m <= Begun(p, u)' <=> g.at[u][m][r] < k + 1
      <4>1. CASE u = t /\ m = n BY <1>9, <3>2, <3>3, <2>1, <4>1
      <4>2. CASE u # t \/ m # n
        <5>1. OpAt(h, u, m, r) BY <1>7, <3>4, <4>2, FreshOpAt
        <5>2. /\ g.at[u][m][r] = h.at[u][m][r] /\ h.at[u][m][r] \in Nat
              /\ h.at[u][m][r] < h.len[r]
          BY <1>7, <5>1, FreshAt
        <5>3. m <= Begun(p, u) <=> h.at[u][m][r] < k BY <2>5, <5>1 DEF Cut
        <5>4. m <= Begun(p, u)' <=> m <= Begun(p, u)
          <6>1. m \in 1 .. issued[u] BY <5>1 DEF OpAt
          <6> QED BY <1>2, <1>3, <1>9, <4>2, <6>1
        <5> QED BY <2>1, <3>2, <5>2, <5>3, <5>4
      <4> QED BY <4>1, <4>2
    <3>5. k + 1 \in 0 .. g.len[r] BY <2>1, <2>2, <2>5, <3>2
    <3> QED BY <3>3, <3>4, <3>5 DEF Cut
  <2> QED BY <2>4, <2>5
<1>16. Taken(h, g, p, t, op)
  BY <1>2, <1>3, <1>10, <1>11, <1>12, <1>13, <1>14, <1>15 DEF Taken
<1> QED BY <1>16
-----------------------------------------------------------------------------
(* What a step of thread t of p leaves alone: the place of every other     *)
(* thread in the history, and the variables op does not touch.             *)
SameAt(p, r) ==
  /\ memory'[p][r] = memory[p][r]
  /\ \A m : m.addr = memory[p][r].addr => (m \in meta'[p] <=> m \in meta[p])
  /\ \A e : e.addr = memory[p][r].addr => (e \in entries'[p] <=> e \in entries[p])

LEMMA AbsKept ==
  ASSUME NEW p, NEW r, SameAt(p, r)
  PROVE  Abs(p, r)' = Abs(p, r)
<1>1. PICK a : a = memory[p][r].addr OBVIOUS
<1>2. memory'[p][r] = memory[p][r] BY DEF SameAt
<1>3. (\E m \in meta'[p] : m.addr = a) <=> (\E m \in meta[p] : m.addr = a)
  BY <1>1 DEF SameAt
<1>4. {d \in entries'[p] : d.addr = a} = {d \in entries[p] : d.addr = a}
  BY <1>1 DEF SameAt
<1>5. memory'[p][r].addr = a BY <1>1, <1>2
<1> QED BY <1>1, <1>2, <1>3, <1>4, <1>5 DEF Abs

Context(h, g, p, t, op) ==
  /\ IInv /\ Exclusive /\ TodoOK(h) /\ Extends(h, g)
  /\ p \in Party /\ t \in Thread /\ op \in Ops[t]
  /\ Moves(p, t) /\ Local(p, t) /\ \A r \in Awaits[t] : Ended(p, r)
  /\ \A u \in Thread : issued'[u] \in Nat /\ issued[u] <= issued'[u]
  /\ \A q \in Party : \A u \in Thread : q # p \/ u # t =>
       Begun(q, u)' = Begun(q, u) /\ counter'[q][u] = counter[q][u]
  /\ \A q \in Party : \A r \in Var : \A k \in Nat :
       Cut(h, q, r, k) /\ (q # p \/ ~Touches(op, r)) => Cut(g, q, r, k)'
  /\ \A r \in Var : ~Touches(op, r) => Abs(p, r)' = Abs(p, r)
  /\ frame[p][t].step # "Idle" => frame[p][t].op = op
  /\ frame'[p][t].step # "Idle" => frame'[p][t].op = op

LEMMA OthersFollow ==
  ASSUME NEW h, NEW g, NEW p, NEW t, NEW op, Context(h, g, p, t, op),
         NEW q \in Party, NEW u \in Thread, q # p \/ u # t, ThreadOK(h, q, u)
  PROVE  /\ ThreadOK(g, q, u)' /\ Received(g, q, u)' = Received(h, q, u)
         /\ Sent(g, q, u)' = Sent(h, q, u)
<1> USE DEF Context
<1>1. PICK f : f = frame[q][u] OBVIOUS
<1>2. frame'[q][u] = f BY <1>1 DEF Moves
<1>3. PICK n : n = Begun(q, u) OBVIOUS
<1>4. n \in Nat /\ n <= issued[u] /\ issued[u] \in Nat
  BY <1>3, BegunNat, IssuedNat DEF IInv
<1>5. Begun(q, u)' = n /\ counter'[q][u] = counter[q][u] BY <1>3
<1>6. n + 1 \in 1 .. issued[u] + 1 BY <1>4
<1>7. g.cnt[u][n + 1] = h.cnt[u][n + 1] /\ g.snt[u][n + 1] = h.snt[u][n + 1]
  BY <1>6 DEF Extends
<1>8. CASE f.step = "Idle"
  <2>1. ThreadOK(g, q, u)' BY <1>1, <1>2, <1>3, <1>5, <1>7, <1>8 DEF ThreadOK
  <2>2. Received(g, q, u)' = Received(h, q, u)
    BY <1>1, <1>2, <1>3, <1>5, <1>7, <1>8 DEF Received, ReceivedIn
  <2> QED BY <1>1, <1>2, <1>8, <2>1, <2>2 DEF Sent
<1>9. CASE f.step # "Idle"
  <2>1. RunOK(h, q, u, n, f) BY <1>1, <1>3, <1>9 DEF ThreadOK
  <2>2. n \in 1 .. issued[u] /\ f.op = h.ops[u][n] /\ f.op.kind \in Products
    BY <2>1 DEF RunOK
  <2>3. /\ g.ops[u][n] = h.ops[u][n] /\ Before(g, u, n) = Before(h, u, n)
        /\ \A r \in Var : g.at[u][n][r] = h.at[u][n][r]
    BY <2>2 DEF Extends
  <2>4. PICK S : S = Before(h, u, n) OBVIOUS
  <2>5. VarsAt(g, q, u, n, S, f)'
    <3> SUFFICES ASSUME NEW r \in Var, Touches(f.op, r)
                 PROVE  /\ Cut(g, q, r, h.at[u][n][r] + 1)'
                        /\ Abs(q, r)' = Stage(S, u, f, r)
      BY <2>3 DEF VarsAt
    <3>1. /\ Cut(h, q, r, h.at[u][n][r] + 1) /\ Abs(q, r) = Stage(S, u, f, r)
      BY <2>1, <2>4 DEF RunOK, VarsAt
    <3>2. f.op \in Ops[u]
      <4>1. f \in Frame /\ FrameOK(q, u, f) BY <1>1, FrameOf
      <4>2. f.step \in Steps BY <4>1 DEF Frame
      <4>3. f.step # "Failed" BY <1>1 DEF IInv, FrameInv
      <4> QED BY <1>9, <4>1, <4>2, <4>3 DEF FrameOK
    <3>3. r \in Uses[u] BY <3>2, UsedBy
    <3>4. SameFor(q, u) BY <1>1, <1>9, OthersKept DEF Moves
    <3>5. Abs(q, r)' = Abs(q, r) BY <3>3, <3>4, AbsKept DEF SameFor, SameAt
    <3>6. q = p => ~Touches(op, r)
      <4>1. SUFFICES ASSUME q = p, Touches(op, r) PROVE FALSE OBVIOUS
      <4>2. r \in Uses[t] BY <4>1, UsedBy
      <4>3. Uses[t] \cap Uses[u] = {}
        BY <1>1, <1>9, <4>1, ThreadsApart DEF Moves
      <4> QED BY <3>3, <4>2, <4>3
    <3>7. PICK k : k = h.at[u][n][r] + 1 OBVIOUS
    <3>8. k \in Nat BY <3>1, <3>7 DEF Cut
    <3>9. Cut(g, q, r, k)' BY <3>1, <3>6, <3>7, <3>8
    <3> QED BY <3>1, <3>5, <3>7, <3>9
  <2>6. FrameAt(S, u, f, counter'[q][u])
    BY <1>5, <2>1, <2>4 DEF RunOK
  <2>7. n \in 1 .. issued'[u]
    <3>1. issued'[u] \in Nat /\ issued[u] <= issued'[u] OBVIOUS
    <3> QED BY <1>4, <2>2, <3>1
  <2>8. RunOK(g, q, u, n, f)' BY <2>2, <2>3, <2>4, <2>5, <2>6, <2>7 DEF RunOK
  <2>9. ThreadOK(g, q, u)' BY <1>2, <1>5, <1>9, <2>8 DEF ThreadOK
  <2>10. g.snt[u][n] = h.snt[u][n]
    <3>1. n \in 1 .. issued[u] + 1 BY <1>4, <2>2
    <3> QED BY <3>1 DEF Extends
  <2>11. ReceivedIn(g, u, n, f) = ReceivedIn(h, u, n, f)
    BY <1>7, <2>3, <2>10 DEF ReceivedIn
  <2>12. Received(g, q, u)' = Received(h, q, u)
    BY <1>1, <1>2, <1>3, <1>5, <2>11 DEF Received
  <2> QED BY <1>1, <1>2, <2>9, <2>12 DEF Sent
<1> QED BY <1>8, <1>9

LEMMA VarsFollow ==
  ASSUME NEW h, NEW g, NEW p, NEW t, NEW op, Context(h, g, p, t, op),
         NEW q \in Party, NEW r \in Var, q # p \/ ~Touches(op, r), VarOK(h, q, r)
  PROVE  VarOK(g, q, r)'
<1> USE DEF Context
<1>1. Busy(q, r) => Busy(q, r)'
  <2> SUFFICES ASSUME NEW u \in Thread, frame[q][u].step # "Idle",
                      Touches(frame[q][u].op, r)
               PROVE  frame'[q][u] = frame[q][u]
    BY DEF Busy
  <2> QED BY DEF Moves
<1>2. Abs(q, r)' = Abs(q, r)
  <2>1. CASE q = p BY <2>1
  <2>2. CASE q # p
    <3>1. SameAt(q, r) BY <2>2 DEF Local, SameAt
    <3> QED BY <3>1, AbsKept
  <2> QED BY <2>1, <2>2
<1>3. ASSUME ~Busy(q, r)'
      PROVE  \E k \in Nat : Cut(g, q, r, k)' /\ Abs(q, r)' = g.vs[r][k]
  <2>1. PICK k \in Nat : Cut(h, q, r, k) /\ Abs(q, r) = h.vs[r][k]
    BY <1>1, <1>3 DEF VarOK
  <2>2. k \in 0 .. h.len[r] BY <2>1 DEF Cut
  <2>3. g.vs[r][k] = h.vs[r][k] BY <2>2 DEF Extends
  <2> QED BY <1>2, <2>1, <2>3
<1> QED BY <1>3 DEF VarOK

LEMMA PartiesFollow ==
  ASSUME NEW h, NEW g, NEW p, NEW t, NEW op, Context(h, g, p, t, op),
         \A q \in Party : PartyOK(h, q), ThreadOK(g, p, t)',
         \A r \in Var : Touches(op, r) => VarOK(g, p, r)'
  PROVE  \A q \in Party : PartyOK(g, q)'
<1> SUFFICES ASSUME NEW q \in Party PROVE PartyOK(g, q)' OBVIOUS
<1>1. p \in Party /\ t \in Thread BY DEF Context
<1>2. \A r \in Var : VarOK(g, q, r)' BY <1>1, VarsFollow DEF PartyOK
<1>3. \A u \in Thread : ThreadOK(g, q, u)' BY <1>1, OthersFollow DEF PartyOK
<1> QED BY <1>2, <1>3 DEF PartyOK
-----------------------------------------------------------------------------
LEMMA FrameOps ==
  ASSUME IInv, NEW p \in Party, NEW t \in Thread, frame[p][t].step # "Idle"
  PROVE  /\ frame[p][t] \in Frame /\ FrameOK(p, t, frame[p][t])
         /\ frame[p][t].step \in Steps \ {"Idle", "Failed"}
         /\ frame[p][t].op \in Ops[t] /\ frame[p][t].op.kind \in Products
<1>1. frame[p][t] \in Frame /\ FrameOK(p, t, frame[p][t]) BY FrameOf
<1>2. frame[p][t].step \in Steps BY <1>1 DEF Frame
<1>3. frame[p][t].step # "Failed" BY DEF IInv, FrameInv
<1> QED BY <1>1, <1>2, <1>3 DEF FrameOK

LEMMA TakeContext ==
  ASSUME IInv, Exclusive, NEW h, NEW g, NEW p \in Party, NEW t \in Thread,
         NEW op \in Ops[t], TodoOK(h), Taken(h, g, p, t, op), Takes(p, t, op),
         Moves(p, t), Local(p, t),
         \A q \in Party : \A u \in Thread :
           q # p \/ u # t => counter'[q][u] = counter[q][u],
         \A r \in Var : ~Touches(op, r) => Abs(p, r)' = Abs(p, r),
         frame'[p][t].step # "Idle" => frame'[p][t].op = op
  PROVE  Context(h, g, p, t, op)
<1>1. \A r \in Awaits[t] : Ended(p, r) BY DEF Takes
<1>2. frame[p][t].step = "Idle" BY DEF Takes
<1>3. Extends(h, g) BY DEF Taken
<1>4. /\ \A u \in Thread : issued'[u] \in Nat /\ issued[u] <= issued'[u]
      /\ \A q \in Party : \A u \in Thread :
           q # p \/ u # t => Begun(q, u)' = Begun(q, u)
  BY DEF Taken, Begins
<1>5. \A q \in Party : \A r \in Var : \A k \in Nat :
        Cut(h, q, r, k) /\ (q # p \/ ~Touches(op, r)) => Cut(g, q, r, k)'
  BY DEF Taken, CutsMove
<1> QED BY <1>1, <1>2, <1>3, <1>4, <1>5 DEF Context

(* The operations that are begun stay the same in the middle of a product. *)
LEMMA StillThere ==
  ASSUME UNCHANGED <<todo, issued>>, NEW h, History(h), TodoOK(h)
  PROVE  /\ History(h)' /\ TodoOK(h)' /\ Extends(h, h)
         /\ \A q, u : Begun(q, u)' = Begun(q, u)
         /\ \A q, r, k : Cut(h, q, r, k)' <=> Cut(h, q, r, k)
<1>1. \A q, u : Begun(q, u)' = Begun(q, u) BY DEF Begun
<1>2. \A u, m, r : OpAt(h, u, m, r)' <=> OpAt(h, u, m, r) BY DEF OpAt
<1>3. \A q, r, k : Cut(h, q, r, k)' <=> Cut(h, q, r, k)
  BY <1>1, <1>2 DEF Cut
<1>4. History(h)' BY HistoryStays
<1>5. TodoOK(h)' BY <1>1 DEF TodoOK
<1>6. Extends(h, h) BY DEF Extends
<1> QED BY <1>1, <1>3, <1>4, <1>5, <1>6

LEMMA RunContext ==
  ASSUME IInv, Exclusive, NEW h, History(h), TodoOK(h),
         NEW p \in Party, NEW t \in Thread, NEW op,
         frame[p][t].step # "Idle", op = frame[p][t].op,
         UNCHANGED <<todo, issued>>, Moves(p, t), Local(p, t),
         \A q \in Party : \A u \in Thread :
           q # p \/ u # t => counter'[q][u] = counter[q][u],
         \A r \in Var : ~Touches(op, r) => Abs(p, r)' = Abs(p, r),
         frame'[p][t].step # "Idle" => frame'[p][t].op = op
  PROVE  Context(h, h, p, t, op)
<1>1. \A r \in Awaits[t] : Ended(p, r) BY Running
<1>2. op \in Ops[t] BY FrameOps
<1>3. \A u \in Thread : issued'[u] \in Nat /\ issued[u] <= issued'[u]
  BY IssuedNat DEF IInv
<1> QED BY <1>1, <1>2, <1>3, StillThere DEF Context

(* A party has received no more messages than the operations have sent.    *)
LEMMA SentBound ==
  ASSUME TypeOK, NEW h, History(h), TodoOK(h), NEW p \in Party, NEW t \in Thread,
         ThreadOK(h, p, t)
  PROVE  /\ Received(h, p, t) \in Nat /\ Sent(h, p, t) \in Nat
         /\ Sent(h, p, t) <= h.snt[t][issued[t] + 1]
         /\ h.snt[t][issued[t] + 1] \in Nat
<1>1. PICK n \in Nat : n = Begun(p, t) BY BegunNat
<1>2. n <= issued[t] /\ issued[t] \in Nat BY <1>1, BegunNat, IssuedNat
<1>3. PICK f : f = frame[p][t] OBVIOUS
<1>4. PICK z \in Nat : z = h.snt[t][issued[t] + 1] BY DEF History, OpsOK
<1>5. CASE f.step = "Idle"
  <2>1. Received(h, p, t) = h.snt[t][n + 1] /\ Sent(h, p, t) = h.snt[t][n + 1]
    BY <1>1, <1>3, <1>5 DEF Received, ReceivedIn, Sent
  <2>2. CASE n = issued[t] BY <1>4, <2>1, <2>2
  <2>3. CASE n # issued[t]
    <3>1. n + 1 \in 1 .. issued[t] BY <1>2, <2>3
    <3>2. PICK B, op : Sends(h, t, n + 1, op, B) BY <3>1 DEF History, OpsOK, OpOK
    <3>3. /\ h.snt[t][n + 1] \in Nat
          /\ h.snt[t][(n + 1) + 1] = h.snt[t][n + 1] + Number(B, op)
          /\ h.snt[t][(n + 1) + 1] <= z
      BY <1>4, <3>2 DEF Sends
    <3>4. Number(B, op) \in {0, 1, 2} BY NumberNat
    <3> QED BY <1>4, <2>1, <3>3, <3>4
  <2> QED BY <2>2, <2>3
<1>6. CASE f.step # "Idle"
  <2>1. RunOK(h, p, t, n, f) BY <1>1, <1>3, <1>6 DEF ThreadOK
  <2>2. PICK B : B = Before(h, t, n) OBVIOUS
  <2>3. PICK op : op = f.op OBVIOUS
  <2>4. /\ n \in 1 .. issued[t] /\ op = h.ops[t][n] /\ op.kind \in Products
        /\ FrameAt(B, t, f, counter[p][t])
    BY <2>1, <2>2, <2>3 DEF RunOK
  <2>5. /\ h.snt[t][n] \in Nat /\ h.snt[t][n + 1] = h.snt[t][n] + Number(B, op)
        /\ h.snt[t][n + 1] <= z
    BY <1>4, <2>2, <2>4 DEF History, OpsOK, OpOK, Sends
  <2>6. Number(B, op) \in {0, 1, 2} BY NumberNat
  <2>7. CASE f.step \in Looking
    <3>1. Received(h, p, t) = h.snt[t][n] /\ Sent(h, p, t) = h.snt[t][n]
      BY <1>1, <1>3, <1>6, <2>7 DEF Received, ReceivedIn, Sent, Looking
    <3> QED BY <1>4, <2>5, <2>6, <3>1
  <2>8. CASE f.step \notin Looking
    <3>1. PICK b : b = SentBefore(B, op, f.left) OBVIOUS
    <3>2. /\ Received(h, p, t) = h.snt[t][n] + b
          /\ Sent(h, p, t) = IF f.step = "Wait" THEN (h.snt[t][n] + b) + 1
                             ELSE h.snt[t][n] + b
      BY <1>1, <1>3, <1>6, <2>2, <2>3, <2>8, <3>1 DEF Received, ReceivedIn, Sent
    <3>3. /\ f.left \in {Left(B, op), Rest(B, op), {}}
          /\ f.step = "Wait" => f.left # {}
      BY <2>3, <2>4, <2>8 DEF FrameAt
    <3>4. Rest(B, op) \subseteq Left(B, op) BY DEF Rest
    <3>5. b \in 0 .. Number(B, op) /\ (f.step = "Wait" => b + 1 <= Number(B, op))
      BY <2>4, <3>1, <3>3, <3>4 DEF SentBefore, Number
    <3> QED BY <1>4, <2>5, <2>6, <3>2, <3>5
  <2> QED BY <2>7, <2>8
<1> QED BY <1>5, <1>6

LEMMA ChanKept ==
  ASSUME TypeOK, NEW h, NEW g, History(h), TodoOK(h), Extends(h, g), ChanOK(h),
         \A q \in Party : PartyOK(h, q), chan' = chan,
         \A q \in Party : \A u \in Thread :
           Received(g, q, u)' = Received(h, q, u) /\ Sent(g, q, u)' = Sent(h, q, u)
  PROVE  ChanOK(g)'
<1> SUFFICES ASSUME NEW u \in Thread, NEW p \in Party, NEW q \in Party, p # q
             PROVE  /\ Len(chan[u][p][q]) = Sent(h, p, u) - Received(h, q, u)
                    /\ \A i \in 1 .. Len(chan[u][p][q]) :
                         chan[u][p][q][i] = g.msg[u][Received(h, q, u) + i]
  BY DEF ChanOK
<1>1. /\ Len(chan[u][p][q]) = Sent(h, p, u) - Received(h, q, u)
      /\ \A i \in 1 .. Len(chan[u][p][q]) :
           chan[u][p][q][i] = h.msg[u][Received(h, q, u) + i]
  BY DEF ChanOK
<1>2. /\ Received(h, q, u) \in Nat /\ Sent(h, p, u) \in Nat
      /\ Sent(h, p, u) <= h.snt[u][issued[u] + 1]
      /\ h.snt[u][issued[u] + 1] \in Nat
  BY SentBound DEF PartyOK
<1>3. ASSUME NEW i \in 1 .. Len(chan[u][p][q])
      PROVE  g.msg[u][Received(h, q, u) + i] = h.msg[u][Received(h, q, u) + i]
  <2>1. /\ Received(h, q, u) + i \in Nat
        /\ Received(h, q, u) + i <= h.snt[u][issued[u] + 1]
    BY <1>1, <1>2
  <2> QED BY <2>1 DEF Extends
<1> QED BY <1>1, <1>3

(* A step that neither sends nor receives.                                 *)
LEMMA QuietStep ==
  ASSUME NEW h, NEW g, NEW p, NEW t, NEW op, Context(h, g, p, t, op),
         History(h), Follows(h), History(g)', TodoOK(g)', chan' = chan,
         ThreadOK(g, p, t)', \A r \in Var : Touches(op, r) => VarOK(g, p, r)',
         Received(g, p, t)' = Received(h, p, t), Sent(g, p, t)' = Sent(h, p, t)
  PROVE  (\E j : History(j) /\ Follows(j))'
<1>1. TypeOK /\ Extends(h, g) /\ p \in Party /\ t \in Thread
  BY DEF Context, IInv
<1>2. TodoOK(h) /\ (\A q \in Party : PartyOK(h, q)) /\ ChanOK(h) BY DEF Follows
<1>3. \A q \in Party : PartyOK(g, q)' BY <1>2, PartiesFollow
<1>4. \A q \in Party : \A u \in Thread :
        Received(g, q, u)' = Received(h, q, u) /\ Sent(g, q, u)' = Sent(h, q, u)
  <2> SUFFICES ASSUME NEW q \in Party, NEW u \in Thread
               PROVE  /\ Received(g, q, u)' = Received(h, q, u)
                      /\ Sent(g, q, u)' = Sent(h, q, u)
    OBVIOUS
  <2>1. ThreadOK(h, q, u) BY <1>2 DEF PartyOK
  <2> QED BY <2>1, OthersFollow
<1>5. ChanOK(g)' BY <1>1, <1>2, <1>4, ChanKept
<1> QED BY <1>3, <1>5 DEF Follows
-----------------------------------------------------------------------------
(* Thread t of p is in the middle of its n-th operation, from the state S  *)
(* of the history.                                                         *)
Runs(h, p, t, n, op, f, S) ==
  /\ f = frame[p][t] /\ f \in Frame /\ FrameOK(p, t, f)
  /\ f.step \in Steps \ {"Idle", "Failed"}
  /\ n \in Nat /\ n = Begun(p, t) /\ n \in 1 .. issued[t]
  /\ op = f.op /\ op = h.ops[t][n] /\ op \in Ops[t] /\ op.kind \in Products
  /\ S = Before(h, t, n)
  /\ \A r \in Var : Touches(op, r) =>
       Cut(h, p, r, h.at[t][n][r] + 1) /\ Abs(p, r) = Stage(S, t, f, r)
  /\ FrameAt(S, t, f, counter[p][t])
  /\ Makes(h, t, op, S, h.at[t][n])
  /\ h.cnt[t][n + 1] = Count(S, op)
  /\ Sends(h, t, n, op, S)

LEMMA RunsOf ==
  ASSUME IInv, NEW h, History(h), Follows(h), NEW p \in Party, NEW t \in Thread,
         frame[p][t].step # "Idle"
  PROVE  \E n, S : Runs(h, p, t, n, frame[p][t].op, frame[p][t], S)
<1>1. PICK f : f = frame[p][t] OBVIOUS
<1>2. PICK op : op = f.op OBVIOUS
<1>3. PICK n : n = Begun(p, t) OBVIOUS
<1>4. PICK S : S = Before(h, t, n) OBVIOUS
<1>5. TodoOK(h) /\ ThreadOK(h, p, t) BY DEF Follows, PartyOK
<1>6. n \in Nat BY <1>3, <1>5, BegunNat DEF IInv
<1>7. RunOK(h, p, t, n, f) BY <1>1, <1>3, <1>5 DEF ThreadOK
<1>8. /\ n \in 1 .. issued[t] /\ op = h.ops[t][n]
      /\ VarsAt(h, p, t, n, S, f) /\ FrameAt(S, t, f, counter[p][t])
  BY <1>2, <1>4, <1>7 DEF RunOK
<1>9. /\ f \in Frame /\ FrameOK(p, t, f) /\ f.step \in Steps \ {"Idle", "Failed"}
      /\ op \in Ops[t] /\ op.kind \in Products
  BY <1>1, <1>2, FrameOps
<1>10. OpOK(h, t, n) BY <1>8 DEF History, OpsOK
<1>11. /\ Makes(h, t, op, S, h.at[t][n]) /\ Sends(h, t, n, op, S)
       /\ h.cnt[t][n + 1] = Count(S, op)
  BY <1>4, <1>8, <1>9, <1>10 DEF OpOK, CountAfter
<1>12. \A r \in Var : Touches(op, r) =>
         Cut(h, p, r, h.at[t][n][r] + 1) /\ Abs(p, r) = Stage(S, t, f, r)
  BY <1>2, <1>8 DEF VarsAt
<1>13. Runs(h, p, t, n, op, f, S)
  BY <1>1, <1>2, <1>3, <1>4, <1>6, <1>8, <1>9, <1>11, <1>12 DEF Runs
<1> QED BY <1>1, <1>2, <1>13

(* It goes on to the frame e.                                              *)
GoesTo(p, t, op, S, e) ==
  /\ UNCHANGED <<todo, issued>>
  /\ frame'[p][t] = e /\ e.step # "Idle" /\ e.op = op
  /\ \A r \in Var : Touches(op, r) => Abs(p, r)' = Stage(S, t, e, r)
  /\ FrameAt(S, t, e, counter'[p][t])

LEMMA RunsOn ==
  ASSUME IInv, NEW h, History(h), Follows(h),
         NEW p \in Party, NEW t \in Thread, NEW n, NEW op, NEW f, NEW S,
         Runs(h, p, t, n, op, f, S), NEW e, GoesTo(p, t, op, S, e)
  PROVE  /\ ThreadOK(h, p, t)'
         /\ \A r \in Var : Touches(op, r) => VarOK(h, p, r)'
         /\ Received(h, p, t)' = ReceivedIn(h, t, n, e)
<1> USE DEF GoesTo
<1>0. TodoOK(h) BY DEF Follows
<1>1. Begun(p, t)' = n /\ \A q, r, k : Cut(h, q, r, k)' <=> Cut(h, q, r, k)
  BY <1>0, StillThere DEF Runs
<1>2. /\ n \in 1 .. issued'[t] /\ op = h.ops[t][n] /\ op.kind \in Products
      /\ S = Before(h, t, n)
  BY DEF Runs
<1>3. \A r \in Var : Touches(op, r) => Cut(h, p, r, h.at[t][n][r] + 1)'
  BY <1>1 DEF Runs
<1>4. VarsAt(h, p, t, n, S, e)' BY <1>3 DEF VarsAt
<1>5. RunOK(h, p, t, n, e)' BY <1>2, <1>4 DEF RunOK
<1>6. ThreadOK(h, p, t)' BY <1>1, <1>5 DEF ThreadOK
<1>7. \A r \in Var : Touches(op, r) => VarOK(h, p, r)'
  BY DEF VarOK, Busy
<1>8. Received(h, p, t)' = ReceivedIn(h, t, n, e) BY <1>1 DEF Received
<1> QED BY <1>6, <1>7, <1>8

LEMMA UniformAdvance ==
  ASSUME IInv, UniformInv, NEW p \in Party, NEW t \in Thread, NEW e \in Frame,
         Advance(p, t, e), UNCHANGED entries,
         \A s \in Sides : Uniform(p, e.opd[s].open)
  PROVE  UniformInv'
<1>1. /\ frame'[p][t] = e
      /\ \A q \in Party, u \in Thread :
           q # p \/ u # t => frame'[q][u] = frame[q][u]
  BY Advances
<1> SUFFICES ASSUME NEW q \in Party
             PROVE  /\ \A d \in entries[q] : Uniform(q, d.open)
                    /\ \A u \in Thread, s \in Sides : Uniform(q, frame'[q][u].opd[s].open)
  BY DEF UniformInv, Uniform
<1>2. ASSUME NEW u \in Thread, NEW s \in Sides
      PROVE  Uniform(q, frame'[q][u].opd[s].open)
  <2>1. CASE q = p /\ u = t BY <1>1, <2>1
  <2>2. CASE q # p \/ u # t BY <1>1, <2>2 DEF UniformInv
  <2> QED BY <2>1, <2>2
<1> QED BY <1>2 DEF UniformInv

LEMMA GetCacheUniform ==
  ASSUME UniformInv, NEW p \in Party, NEW view, NEW allow
  PROVE  Uniform(p, GetCache(p, view, allow).open)
<1>1. \A e \in entries[p] : Uniform(p, e.open) BY DEF UniformInv
<1>2. Uniform(p, Off.open) /\ Uniform(p, [Off EXCEPT !.on = TRUE].open)
  BY DEF Uniform, Off
<1>3. \A open : Uniform(p, open) => Uniform(p, TransposeOpen(open))
  BY DEF Uniform, TransposeOpen
<1>4. CASE ~IsMarked(p, view) BY <1>2, <1>4 DEF GetCache
<1>5. CASE IsMarked(p, view) /\ Found(p, view, view.trans) # {}
  <2>1. PICK e \in Found(p, view, view.trans) : GetCache(p, view, allow).open = e.open
    BY <1>5 DEF GetCache
  <2> QED BY <1>1, <2>1 DEF Found
<1>6. CASE /\ IsMarked(p, view) /\ Found(p, view, view.trans) = {}
           /\ allow /\ Found(p, view, ~view.trans) # {}
  <2>1. PICK e \in Found(p, view, ~view.trans) :
          GetCache(p, view, allow).open = TransposeOpen(e.open)
    BY <1>6 DEF GetCache
  <2> QED BY <1>1, <1>3, <2>1 DEF Found
<1>7. CASE /\ IsMarked(p, view) /\ Found(p, view, view.trans) = {}
           /\ ~(allow /\ Found(p, view, ~view.trans) # {})
  BY <1>2, <1>7 DEF GetCache
<1> QED BY <1>4, <1>5, <1>6, <1>7

(* A step of a product that changes neither cache nor channel.             *)
LEMMA StillStep ==
  ASSUME IInv, Exclusive, UniformInv, UniqueInv, NEW h, History(h), Follows(h),
         NEW p \in Party, NEW t \in Thread, NEW n, NEW op, NEW f, NEW S,
         Runs(h, p, t, n, op, f, S), NEW e \in Frame, Advance(p, t, e),
         e.step # "Idle" => e.op = op,
         UNCHANGED <<todo, issued, memory, meta, entries, chan>>,
         \A q \in Party : \A u \in Thread :
           q # p \/ u # t => counter'[q][u] = counter[q][u],
         ThreadOK(h, p, t)', \A r \in Var : Touches(op, r) => VarOK(h, p, r)',
         Received(h, p, t)' = Received(h, p, t), Sent(h, p, t)' = Sent(h, p, t),
         \A s \in Sides : Uniform(p, e.opd[s].open)
  PROVE  AgreeInv'
<1>1. op = frame[p][t].op /\ frame[p][t].step # "Idle" BY DEF Runs
<1>2. frame'[p][t] = e BY Advances
<1>3. Moves(p, t) BY <1>1, Advances, Running DEF Moves
<1>4. Local(p, t) BY DEF Local
<1>5. \A r : Abs(p, r)' = Abs(p, r) BY DEF Abs
<1>6. TodoOK(h) BY DEF Follows
<1>7. Context(h, h, p, t, op) BY <1>1, <1>2, <1>3, <1>4, <1>5, <1>6, RunContext
<1>8. History(h)' /\ TodoOK(h)' BY <1>6, StillThere
<1>9. (\E j : History(j) /\ Follows(j))' BY <1>7, <1>8, QuietStep
<1>10. UniformInv' BY UniformAdvance
<1>11. UniqueInv' BY DEF UniqueInv
<1> QED BY <1>9, <1>10, <1>11 DEF AgreeInv

LEMMA ReturnAgrees ==
  ASSUME IInv, Exclusive, AgreeInv, NEW p \in Party, NEW t \in Thread, Return(p, t)
  PROVE  AgreeInv'
<1>1. PICK h : History(h) /\ Follows(h) BY DEF AgreeInv
<1>2. frame[p][t].step = "Done" BY DEF Return
<1>3. PICK f : f = frame[p][t] OBVIOUS
<1>4. PICK op : op = f.op OBVIOUS
<1>5. PICK n, S : Runs(h, p, t, n, op, f, S)
  BY <1>1, <1>2, <1>3, <1>4, RunsOf
<1>6. /\ Advance(p, t, Idle)
      /\ UNCHANGED <<todo, issued, memory, meta, entries, counter, chan>>
  BY DEF Return
<1>7. Idle \in Frame /\ frame'[p][t] = Idle /\ Idle.step = "Idle"
  BY <1>6, IdleFrame, Advances
<1>8. TodoOK(h) BY <1>1 DEF Follows
<1>9. /\ Begun(p, t)' = n /\ \A q, r, k : Cut(h, q, r, k)' <=> Cut(h, q, r, k)
      /\ \A r : Abs(p, r)' = Abs(p, r)
  <2>1. n = Begun(p, t) BY <1>5 DEF Runs
  <2>2. \A r : Abs(p, r)' = Abs(p, r) BY <1>6 DEF Abs
  <2> QED BY <1>1, <1>6, <1>8, <2>1, <2>2, StillThere
<1>10. f.left = {} /\ f.step = "Done" /\ f.op = op /\ op.kind \in Products
  BY <1>2, <1>3, <1>5 DEF Runs, FrameOK
<1>11. counter[p][t] = Count(S, op)
  BY <1>5, <1>10 DEF Runs, FrameAt, Looking
<1>12. ThreadOK(h, p, t)'
  <2>1. h.cnt[t][n + 1] = Count(S, op) BY <1>5 DEF Runs
  <2> QED BY <1>6, <1>7, <1>9, <1>11, <2>1 DEF ThreadOK
<1>13. ASSUME NEW r \in Var, Touches(op, r) PROVE VarOK(h, p, r)'
  <2>1. PICK k : k = h.at[t][n][r] + 1 OBVIOUS
  <2>2. Cut(h, p, r, k) /\ Abs(p, r) = After(S, t, op, r)
    BY <1>5, <1>10, <1>13, <2>1 DEF Runs, Stage
  <2>3. k \in Nat BY <2>2 DEF Cut
  <2>4. h.vs[r][k] = After(S, t, op, r) BY <1>5, <1>13, <2>1 DEF Runs, Makes
  <2>5. Cut(h, p, r, k)' /\ Abs(p, r)' = h.vs[r][k] BY <1>9, <2>2, <2>4
  <2> QED BY <2>3, <2>5 DEF VarOK
<1>14. Received(h, p, t)' = Received(h, p, t) /\ Sent(h, p, t)' = Sent(h, p, t)
  <2>1. Received(h, p, t)' = h.snt[t][n + 1]
    BY <1>7, <1>9 DEF Received, ReceivedIn
  <2>2. Received(h, p, t) = h.snt[t][n] + SentBefore(S, op, {})
    BY <1>3, <1>5, <1>10 DEF Runs, Received, ReceivedIn, Looking
  <2>3. h.snt[t][n + 1] = h.snt[t][n] + Number(S, op) BY <1>5 DEF Runs, Sends
  <2>4. SentBefore(S, op, {}) = Number(S, op) BY DEF SentBefore, Number
  <2>5. Received(h, p, t)' = Received(h, p, t) BY <2>1, <2>2, <2>3, <2>4
  <2> QED BY <1>3, <1>7, <1>10, <2>5 DEF Sent
<1>15. \A s \in Sides : Uniform(p, Idle.opd[s].open) BY DEF Uniform, Idle, Off
<1>16. UniformInv /\ UniqueInv BY DEF AgreeInv
<1>17. \A q \in Party : \A u \in Thread : counter'[q][u] = counter[q][u] BY <1>6
<1> QED BY <1>1, <1>5, <1>6, <1>7, <1>12, <1>13, <1>14, <1>15, <1>16, <1>17, StillStep
-----------------------------------------------------------------------------
LEMMA TouchesSides ==
  ASSUME NEW t \in Thread, NEW op \in Ops[t], op.kind \in Products
  PROVE  /\ op.x.var \in Var /\ op.y.var \in Var
         /\ Touches(op, op.x.var) /\ Touches(op, op.y.var)
         /\ op.x \in View /\ op.y \in View
BY DEF Ops, View, Touches

LEMMA OffOf ==
  ASSUME NEW y \in Lookup, NEW b
  PROVE  Shape([y EXCEPT !.on = b]) = [Shape(y) EXCEPT !.on = b]
<1>1. y = [on |-> y.on, status |-> y.status, mask |-> y.mask, open |-> y.open]
  BY DEF Lookup
<1> QED BY <1>1 DEF Shape

LEMMA LookYAgrees ==
  ASSUME IInv, Exclusive, AgreeInv, NEW p \in Party, NEW t \in Thread, LookY(p, t)
  PROVE  AgreeInv'
<1>1. PICK h : History(h) /\ Follows(h) BY DEF AgreeInv
<1>2. frame[p][t].step = "LookY" BY DEF LookY
<1>3. PICK f : f = frame[p][t] OBVIOUS
<1>4. PICK op : op = f.op OBVIOUS
<1>5. PICK n, S : Runs(h, p, t, n, op, f, S)
  BY <1>1, <1>2, <1>3, <1>4, RunsOf
<1>6. PICK allow : allow = (op.kind = "dot") OBVIOUS
<1>7. PICK x : x = f.opd["x"] OBVIOUS
<1>8. PICK y : y = GetCache(p, op.y, op.kind = "dot") OBVIOUS
<1>9. PICK z : z = IF CachedTwice(op, x) THEN [y EXCEPT !.on = FALSE] ELSE y
  OBVIOUS
<1>10. PICK e : e = [f EXCEPT !.step = "Draw", !.opd["y"] = z] OBVIOUS
<1>11. /\ Advance(p, t, e)
       /\ UNCHANGED <<todo, issued, memory, meta, entries, counter, chan>>
  BY <1>3, <1>4, <1>7, <1>8, <1>9, <1>10 DEF LookY
<1>12. /\ f \in Frame /\ f.step = "LookY" /\ f.op = op /\ op.kind # "square"
       /\ op \in Ops[t] /\ op.kind \in Products
  BY <1>2, <1>3, <1>5 DEF Runs, FrameOK
<1>13. UniformInv /\ UniqueInv /\ TypeOK /\ EntryInv BY DEF AgreeInv, IInv
<1>14. op.y \in View /\ op.y.var \in Var /\ Touches(op, op.y.var)
  BY <1>12, TouchesSides
<1>15. y \in Lookup BY <1>8, <1>13, <1>14, GetCacheFinds
<1>16. z \in Lookup BY <1>9, <1>15 DEF Lookup
<1>17. /\ e \in Frame /\ e.step = "Draw" /\ e.op = op
       /\ e.opd["x"] = x /\ e.opd["y"] = z
  <2>1. f.opd \in [Sides -> Lookup] BY <1>12 DEF Frame
  <2>2. PICK d : d = [f.opd EXCEPT !["y"] = z] OBVIOUS
  <2>3. d \in [Sides -> Lookup] /\ d["x"] = x /\ d["y"] = z
    BY <1>7, <1>16, <2>1, <2>2 DEF Sides
  <2>4. e = [f EXCEPT !.step = "Draw", !.opd = d]
    BY <1>10, <1>12, <2>2 DEF Frame
  <2> QED BY <1>12, <2>3, <2>4 DEF Frame, Steps
<1>18. Shape(x) = LookedX(S, op) /\ counter[p][t] = S.cnt
  BY <1>5, <1>7, <1>12 DEF Runs, FrameAt, Looking
<1>19. Shape(y) = Look(S.var[op.y.var], op.y.trans, op.kind = "dot")
  <2>1. Shape(y) = Look(Abs(p, op.y.var), op.y.trans, op.kind = "dot")
    BY <1>8, <1>13, GetCacheShape
  <2>2. Abs(p, op.y.var) = S.var[op.y.var]
    BY <1>5, <1>12, <1>14 DEF Runs, Stage
  <2> QED BY <2>1, <2>2
<1>20. Shape(z) = LookedY(S, op)
  <2>1. CachedTwice(op, x) <=> CachedTwice(op, LookedX(S, op))
    <3>1. LookedX(S, op).on = x.on /\ LookedX(S, op).status = x.status
      BY <1>18, ShapeFields
    <3> QED BY <3>1 DEF CachedTwice
  <2>2. Shape([y EXCEPT !.on = FALSE]) = [Shape(y) EXCEPT !.on = FALSE]
    BY <1>15, OffOf
  <2>3. CASE CachedTwice(op, x)
    <3>1. z = [y EXCEPT !.on = FALSE] BY <1>9, <2>3
    <3> QED BY <1>12, <1>19, <2>1, <2>2, <2>3, <3>1 DEF LookedY
  <2>4. CASE ~CachedTwice(op, x)
    <3>1. z = y BY <1>9, <2>4
    <3> QED BY <1>12, <1>19, <2>1, <2>4, <3>1 DEF LookedY
  <2> QED BY <2>3, <2>4
<1>21. frame'[p][t] = e BY <1>11, <1>17, Advances
<1>22. FrameAt(S, t, e, counter'[p][t])
  BY <1>11, <1>17, <1>18, <1>20 DEF FrameAt, Looking
<1>23. \A r \in Var : Touches(op, r) => Abs(p, r)' = Stage(S, t, e, r)
  <2>1. \A r : Abs(p, r)' = Abs(p, r) BY <1>11 DEF Abs
  <2> QED BY <1>5, <1>12, <1>17, <2>1 DEF Runs, Stage
<1>24. /\ ThreadOK(h, p, t)'
       /\ \A r \in Var : Touches(op, r) => VarOK(h, p, r)'
       /\ Received(h, p, t)' = ReceivedIn(h, t, n, e)
  <2>1. GoesTo(p, t, op, S, e) BY <1>11, <1>17, <1>21, <1>22, <1>23 DEF GoesTo
  <2> QED BY <1>1, <1>5, <2>1, RunsOn
<1>25. Received(h, p, t)' = Received(h, p, t) /\ Sent(h, p, t)' = Sent(h, p, t)
  <2>1. Received(h, p, t) = ReceivedIn(h, t, n, f)
    BY <1>3, <1>5 DEF Runs, Received
  <2>2. ReceivedIn(h, t, n, e) = ReceivedIn(h, t, n, f)
    BY <1>12, <1>17 DEF ReceivedIn, Looking
  <2> QED BY <1>3, <1>12, <1>17, <1>21, <1>24, <2>1, <2>2 DEF Sent
<1>26. \A s \in Sides : Uniform(p, e.opd[s].open)
  <2>1. Uniform(p, x.open) BY <1>3, <1>7, <1>13 DEF UniformInv, Sides
  <2>2. Uniform(p, y.open) BY <1>8, <1>13, GetCacheUniform
  <2>3. z.open = y.open BY <1>9, <1>15 DEF Lookup
  <2> QED BY <1>17, <2>1, <2>2, <2>3 DEF Sides
<1>27. \A q \in Party : \A u \in Thread : counter'[q][u] = counter[q][u] BY <1>11
<1> QED BY <1>1, <1>5, <1>11, <1>13, <1>17, <1>24, <1>25, <1>26, <1>27, StillStep

LEMMA DrawAgrees ==
  ASSUME IInv, Exclusive, AgreeInv, NEW p \in Party, NEW t \in Thread, DrawMasks(p, t)
  PROVE  AgreeInv'
<1>1. PICK h : History(h) /\ Follows(h) BY DEF AgreeInv
<1>2. frame[p][t].step = "Draw" BY DEF DrawMasks
<1>3. PICK f : f = frame[p][t] OBVIOUS
<1>4. PICK op : op = f.op OBVIOUS
<1>5. PICK n, S : Runs(h, p, t, n, op, f, S)
  BY <1>1, <1>2, <1>3, <1>4, RunsOf
<1>6. PICK c : c = counter[p][t] OBVIOUS
<1>7. PICK d : d = Drawn(op.kind, f.opd["x"], c) OBVIOUS
<1>8. PICK masked : masked =
        [s \in Sides |-> IF s \notin Operands(op) THEN Off
                         ELSE Draw(t, op.kind, f.opd[s], IF s = "x" THEN c ELSE d)]
  OBVIOUS
<1>9. PICK k : k = IF op.kind = "square" THEN d ELSE Drawn(op.kind, f.opd["y"], d)
  OBVIOUS
<1>10. PICK left : left = {s \in Operands(op) : ~IsHit(f.opd[s])} OBVIOUS
<1>11. PICK e : e = [f EXCEPT !.step = "Open", !.opd = masked, !.left = left]
  OBVIOUS
<1>12. /\ counter' = [counter EXCEPT ![p][t] = k + 1] /\ Advance(p, t, e)
       /\ UNCHANGED <<todo, issued, memory, meta, entries, chan>>
  BY <1>3, <1>4, <1>6, <1>7, <1>8, <1>9, <1>10, <1>11 DEF DrawMasks, Beaver
<1>13. /\ f \in Frame /\ f.step = "Draw" /\ f.op = op
       /\ op \in Ops[t] /\ op.kind \in Products
       /\ \A s \in Operands(op) :
            LookedUp(p, op.kind, OperandView(op, s), f.opd[s])
  BY <1>2, <1>3, <1>5 DEF Runs, FrameOK
<1>14. /\ \A s \in Sides : f.opd[s] \in Lookup
       /\ Operands(op) \subseteq Sides /\ "x" \in Operands(op)
       /\ "x" \in Sides /\ "y" \in Sides
       /\ "y" \in Operands(op) <=> op.kind # "square"
  BY <1>13 DEF Frame, Operands, Sides
<1>15. /\ c = S.cnt /\ Shape(f.opd["x"]) = LookedX(S, op)
       /\ Shape(f.opd["y"]) = LookedY(S, op)
       /\ \A s \in Sides : Shape(f.opd[s]) = Looked(S, op, s)
  BY <1>5, <1>6, <1>13 DEF Runs, FrameAt, Looking, Looked, Sides
<1>16. d = CountX(S, op)
  BY <1>7, <1>14, <1>15, DrawShape DEF CountX
<1>17. k + 1 = Count(S, op)
  <2>1. op.kind # "square" => k = Drawn(op.kind, LookedY(S, op), d)
    BY <1>9, <1>14, <1>15, DrawShape
  <2> QED BY <1>9, <1>16, <2>1 DEF Count
<1>18. /\ counter'[p][t] = Count(S, op)
       /\ \A q \in Party : \A u \in Thread :
            q # p \/ u # t => counter'[q][u] = counter[q][u]
  BY <1>12, <1>17 DEF IInv, TypeOK
<1>19. \A s \in Sides : Shape(masked[s]) = Masks(S, t, op, s)
  <2> SUFFICES ASSUME NEW s \in Sides PROVE Shape(masked[s]) = Masks(S, t, op, s)
    OBVIOUS
  <2>1. CASE s \notin Operands(op) BY <1>8, <2>1 DEF Masks
  <2>2. CASE s \in Operands(op)
    <3>1. PICK m : m = IF s = "x" THEN S.cnt ELSE CountX(S, op) OBVIOUS
    <3>2. masked[s] = Draw(t, op.kind, f.opd[s], m) BY <1>8, <1>15, <1>16, <2>2, <3>1
    <3>3. Shape(masked[s]) = Draw(t, op.kind, Looked(S, op, s), m)
      BY <1>14, <1>15, <3>2, DrawShape
    <3> QED BY <2>2, <3>1, <3>3 DEF Masks
  <2> QED BY <2>1, <2>2
<1>20. left = Left(S, op)
  <2>1. \A s \in Operands(op) : IsHit(f.opd[s]) <=> IsHit(Looked(S, op, s))
    BY <1>14, <1>15, ShapeFields
  <2> QED BY <1>10, <2>1 DEF Left
<1>21. \A s \in Sides : masked[s] \in Lookup
                        /\ (masked[s].open = f.opd[s].open \/ masked[s] = Off)
  <2> SUFFICES ASSUME NEW s \in Sides
               PROVE  masked[s] \in Lookup
                      /\ (masked[s].open = f.opd[s].open \/ masked[s] = Off)
    OBVIOUS
  <2>1. CASE s \notin Operands(op) BY <1>8, <2>1, OffType
  <2>2. CASE s \in Operands(op)
    <3>1. PICK o : o = f.opd[s] OBVIOUS
    <3>2. PICK j : j = IF s = "x" THEN c ELSE d OBVIOUS
    <3>3. masked[s] = Draw(t, op.kind, o, j) BY <1>8, <2>2, <3>1, <3>2
    <3>4. o \in Lookup BY <1>14, <3>1
    <3>5. PICK m : masked[s] = [o EXCEPT !.mask = m] BY <3>3 DEF Draw
    <3>6. masked[s].open = o.open BY <3>4, <3>5 DEF Lookup
    <3>7. c \in Nat BY <1>6 DEF IInv, TypeOK
    <3>8. d \in Nat BY <1>7, <3>7 DEF Drawn
    <3>9. PICK view : view = OperandView(op, s) OBVIOUS
    <3>10. PICK kind \in Products : kind = op.kind BY <1>13
    <3>11. LookedUp(p, kind, view, o) BY <1>13, <2>2, <3>1, <3>9, <3>10
    <3>12. Pending(p, view, o)
      BY <1>2, <1>3, <1>4, <1>5, <2>2, <3>1, <3>9 DEF Runs, FrameOK
    <3>13. masked[s] = Draw(t, kind, o, j) BY <3>3, <3>10
    <3>14. j \in Nat BY <3>2, <3>7, <3>8
    <3>15. DrawnFor(p, kind, view, o, j, masked[s])
      BY <3>4, <3>11, <3>12, <3>13, <3>14, DrawOwn
    <3> QED BY <3>1, <3>6, <3>15 DEF DrawnFor
  <2> QED BY <2>1, <2>2
<1>22. e \in Frame /\ e.step = "Open" /\ e.op = op /\ e.left = left /\ e.opd = masked
  <2>1. masked \in [Sides -> Lookup] BY <1>8, <1>21
  <2>2. left \subseteq Sides BY <1>10, <1>14
  <2> QED BY <1>11, <1>13, <2>1, <2>2 DEF Frame, Steps
<1>23. frame'[p][t] = e BY <1>12, <1>22, Advances
<1>24. FrameAt(S, t, e, counter'[p][t])
  BY <1>18, <1>19, <1>20, <1>22 DEF FrameAt, Looking
<1>25. \A r \in Var : Touches(op, r) => Abs(p, r)' = Stage(S, t, e, r)
  <2>1. \A r : Abs(p, r)' = Abs(p, r) BY <1>12 DEF Abs
  <2> QED BY <1>5, <1>13, <1>22, <2>1 DEF Runs, Stage
<1>26. /\ ThreadOK(h, p, t)'
       /\ \A r \in Var : Touches(op, r) => VarOK(h, p, r)'
       /\ Received(h, p, t)' = ReceivedIn(h, t, n, e)
  <2>1. GoesTo(p, t, op, S, e) BY <1>12, <1>22, <1>23, <1>24, <1>25 DEF GoesTo
  <2> QED BY <1>1, <1>5, <2>1, RunsOn
<1>27. Received(h, p, t)' = Received(h, p, t) /\ Sent(h, p, t)' = Sent(h, p, t)
  <2>1. Received(h, p, t) = h.snt[t][n]
    BY <1>3, <1>5, <1>13 DEF Runs, Received, ReceivedIn, Looking
  <2>2. h.snt[t][n] \in Nat BY <1>5 DEF Runs, Sends
  <2>3. S = Before(h, t, n) BY <1>5 DEF Runs
  <2>4. ReceivedIn(h, t, n, e) = h.snt[t][n] + SentBefore(S, op, left)
    BY <1>22, <2>3 DEF ReceivedIn, Looking
  <2>5. SentBefore(S, op, left) = 0 BY <1>20 DEF SentBefore
  <2>6. Received(h, p, t)' = Received(h, p, t) BY <1>26, <2>1, <2>2, <2>4, <2>5
  <2> QED BY <1>3, <1>13, <1>22, <1>23, <2>6 DEF Sent
<1>28. UniformInv /\ UniqueInv BY DEF AgreeInv
<1>29. \A s \in Sides : Uniform(p, e.opd[s].open)
  <2>1. \A s \in Sides : Uniform(p, f.opd[s].open) BY <1>3, <1>28 DEF UniformInv
  <2>2. Uniform(p, Off.open) BY DEF Uniform, Off
  <2> QED BY <1>21, <1>22, <2>1, <2>2
<1> QED BY <1>1, <1>5, <1>12, <1>18, <1>22, <1>26, <1>27, <1>28, <1>29, StillStep
-----------------------------------------------------------------------------
(* A party sends what the history says the thread's next message is.       *)
IsShape(o) == \E on, status, mask : o = [on |-> on, status |-> status, mask |-> mask]

LEMMA LookShape == \A a, b, allow : IsShape(Look(a, b, allow))
<1> SUFFICES ASSUME NEW a, NEW b, NEW allow PROVE IsShape(Look(a, b, allow))
  OBVIOUS
<1>1. CASE ~a.marked BY <1>1 DEF Look, IsShape, Shape
<1>2. CASE a.marked /\ KeptFor(a, b) # {} BY <1>2 DEF Look, IsShape
<1>3. CASE /\ a.marked /\ KeptFor(a, b) = {} /\ allow /\ KeptFor(a, ~b) # {}
  BY <1>3 DEF Look, IsShape
<1>4. CASE /\ a.marked /\ KeptFor(a, b) = {} /\ ~(allow /\ KeptFor(a, ~b) # {})
  BY <1>4 DEF Look, IsShape
<1> QED BY <1>1, <1>2, <1>3, <1>4

LEMMA LookedShape == \A S, op, s : IsShape(Looked(S, op, s))
<1> SUFFICES ASSUME NEW S, NEW op, NEW s PROVE IsShape(Looked(S, op, s))
  OBVIOUS
<1>1. IsShape(LookedX(S, op)) BY LookShape DEF LookedX
<1>2. IsShape(LookedY(S, op))
  <2>1. PICK y : y = Look(S.var[op.y.var], op.y.trans, op.kind = "dot") OBVIOUS
  <2>0. IsShape(y) BY <2>1, LookShape
  <2>2. PICK on, status, mask : y = [on |-> on, status |-> status, mask |-> mask]
    BY <2>0 DEF IsShape
  <2>3. PICK b : b = FALSE OBVIOUS
  <2>4. [y EXCEPT !.on = b] = [on |-> b, status |-> status, mask |-> mask] BY <2>2
  <2>5. IsShape([y EXCEPT !.on = b]) BY <2>4 DEF IsShape
  <2>6. IsShape(Shape(Off)) BY DEF IsShape, Shape
  <2>7. LookedY(S, op) \in {Shape(Off), [y EXCEPT !.on = FALSE], y}
    BY <2>1 DEF LookedY
  <2> QED BY <2>0, <2>3, <2>5, <2>6, <2>7
<1> QED BY <1>1, <1>2 DEF Looked

LEMMA LookedHit ==
  ASSUME NEW S, NEW t, NEW op, NEW s \in Sides
  PROVE  /\ IsHit(Masks(S, t, op, s)) <=> IsHit(Looked(S, op, s))
         /\ s \notin Operands(op) => ~IsHit(Looked(S, op, s))
<1>1. CASE s \notin Operands(op)
  <2>1. op.kind = "square" /\ s = "y" BY <1>1 DEF Operands, Sides
  <2>2. Looked(S, op, s) = Shape(Off) /\ Masks(S, t, op, s) = Shape(Off)
    BY <1>1, <2>1 DEF Looked, LookedY, Masks
  <2> QED BY <2>2, OffShape DEF IsHit
<1>2. CASE s \in Operands(op)
  <2>1. PICK o : o = Looked(S, op, s) OBVIOUS
  <2>2. PICK on, status, mask : o = [on |-> on, status |-> status, mask |-> mask]
    BY <2>1, LookedShape DEF IsShape
  <2>3. PICK c : Masks(S, t, op, s) = Draw(t, op.kind, o, c)
    BY <1>2, <2>1 DEF Masks
  <2>4. PICK m : Draw(t, op.kind, o, c) = [o EXCEPT !.mask = m] BY DEF Draw
  <2>5. Masks(S, t, op, s).status = o.status BY <2>2, <2>3, <2>4
  <2> QED BY <1>2, <2>1, <2>5 DEF IsHit
<1> QED BY <1>1, <1>2

LEMMA FirstOf ==
  ASSUME NEW S, NEW op
  PROVE  /\ First(S, op) \subseteq Left(S, op)
         /\ Left(S, op) # {} => First(S, op) # {}
         /\ Rest(S, op) = Left(S, op) \ First(S, op)
         /\ Rest(S, op) # {} => First(S, op) = {"x"} /\ "x" \notin Rest(S, op)
BY DEF First, Rest

(* The next message, as far as the operands are concerned: sides of those  *)
(* that are left, before those of rest.                                    *)
NextOpens(S, op, left, sides, rest) ==
  /\ rest \in {Rest(S, op), {}}
  /\ SentBefore(S, op, left) \in {0, 1}
  /\ SentBefore(S, op, rest) = SentBefore(S, op, left) + 1
  /\ SentBefore(S, op, left) = 0 => Number(S, op) >= 1 /\ sides = First(S, op)
  /\ SentBefore(S, op, left) = 1 => Number(S, op) = 2 /\ sides = Rest(S, op)

LEMMA NextOpenings ==
  ASSUME NEW S, NEW t, NEW op, op.kind \in Products, NEW f, f.op = op,
         \A s \in Sides : Shape(f.opd[s]) = Masks(S, t, op, s),
         f.left \in {Left(S, op), Rest(S, op), {}}, f.left # {}
  PROVE  NextOpens(S, op, f.left, Openings(f), f.left \ Openings(f))
<1>1. \A s \in Sides : IsHit(f.opd[s]) <=> IsHit(Looked(S, op, s))
  BY ShapeFields, LookedHit
<1>2. PICK sides : sides = Openings(f) OBVIOUS
<1>3. PICK rest : rest = f.left \ sides OBVIOUS
<1>4. PICK left : left = f.left OBVIOUS
<1>5. CASE left = Left(S, op)
  <2>1. sides = First(S, op) BY <1>1, <1>2, <1>4, <1>5 DEF Openings, First
  <2>2. SentBefore(S, op, left) = 0 BY <1>5 DEF SentBefore
  <2>3. rest = Rest(S, op) BY <1>3, <1>4, <1>5, <2>1 DEF Rest
  <2>4. rest # left BY <1>3, <1>4, <1>5, <2>1, FirstOf
  <2>5. SentBefore(S, op, rest) = 1
    BY <1>4, <1>5, <2>3, <2>4 DEF SentBefore, Number
  <2>6. Number(S, op) >= 1 BY <1>4, <1>5 DEF Number
  <2>7. NextOpens(S, op, left, sides, rest)
    BY <2>1, <2>2, <2>3, <2>5, <2>6 DEF NextOpens
  <2> QED BY <1>2, <1>3, <1>4, <2>7
<1>6. CASE left # Left(S, op)
  <2>1. left = Rest(S, op) /\ left # {} BY <1>4, <1>6
  <2>2. Left(S, op) # {} BY <2>1, FirstOf
  <2>3. "x" \notin left BY <2>1, FirstOf
  <2>4. sides = left BY <1>2, <1>4, <2>3 DEF Openings
  <2>5. SentBefore(S, op, left) = 1 BY <1>6, <2>1 DEF SentBefore
  <2>6. Number(S, op) = 2 BY <2>1, <2>2 DEF Number
  <2>7. rest = {} BY <1>3, <1>4, <2>4
  <2>8. SentBefore(S, op, rest) = 2 BY <2>2, <2>6, <2>7 DEF SentBefore
  <2>9. NextOpens(S, op, left, sides, rest)
    BY <2>1, <2>4, <2>5, <2>6, <2>7, <2>8 DEF NextOpens
  <2> QED BY <1>2, <1>3, <1>4, <2>9
<1> QED BY <1>5, <1>6

SendsNext(h, p, t, n, op, f, S) ==
  /\ Contribution(p, f) = h.msg[t][Received(h, p, t) + 1]
  /\ f.left \ Openings(f) \in {Rest(S, op), {}}
  /\ Received(h, p, t) \in Nat
  /\ Received(h, p, t) = h.snt[t][n] + SentBefore(S, op, f.left)
  /\ h.snt[t][n] + SentBefore(S, op, f.left \ Openings(f)) = Received(h, p, t) + 1

LEMMA OwnMessage ==
  ASSUME IInv, NEW h, NEW p \in Party, NEW t \in Thread, NEW n, NEW op, NEW f, NEW S,
         Runs(h, p, t, n, op, f, S), f.step \in {"Open", "Wait"}, f.left # {}
  PROVE  SendsNext(h, p, t, n, op, f, S)
<1>1. /\ op.kind \in Products /\ f.op = op /\ op \in Ops[t]
      /\ \A s \in Sides : Shape(f.opd[s]) = Masks(S, t, op, s)
      /\ f.left \in {Left(S, op), Rest(S, op), {}}
  BY DEF Runs, FrameAt, Looking
<1>2. PICK b : b = SentBefore(S, op, f.left) OBVIOUS
<1>3. PICK z : z = h.snt[t][n] OBVIOUS
<1>0. NextOpens(S, op, f.left, Openings(f), f.left \ Openings(f))
  BY <1>1, NextOpenings
<1>4. z \in Nat /\ b \in {0, 1}
  BY <1>0, <1>2, <1>3 DEF Runs, Sends, NextOpens
<1>5. Received(h, p, t) = z + b
  BY <1>1, <1>2, <1>3 DEF Received, ReceivedIn, Looking, Runs
<1>6. h.msg[t][(z + b) + 1] = Opened(S, t, op, Openings(f))
  <2>1. CASE b = 0
    <3>1. Number(S, op) >= 1 /\ Openings(f) = First(S, op)
      BY <1>0, <1>2, <2>1 DEF NextOpens
    <3>2. h.msg[t][z + 1] = Opened(S, t, op, First(S, op))
      BY <1>3, <3>1 DEF Runs, Sends
    <3>3. (z + b) + 1 = z + 1 BY <1>4, <2>1
    <3> QED BY <3>1, <3>2, <3>3
  <2>2. CASE b = 1
    <3>1. Number(S, op) = 2 /\ Openings(f) = Rest(S, op)
      BY <1>0, <1>2, <2>2 DEF NextOpens
    <3>2. h.msg[t][z + 2] = Opened(S, t, op, Rest(S, op))
      BY <1>3, <3>1 DEF Runs, Sends
    <3>3. (z + b) + 1 = z + 2 BY <1>4, <2>2
    <3> QED BY <3>1, <3>2, <3>3
  <2> QED BY <1>4, <2>1, <2>2
<1>7. Contribution(p, f) = Opened(S, t, op, Openings(f))
  <2>1. ASSUME NEW s \in Sides
        PROVE  /\ f.opd[s].mask = Masks(S, t, op, s).mask
               /\ ValueOf(p, OperandView(op, s)) =
                    [var |-> OperandView(op, s).var,
                     gen |-> S.var[OperandView(op, s).var].gen,
                     trans |-> OperandView(op, s).trans]
    <3>1. f.opd[s].mask = Masks(S, t, op, s).mask BY <1>1, ShapeFields
    <3>2. PICK r \in Var : r = OperandView(op, s).var /\ Touches(op, r)
      BY <1>1, TouchesSides DEF OperandView
    <3>3. Abs(p, r) = S.var[r] BY <3>2 DEF Runs, Stage
    <3>4. Abs(p, r).gen = memory[p][r].gen BY DEF Abs
    <3> QED BY <3>1, <3>2, <3>3, <3>4 DEF ValueOf
  <2> QED BY <1>1, <2>1 DEF Contribution, Opened
<1>8. z + SentBefore(S, op, f.left \ Openings(f)) = (z + b) + 1
  BY <1>0, <1>2, <1>4 DEF NextOpens
<1>9. f.left \ Openings(f) \in {Rest(S, op), {}} BY <1>0 DEF NextOpens
<1> QED BY <1>2, <1>3, <1>4, <1>5, <1>6, <1>7, <1>8, <1>9 DEF SendsNext

(* A step of a product that sends or receives.                             *)
LEMMA TalkStep ==
  ASSUME IInv, Exclusive, NEW h, History(h), Follows(h),
         NEW p \in Party, NEW t \in Thread, NEW n, NEW op, NEW f, NEW S,
         Runs(h, p, t, n, op, f, S), NEW e \in Frame, Advance(p, t, e), e.op = op,
         UNCHANGED <<todo, issued, memory, meta, entries, counter>>,
         ThreadOK(h, p, t)', \A r \in Var : Touches(op, r) => VarOK(h, p, r)'
  PROVE  /\ History(h)' /\ TodoOK(h)' /\ \A q \in Party : PartyOK(h, q)'
         /\ \A q \in Party : \A u \in Thread : q # p \/ u # t =>
              /\ Received(h, q, u)' = Received(h, q, u)
              /\ Sent(h, q, u)' = Sent(h, q, u)
<1>1. op = frame[p][t].op /\ frame[p][t].step # "Idle" BY DEF Runs
<1>2. frame'[p][t] = e BY Advances
<1>3. Moves(p, t) BY <1>1, Advances, Running DEF Moves
<1>4. Local(p, t) BY DEF Local
<1>5. \A r : Abs(p, r)' = Abs(p, r) BY DEF Abs
<1>6. TodoOK(h) /\ \A q \in Party : PartyOK(h, q) BY DEF Follows
<1>7. Context(h, h, p, t, op) BY <1>1, <1>2, <1>3, <1>4, <1>5, <1>6, RunContext
<1>8. History(h)' /\ TodoOK(h)' BY <1>6, StillThere
<1>9. \A q \in Party : PartyOK(h, q)' BY <1>6, <1>7, PartiesFollow
<1>10. ASSUME NEW q \in Party, NEW u \in Thread, q # p \/ u # t
       PROVE  /\ Received(h, q, u)' = Received(h, q, u)
              /\ Sent(h, q, u)' = Sent(h, q, u)
  <2>1. ThreadOK(h, q, u) BY <1>6 DEF PartyOK
  <2> QED BY <1>7, <1>10, <2>1, OthersFollow
<1> QED BY <1>8, <1>9, <1>10
-----------------------------------------------------------------------------
LEMMA SendAgrees ==
  ASSUME IInv, Exclusive, AgreeInv, NEW p \in Party, NEW t \in Thread, SendShares(p, t)
  PROVE  AgreeInv'
<1>1. PICK h : History(h) /\ Follows(h) BY DEF AgreeInv
<1>2. PICK f : f = frame[p][t] OBVIOUS
<1>3. f.step = "Open" /\ f.left # {} BY <1>2 DEF SendShares
<1>4. PICK op : op = f.op OBVIOUS
<1>5. PICK n, S : Runs(h, p, t, n, op, f, S)
  BY <1>1, <1>2, <1>3, <1>4, RunsOf
<1>6. PICK e : e = [f EXCEPT !.step = "Wait"] OBVIOUS
<1>7. PICK m : m = Contribution(p, f) OBVIOUS
<1>8. /\ Advance(p, t, e)
      /\ UNCHANGED <<todo, issued, memory, meta, entries, counter>>
      /\ chan' = [chan EXCEPT ![t][p] =
                   [q \in Party |-> IF q = p THEN @[q] ELSE Append(@[q], m)]]
  BY <1>2, <1>6, <1>7 DEF SendShares
<1>9. f \in Frame /\ f.op = op BY <1>5 DEF Runs
<1>10. /\ e \in Frame /\ e.step = "Wait" /\ e.op = op /\ e.left = f.left
       /\ e.opd = f.opd
  BY <1>6, <1>9 DEF Frame, Steps
<1>11. frame'[p][t] = e BY <1>8, <1>10, Advances
<1>12. FrameAt(S, t, e, counter'[p][t])
  BY <1>3, <1>5, <1>8, <1>9, <1>10 DEF Runs, FrameAt, Looking
<1>13. \A r \in Var : Touches(op, r) => Abs(p, r)' = Stage(S, t, e, r)
  <2>1. \A r : Abs(p, r)' = Abs(p, r) BY <1>8 DEF Abs
  <2> QED BY <1>3, <1>5, <1>10, <2>1 DEF Runs, Stage
<1>14. GoesTo(p, t, op, S, e) BY <1>8, <1>10, <1>11, <1>12, <1>13 DEF GoesTo
<1>15. /\ ThreadOK(h, p, t)'
       /\ \A r \in Var : Touches(op, r) => VarOK(h, p, r)'
       /\ Received(h, p, t)' = ReceivedIn(h, t, n, e)
  BY <1>1, <1>5, <1>14, RunsOn
<1>16. /\ m = h.msg[t][Received(h, p, t) + 1] /\ Received(h, p, t) \in Nat
  <2>1. f.step \in {"Open", "Wait"} BY <1>3
  <2>2. f.left # {} BY <1>3
  <2>3. SendsNext(h, p, t, n, op, f, S) BY <1>5, <2>1, <2>2, OwnMessage
  <2> QED BY <1>7, <2>3 DEF SendsNext
<1>17. /\ Received(h, p, t)' = Received(h, p, t)
       /\ Sent(h, p, t) = Received(h, p, t)
       /\ Sent(h, p, t)' = Received(h, p, t) + 1
  <2>1. Received(h, p, t) = ReceivedIn(h, t, n, f)
    BY <1>2, <1>5 DEF Runs, Received
  <2>2. ReceivedIn(h, t, n, e) = ReceivedIn(h, t, n, f)
    BY <1>3, <1>9, <1>10 DEF ReceivedIn, Looking
  <2> QED BY <1>2, <1>3, <1>10, <1>11, <1>15, <2>1, <2>2 DEF Sent
<1>18. /\ History(h)' /\ TodoOK(h)' /\ \A q \in Party : PartyOK(h, q)'
       /\ \A q \in Party : \A u \in Thread : q # p \/ u # t =>
            /\ Received(h, q, u)' = Received(h, q, u)
            /\ Sent(h, q, u)' = Sent(h, q, u)
  BY <1>1, <1>5, <1>8, <1>10, <1>15, TalkStep
<1>19. ChanOK(h)'
  <2> SUFFICES ASSUME NEW u \in Thread, NEW a \in Party, NEW b \in Party, a # b
               PROVE  /\ Len(chan'[u][a][b]) = Sent(h, a, u)' - Received(h, b, u)'
                      /\ \A i \in 1 .. Len(chan'[u][a][b]) :
                           chan'[u][a][b][i] = h.msg[u][Received(h, b, u)' + i]
    BY DEF ChanOK
  <2>1. /\ Len(chan[u][a][b]) = Sent(h, a, u) - Received(h, b, u)
        /\ \A i \in 1 .. Len(chan[u][a][b]) :
             chan[u][a][b][i] = h.msg[u][Received(h, b, u) + i]
    BY <1>1 DEF Follows, ChanOK
  <2>2. Received(h, b, u)' = Received(h, b, u) BY <1>17, <1>18
  <2>3. CASE u # t \/ a # p
    <3>1. chan'[u][a][b] = chan[u][a][b] BY <1>8, <2>3 DEF IInv, TypeOK
    <3>2. Sent(h, a, u)' = Sent(h, a, u) BY <1>18, <2>3
    <3> QED BY <2>1, <2>2, <3>1, <3>2
  <2>4. CASE u = t /\ a = p
    <3>0. chan[t][p][b] \in Seq(Message) BY DEF IInv, TypeOK
    <3>1. PICK c \in Seq(Message) : c = chan[t][p][b] BY <3>0
    <3>2. chan'[t][p][b] = Append(c, m) BY <1>8, <2>4, <3>1 DEF IInv, TypeOK
    <3>3. PICK k : k = Received(h, b, t) OBVIOUS
    <3>4. k \in Nat
      <4>1. ThreadOK(h, b, t) /\ TodoOK(h) BY <1>1 DEF Follows, PartyOK
      <4> QED BY <1>1, <3>3, <4>1, SentBound DEF IInv
    <3>5. Len(c) = Received(h, p, t) - k BY <1>17, <2>1, <2>4, <3>1, <3>3
    <3>6. Len(chan'[t][p][b]) = Sent(h, p, t)' - k
      BY <1>16, <1>17, <3>1, <3>2, <3>4, <3>5
    <3>7. ASSUME NEW i \in 1 .. Len(chan'[t][p][b])
          PROVE  chan'[t][p][b][i] = h.msg[t][k + i]
      <4>1. CASE i \in 1 .. Len(c)
        <5>1. chan'[t][p][b][i] = c[i] BY <3>1, <3>2, <4>1
        <5> QED BY <2>1, <2>4, <3>1, <3>3, <4>1, <5>1
      <4>2. CASE i \notin 1 .. Len(c)
        <5>1. i = Len(c) + 1 BY <3>1, <3>2, <3>7, <4>2
        <5>2. chan'[t][p][b][i] = m BY <3>1, <3>2, <5>1
        <5>3. k + i = Received(h, p, t) + 1 BY <1>16, <3>4, <3>5, <5>1
        <5> QED BY <1>16, <5>2, <5>3
      <4> QED BY <4>1, <4>2
    <3> QED BY <2>2, <2>4, <3>3, <3>6, <3>7
  <2> QED BY <2>3, <2>4
<1>20. UniformInv /\ UniqueInv BY DEF AgreeInv
<1>21. UniformInv'
  <2>1. \A s \in Sides : Uniform(p, e.opd[s].open)
    BY <1>2, <1>10, <1>20 DEF UniformInv
  <2> QED BY <1>8, <1>10, <1>20, <2>1, UniformAdvance
<1>22. UniqueInv' BY <1>8, <1>20 DEF UniqueInv
<1>23. Follows(h)' BY <1>18, <1>19 DEF Follows
<1> QED BY <1>18, <1>21, <1>22, <1>23 DEF AgreeInv

LEMMA AddAgrees ==
  ASSUME IInv, Exclusive, AgreeInv, NEW p \in Party, NEW t \in Thread, AddShares(p, t)
  PROVE  AgreeInv'
<1>1. PICK h : History(h) /\ Follows(h) BY DEF AgreeInv
<1>2. PICK f : f = frame[p][t] OBVIOUS
<1>3. f.step = "Wait" BY <1>2 DEF AddShares
<1>4. PICK op : op = f.op OBVIOUS
<1>5. PICK n, S : Runs(h, p, t, n, op, f, S)
  BY <1>1, <1>2, <1>3, <1>4, RunsOf
<1>6. f \in Frame /\ f.op = op /\ FrameOK(p, t, f) BY <1>5 DEF Runs
<1>7. f.left # {} /\ f.left \subseteq Sides
  <2>1. f.left # {} BY <1>3, <1>5 DEF Runs, FrameAt, Looking
  <2> QED BY <1>6, <2>1 DEF Frame
<1>8. PICK mine : mine = Contribution(p, f) OBVIOUS
<1>9. /\ mine = h.msg[t][Received(h, p, t) + 1] /\ Received(h, p, t) \in Nat
      /\ f.left \ Openings(f) \in {Rest(S, op), {}}
      /\ h.snt[t][n] + SentBefore(S, op, f.left \ Openings(f)) =
           Received(h, p, t) + 1
  <2>1. f.step \in {"Open", "Wait"} BY <1>3
  <2>2. f.left # {} BY <1>7
  <2>3. SendsNext(h, p, t, n, op, f, S) BY <1>5, <2>1, <2>2, OwnMessage
  <2> QED BY <1>8, <2>3 DEF SendsNext
<1>10. \A q \in Party \ {p} : chan[t][q][p] # <<>> BY DEF AddShares
<1>11. \A q \in Party \ {p} : Head(chan[t][q][p]) = mine
  <2> SUFFICES ASSUME NEW q \in Party \ {p} PROVE Head(chan[t][q][p]) = mine
    OBVIOUS
  <2>1. chan[t][q][p] \in Seq(Message) BY DEF IInv, TypeOK
  <2>2. 1 \in 1 .. Len(chan[t][q][p]) /\ Head(chan[t][q][p]) = chan[t][q][p][1]
    BY <1>10, <2>1
  <2>3. chan[t][q][p][1] = h.msg[t][Received(h, p, t) + 1]
    BY <1>1, <2>2 DEF Follows, ChanOK
  <2> QED BY <1>9, <2>2, <2>3
<1>12. PICK sum : sum = [s \in Sides |-> [q \in Party |-> mine[s]]] OBVIOUS
<1>13. PICK opd : opd = [s \in Sides |->
                          IF s \in Openings(f)
                          THEN [f.opd[s] EXCEPT !.open = sum[s]]
                          ELSE f.opd[s]]
  OBVIOUS
<1>14. PICK left : left = f.left \ Openings(f) OBVIOUS
<1>15. PICK e : e = [f EXCEPT !.step = "Open", !.left = left, !.opd = opd]
  OBVIOUS
<1>16. /\ Advance(p, t, e)
       /\ UNCHANGED <<todo, issued, memory, meta, entries, counter>>
       /\ chan' = [chan EXCEPT ![t] =
                    [q \in Party |-> IF q = p THEN chan[t][q]
                                     ELSE [chan[t][q] EXCEPT ![p] = Tail(@)]]]
  <2>1. \A s \in Sides :
          sum[s] =
            [q \in Party |->
              IF SameSides(IF q = p THEN mine ELSE Head(chan[t][q][p]), mine)
              THEN (IF q = p THEN mine ELSE Head(chan[t][q][p]))[s] ELSE None]
    <3>1. \A q \in Party : (IF q = p THEN mine ELSE Head(chan[t][q][p])) = mine
      BY <1>11
    <3>2. SameSides(mine, mine) BY DEF SameSides
    <3> QED BY <1>12, <3>1, <3>2
  <2>2. opd = [s \in Sides |->
                IF s \in Openings(f)
                THEN [f.opd[s] EXCEPT !.open =
                  [q \in Party |->
                    IF SameSides(IF q = p THEN mine ELSE Head(chan[t][q][p]), mine)
                    THEN (IF q = p THEN mine ELSE Head(chan[t][q][p]))[s]
                    ELSE None]]
                ELSE f.opd[s]]
    BY <1>13, <2>1
  <2>3. Advance(p, t, e) BY <1>2, <1>8, <1>14, <1>15, <2>2 DEF AddShares
  <2> QED BY <2>3 DEF AddShares
<1>17. mine \in Message
  <2>1. f.step \in {"Open", "Wait"} BY <1>3
  <2> QED BY <1>6, <1>8, <2>1, ContributionType
<1>18. \A s \in Sides : /\ opd[s] \in Lookup /\ Shape(opd[s]) = Shape(f.opd[s])
                        /\ Uniform(p, opd[s].open)
  <2> SUFFICES ASSUME NEW s \in Sides
               PROVE  /\ opd[s] \in Lookup /\ Shape(opd[s]) = Shape(f.opd[s])
                      /\ Uniform(p, opd[s].open)
    OBVIOUS
  <2>1. f.opd[s] \in Lookup BY <1>6 DEF Frame
  <2>2. CASE s \notin Openings(f)
    <3>1. opd[s] = f.opd[s] BY <1>13, <2>2
    <3> QED BY <1>2, <2>1, <3>1 DEF AgreeInv, UniformInv
  <2>3. CASE s \in Openings(f)
    <3>1. PICK w : w = sum[s] OBVIOUS
    <3>2. opd[s] = [f.opd[s] EXCEPT !.open = w] BY <1>13, <2>3, <3>1
    <3>3. mine[s] \in Share \cup {None} BY <1>17 DEF Message
    <3>4. w \in [Party -> Share \cup {None}] /\ Uniform(p, w)
      BY <1>12, <3>1, <3>3 DEF Uniform
    <3> QED BY <2>1, <3>2, <3>4 DEF Lookup, Shape
  <2> QED BY <2>2, <2>3
<1>19. e \in Frame /\ e.step = "Open" /\ e.op = op /\ e.left = left /\ e.opd = opd
  <2>1. opd \in [Sides -> Lookup] BY <1>13, <1>18
  <2>2. left \subseteq Sides BY <1>7, <1>14
  <2> QED BY <1>6, <1>15, <2>1, <2>2 DEF Frame, Steps
<1>20. frame'[p][t] = e BY <1>16, <1>19, Advances
<1>21. FrameAt(S, t, e, counter'[p][t])
  <2>1. /\ counter[p][t] = Count(S, op)
        /\ \A s \in Sides : Shape(f.opd[s]) = Masks(S, t, op, s)
    BY <1>3, <1>5, <1>6 DEF Runs, FrameAt, Looking
  <2>2. e.left \in {Rest(S, op), {}} BY <1>9, <1>14, <1>19
  <2> QED BY <1>16, <1>18, <1>19, <2>1, <2>2 DEF FrameAt, Looking
<1>22. \A r \in Var : Touches(op, r) => Abs(p, r)' = Stage(S, t, e, r)
  <2>1. \A r : Abs(p, r)' = Abs(p, r) BY <1>16 DEF Abs
  <2> QED BY <1>3, <1>5, <1>19, <2>1 DEF Runs, Stage
<1>23. GoesTo(p, t, op, S, e) BY <1>16, <1>19, <1>20, <1>21, <1>22 DEF GoesTo
<1>24. /\ ThreadOK(h, p, t)'
       /\ \A r \in Var : Touches(op, r) => VarOK(h, p, r)'
       /\ Received(h, p, t)' = ReceivedIn(h, t, n, e)
  BY <1>1, <1>5, <1>23, RunsOn
<1>25. /\ Received(h, p, t)' = Received(h, p, t) + 1
       /\ Sent(h, p, t)' = Sent(h, p, t)
  <2>1. ReceivedIn(h, t, n, e) = h.snt[t][n] + SentBefore(S, op, left)
    BY <1>5, <1>19 DEF Runs, ReceivedIn, Looking
  <2>2. Received(h, p, t)' = Received(h, p, t) + 1 BY <1>9, <1>14, <1>24, <2>1
  <2> QED BY <1>2, <1>3, <1>19, <1>20, <2>2 DEF Sent
<1>26. /\ History(h)' /\ TodoOK(h)' /\ \A q \in Party : PartyOK(h, q)'
       /\ \A q \in Party : \A u \in Thread : q # p \/ u # t =>
            /\ Received(h, q, u)' = Received(h, q, u)
            /\ Sent(h, q, u)' = Sent(h, q, u)
  BY <1>1, <1>5, <1>16, <1>19, <1>24, TalkStep
<1>27. ChanOK(h)'
  <2> SUFFICES ASSUME NEW u \in Thread, NEW a \in Party, NEW b \in Party, a # b
               PROVE  /\ Len(chan'[u][a][b]) = Sent(h, a, u)' - Received(h, b, u)'
                      /\ \A i \in 1 .. Len(chan'[u][a][b]) :
                           chan'[u][a][b][i] = h.msg[u][Received(h, b, u)' + i]
    BY DEF ChanOK
  <2>1. /\ Len(chan[u][a][b]) = Sent(h, a, u) - Received(h, b, u)
        /\ \A i \in 1 .. Len(chan[u][a][b]) :
             chan[u][a][b][i] = h.msg[u][Received(h, b, u) + i]
    BY <1>1 DEF Follows, ChanOK
  <2>2. Sent(h, a, u)' = Sent(h, a, u) BY <1>25, <1>26
  <2>3. CASE u # t \/ b # p
    <3>1. chan'[u][a][b] = chan[u][a][b] BY <1>16, <2>3 DEF IInv, TypeOK
    <3>2. Received(h, b, u)' = Received(h, b, u) BY <1>26, <2>3
    <3> QED BY <2>1, <2>2, <3>1, <3>2
  <2>4. CASE u = t /\ b = p
    <3>0. chan[t][a][p] \in Seq(Message) BY DEF IInv, TypeOK
    <3>1. PICK c \in Seq(Message) : c = chan[t][a][p] BY <3>0
    <3>2. chan'[t][a][p] = Tail(c) BY <1>16, <2>4, <3>1 DEF IInv, TypeOK
    <3>3. c # <<>> BY <1>10, <2>4, <3>1
    <3>4. PICK k : k = Received(h, p, t) OBVIOUS
    <3>5. k \in Nat BY <1>9, <3>4
    <3>6. Sent(h, a, t) \in Nat
      <4>1. ThreadOK(h, a, t) /\ TodoOK(h) BY <1>1 DEF Follows, PartyOK
      <4> QED BY <1>1, <4>1, SentBound DEF IInv
    <3>7. Len(c) = Sent(h, a, t) - k BY <2>1, <2>4, <3>1, <3>4
    <3>8. Len(Tail(c)) = Sent(h, a, t) - (k + 1) BY <3>1, <3>3, <3>5, <3>6, <3>7
    <3>9. ASSUME NEW i \in 1 .. Len(Tail(c))
          PROVE  Tail(c)[i] = h.msg[t][(k + 1) + i]
      <4>1. i + 1 \in 1 .. Len(c) /\ Tail(c)[i] = c[i + 1]
        BY <3>1, <3>3, <3>9
      <4>2. c[i + 1] = h.msg[t][k + (i + 1)] BY <2>1, <2>4, <3>1, <3>4, <4>1
      <4>3. k + (i + 1) = (k + 1) + i BY <3>5
      <4> QED BY <4>1, <4>2, <4>3
    <3> QED BY <1>25, <2>2, <2>4, <3>2, <3>4, <3>8, <3>9
  <2> QED BY <2>3, <2>4
<1>28. UniformInv'
  <2>1. \A s \in Sides : Uniform(p, e.opd[s].open) BY <1>18, <1>19
  <2>2. UniformInv BY DEF AgreeInv
  <2> QED BY <1>16, <1>19, <2>1, <2>2, UniformAdvance
<1>29. UniqueInv' BY <1>16 DEF AgreeInv, UniqueInv
<1>30. Follows(h)' BY <1>26, <1>27 DEF Follows
<1> QED BY <1>26, <1>28, <1>29, <1>30 DEF AgreeInv
-----------------------------------------------------------------------------
(* SetCache keeps what the history says the product leaves.                *)
Stores(f, s, next, e) ==
  /\ e = [f EXCEPT !.step = next] /\ f.left = {} /\ s \in Sides
  /\ \/ s = "x" /\ f.step = "Open" /\ next = "StoreY"
     \/ s = "y" /\ f.step = "StoreY" /\ next = "Done"

LEMMA StoresFrame ==
  ASSUME NEW f \in Frame, NEW s, NEW next, NEW e, Stores(f, s, next, e)
  PROVE  /\ e \in Frame /\ e.step = next /\ next \in {"StoreY", "Done"}
         /\ e.op = f.op /\ e.left = {} /\ e.opd = f.opd
         /\ f.step \in {"Open", "StoreY"}
BY DEF Stores, Frame, Steps

LEMMA StageNext ==
  ASSUME NEW S, NEW t, NEW op, op.kind \in Products, NEW f \in Frame, f.op = op,
         NEW s, NEW next, NEW e, Stores(f, s, next, e), NEW r
  PROVE  Stage(S, t, e, r) = Stored(Stage(S, t, f, r), S, t, op, s, r)
<1>1. e.step = next /\ e.op = op BY StoresFrame
<1>2. CASE s = "x"
  <2>1. f.step = "Open" /\ next = "StoreY" BY <1>2 DEF Stores
  <2> QED BY <1>1, <1>2, <2>1 DEF Stage
<1>3. CASE s = "y"
  <2>1. f.step = "StoreY" /\ next = "Done" BY <1>3 DEF Stores
  <2> QED BY <1>1, <1>3, <2>1 DEF Stage, After
<1> QED BY <1>2, <1>3 DEF Stores

LEMMA StoreRuns ==
  ASSUME IInv, NEW h, History(h), Follows(h),
         NEW p \in Party, NEW t \in Thread, NEW n, NEW op, NEW f, NEW S,
         Runs(h, p, t, n, op, f, S), NEW s, NEW next, NEW e, Stores(f, s, next, e),
         Advance(p, t, e), UNCHANGED <<todo, issued, counter>>,
         \A r \in Var : Touches(op, r) =>
           Abs(p, r)' = Stored(Abs(p, r), S, t, op, s, r)
  PROVE  /\ ThreadOK(h, p, t)'
         /\ \A r \in Var : Touches(op, r) => VarOK(h, p, r)'
         /\ Received(h, p, t)' = Received(h, p, t) /\ Sent(h, p, t)' = Sent(h, p, t)
<1>0. f \in Frame /\ f.left = {} /\ f.op = op /\ op.kind \in Products
  BY DEF Runs, Stores
<1>1. /\ e \in Frame /\ e.step = next /\ next \in {"StoreY", "Done"}
      /\ e.op = op /\ e.left = {} /\ e.opd = f.opd
      /\ f.step \in {"Open", "StoreY"} /\ f.left = {} /\ f.op = op
  BY <1>0, StoresFrame
<1>2. frame'[p][t] = e BY <1>1, Advances
<1>3. FrameAt(S, t, e, counter'[p][t])
  BY <1>1 DEF Runs, FrameAt, Looking
<1>4. ASSUME NEW r \in Var, Touches(op, r) PROVE Abs(p, r)' = Stage(S, t, e, r)
  <2>1. Abs(p, r) = Stage(S, t, f, r) BY <1>4 DEF Runs
  <2>2. Stage(S, t, e, r) = Stored(Stage(S, t, f, r), S, t, op, s, r)
    BY <1>0, StageNext
  <2> QED BY <1>4, <2>1, <2>2
<1>5. GoesTo(p, t, op, S, e) BY <1>1, <1>2, <1>3, <1>4 DEF GoesTo
<1>6. /\ ThreadOK(h, p, t)'
      /\ \A r \in Var : Touches(op, r) => VarOK(h, p, r)'
      /\ Received(h, p, t)' = ReceivedIn(h, t, n, e)
  BY <1>5, RunsOn
<1>7. Received(h, p, t) = ReceivedIn(h, t, n, f) BY DEF Runs, Received
<1>8. ReceivedIn(h, t, n, e) = ReceivedIn(h, t, n, f)
  BY <1>1 DEF ReceivedIn, Looking
<1>9. f = frame[p][t] BY DEF Runs
<1> QED BY <1>1, <1>2, <1>6, <1>7, <1>8, <1>9 DEF Sent

LEMMA StoredSame ==
  ASSUME NEW S, NEW t, NEW op, NEW s, NEW o, Shape(o) = Masks(S, t, op, s)
  PROVE  /\ \A a, r : ~(o.on /\ ~IsHit(o)) \/ OperandView(op, s).var # r =>
              Stored(a, S, t, op, s, r) = a
         /\ \A a, r : o.on /\ ~IsHit(o) /\ OperandView(op, s).var = r =>
              Stored(a, S, t, op, s, r) =
                [gen |-> a.gen, marked |-> a.marked,
                 kept |-> a.kept \cup {[trans |-> OperandView(op, s).trans,
                                        mask |-> o.mask]}]
<1>1. PICK m : m = Masks(S, t, op, s) OBVIOUS
<1>2. /\ m.on = o.on /\ m.status = o.status /\ m.mask = o.mask
  BY <1>1, ShapeFields
<1>3. IsHit(o) <=> o.status # "Init" BY DEF IsHit
<1>4. \A a, r : Stored(a, S, t, op, s, r) =
        IF OperandView(op, s).var = r /\ m.on /\ m.status = "Init"
        THEN [gen |-> a.gen, marked |-> a.marked,
              kept |-> a.kept \cup {[trans |-> OperandView(op, s).trans,
                                     mask |-> m.mask]}]
        ELSE a
  BY <1>1 DEF Stored
<1> QED BY <1>2, <1>3, <1>4

LEMMA NothingAgrees ==
  ASSUME IInv, Exclusive, UniformInv, UniqueInv, NEW h, History(h), Follows(h),
         NEW p \in Party, NEW t \in Thread, NEW n, NEW op, NEW f, NEW S,
         Runs(h, p, t, n, op, f, S), NEW s, NEW next, NEW e, Stores(f, s, next, e),
         Advance(p, t, e), ~(f.opd[s].on /\ ~IsHit(f.opd[s])),
         UNCHANGED <<todo, issued, memory, meta, entries, counter, chan>>
  PROVE  AgreeInv'
<1>1. s \in Sides /\ f \in Frame /\ f.op = op /\ f = frame[p][t] BY DEF Stores, Runs
<1>2. e \in Frame /\ e.op = op /\ e.opd = f.opd BY <1>1, StoresFrame
<1>3. Shape(f.opd[s]) = Masks(S, t, op, s)
  BY <1>1, StoresFrame DEF Runs, FrameAt, Looking
<1>4. \A r : Abs(p, r)' = Abs(p, r) BY DEF Abs
<1>5. \A r \in Var : Touches(op, r) =>
        Abs(p, r)' = Stored(Abs(p, r), S, t, op, s, r)
  BY <1>3, <1>4, StoredSame
<1>6. /\ ThreadOK(h, p, t)'
      /\ \A r \in Var : Touches(op, r) => VarOK(h, p, r)'
      /\ Received(h, p, t)' = Received(h, p, t) /\ Sent(h, p, t)' = Sent(h, p, t)
  BY <1>5, StoreRuns
<1>7. \A r \in Sides : Uniform(p, e.opd[r].open) BY <1>1, <1>2 DEF UniformInv
<1>8. \A q \in Party : \A u \in Thread : counter'[q][u] = counter[q][u] OBVIOUS
<1> QED BY <1>2, <1>6, <1>7, <1>8, StillStep

(* An entry for a view of variable v is added to the cache of p.           *)
Adds(p, view, o, kept) ==
  /\ view.var \in Var /\ Found(p, view, view.trans) = {}
  /\ kept.addr = memory[p][view.var].addr /\ kept.trans = view.trans
  /\ kept.mask = o.mask /\ kept.open = o.open
  /\ UNCHANGED <<memory, meta>>
  /\ \A e : (e \in entries'[p] <=> e \in entries[p] \/ e = kept)
  /\ \A q \in Party \ {p} : entries'[q] = entries[q]

LEMMA AddsAbs ==
  ASSUME MemoryInv, NEW p \in Party, NEW view, NEW o, NEW kept, Adds(p, view, o, kept),
         NEW r \in Var
  PROVE  Abs(p, r)' =
           IF r = view.var
           THEN [gen |-> Abs(p, r).gen, marked |-> Abs(p, r).marked,
                 kept |-> Abs(p, r).kept \cup {[trans |-> view.trans,
                                                mask |-> o.mask]}]
           ELSE Abs(p, r)
<1>1. PICK a : a = memory[p][r].addr OBVIOUS
<1>2. memory'[p][r] = memory[p][r] /\ meta'[p] = meta[p] BY DEF Adds
<1>3. CASE r # view.var
  <2>1. kept.addr # a
    BY <1>1, <1>3 DEF Adds, MemoryInv
  <2>2. SameAt(p, r) BY <1>1, <1>2, <2>1 DEF SameAt, Adds
  <2> QED BY <1>3, <2>2, AbsKept
<1>4. CASE r = view.var
  <2>1. kept.addr = a BY <1>1, <1>4 DEF Adds
  <2>2. PICK D : D = {d \in entries[p] : d.addr = a} OBVIOUS
  <2>3. {d \in entries'[p] : d.addr = a} = D \cup {kept}
    BY <2>1, <2>2 DEF Adds
  <2>4. {[trans |-> e.trans, mask |-> e.mask] : e \in D \cup {kept}} =
          {[trans |-> e.trans, mask |-> e.mask] : e \in D}
            \cup {[trans |-> view.trans, mask |-> o.mask]}
    BY DEF Adds
  <2>5. /\ Abs(p, r).gen = memory[p][r].gen
        /\ Abs(p, r).marked = (\E m \in meta[p] : m.addr = a)
        /\ Abs(p, r).kept = {[trans |-> e.trans, mask |-> e.mask] : e \in D}
    BY <1>1, <2>2 DEF Abs
  <2>6. Abs(p, r)' = [gen |-> memory[p][r].gen,
                      marked |-> \E m \in meta[p] : m.addr = a,
                      kept |-> {[trans |-> e.trans, mask |-> e.mask] :
                                  e \in D \cup {kept}}]
    BY <1>1, <1>2, <2>3 DEF Abs
  <2> QED BY <1>4, <2>4, <2>5, <2>6
<1> QED BY <1>3, <1>4

LEMMA AddsUnique ==
  ASSUME UniqueInv, NEW p \in Party, NEW view, NEW o, NEW kept, Adds(p, view, o, kept)
  PROVE  UniqueInv'
<1>1. \A e \in entries[p] : ~(e.addr = kept.addr /\ e.trans = kept.trans)
  BY DEF Adds, Found, AddrOf
<1> SUFFICES ASSUME NEW q \in Party, NEW e \in entries'[q], NEW d \in entries'[q],
                    e.addr = d.addr, e.trans = d.trans
             PROVE  e = d
  BY DEF UniqueInv
<1>2. CASE q # p BY <1>2 DEF UniqueInv, Adds
<1>3. CASE q = p BY <1>1, <1>3 DEF UniqueInv, Adds
<1> QED BY <1>2, <1>3

LEMMA AddsUniform ==
  ASSUME IInv, UniformInv, NEW p \in Party, NEW t \in Thread, NEW e \in Frame,
         Advance(p, t, e), \A s \in Sides : Uniform(p, e.opd[s].open),
         NEW view, NEW o, NEW kept, Adds(p, view, o, kept), Uniform(p, o.open)
  PROVE  UniformInv'
<1>1. /\ frame'[p][t] = e
      /\ \A q \in Party, u \in Thread :
           q # p \/ u # t => frame'[q][u] = frame[q][u]
  BY Advances
<1> SUFFICES ASSUME NEW q \in Party
             PROVE  /\ \A d \in entries'[q] : Uniform(q, d.open)
                    /\ \A u \in Thread, s \in Sides : Uniform(q, frame'[q][u].opd[s].open)
  BY DEF UniformInv, Uniform
<1>2. \A d \in entries'[q] : Uniform(q, d.open)
  <2>1. CASE q = p
    <3>1. Uniform(p, kept.open) BY DEF Adds
    <3> QED BY <2>1, <3>1 DEF Adds, UniformInv
  <2>2. CASE q # p BY <2>2 DEF Adds, UniformInv
  <2> QED BY <2>1, <2>2
<1>3. ASSUME NEW u \in Thread, NEW s \in Sides
      PROVE  Uniform(q, frame'[q][u].opd[s].open)
  <2>1. CASE q = p /\ u = t BY <1>1, <2>1
  <2>2. CASE q # p \/ u # t BY <1>1, <2>2 DEF UniformInv
  <2> QED BY <2>1, <2>2
<1> QED BY <1>2, <1>3

LEMMA KeptAgrees ==
  ASSUME IInv, Exclusive, UniformInv, UniqueInv, NEW h, History(h), Follows(h),
         NEW p \in Party, NEW t \in Thread, NEW n, NEW op, NEW f, NEW S,
         Runs(h, p, t, n, op, f, S), NEW s, NEW next, NEW e, Stores(f, s, next, e),
         Advance(p, t, e), NEW view, view = OperandView(op, s),
         NEW o, o = f.opd[s], o.on, ~IsHit(o), NEW kept, Adds(p, view, o, kept),
         UNCHANGED <<todo, issued, memory, meta, counter, chan>>
  PROVE  AgreeInv'
<1>1. /\ s \in Sides /\ f \in Frame /\ f.op = op /\ f = frame[p][t]
      /\ frame[p][t].step # "Idle" /\ op \in Ops[t] /\ op.kind \in Products
  BY DEF Stores, Runs
<1>2. e \in Frame /\ e.op = op /\ e.opd = f.opd /\ frame'[p][t] = e
  BY <1>1, StoresFrame, Advances
<1>3. Shape(o) = Masks(S, t, op, s)
  BY <1>1, StoresFrame DEF Runs, FrameAt, Looking
<1>4. \A r \in Var : Abs(p, r)' = Stored(Abs(p, r), S, t, op, s, r)
  <2> SUFFICES ASSUME NEW r \in Var
               PROVE  Abs(p, r)' = Stored(Abs(p, r), S, t, op, s, r)
    OBVIOUS
  <2>0. MemoryInv BY DEF IInv
  <2>1. CASE r = view.var
    <3>1. Abs(p, r)' = [gen |-> Abs(p, r).gen, marked |-> Abs(p, r).marked,
                        kept |-> Abs(p, r).kept \cup {[trans |-> view.trans,
                                                       mask |-> o.mask]}]
      BY <2>0, <2>1, AddsAbs
    <3>2. PICK a : a = Abs(p, r) OBVIOUS
    <3>3. Stored(a, S, t, op, s, r) =
            [gen |-> a.gen, marked |-> a.marked,
             kept |-> a.kept \cup {[trans |-> view.trans, mask |-> o.mask]}]
      <4>1. \A b, v : o.on /\ ~IsHit(o) /\ OperandView(op, s).var = v =>
              Stored(b, S, t, op, s, v) =
                [gen |-> b.gen, marked |-> b.marked,
                 kept |-> b.kept \cup {[trans |-> OperandView(op, s).trans,
                                        mask |-> o.mask]}]
        BY <1>3, StoredSame
      <4>2. OperandView(op, s).var = r /\ OperandView(op, s).trans = view.trans
        BY <2>1
      <4>3. o.on /\ ~IsHit(o) OBVIOUS
      <4> QED BY <4>1, <4>2, <4>3
    <3> QED BY <3>1, <3>2, <3>3
  <2>2. CASE r # view.var
    <3>1. Abs(p, r)' = Abs(p, r) BY <2>0, <2>2, AddsAbs
    <3>2. PICK a : a = Abs(p, r) OBVIOUS
    <3>3. Stored(a, S, t, op, s, r) = a BY <1>3, <2>2, StoredSame
    <3> QED BY <3>1, <3>2, <3>3
  <2> QED BY <2>1, <2>2
<1>5. /\ ThreadOK(h, p, t)'
      /\ \A r \in Var : Touches(op, r) => VarOK(h, p, r)'
      /\ Received(h, p, t)' = Received(h, p, t) /\ Sent(h, p, t)' = Sent(h, p, t)
  BY <1>4, StoreRuns
<1>6. Touches(op, view.var) /\ view.var \in Uses[t]
  <2>1. Touches(op, view.var) BY DEF Touches, OperandView
  <2> QED BY <1>1, <2>1, UsedBy
<1>7. \A r \in Var : ~Touches(op, r) => Abs(p, r)' = Abs(p, r)
  <2> SUFFICES ASSUME NEW r \in Var, ~Touches(op, r) PROVE Abs(p, r)' = Abs(p, r)
    OBVIOUS
  <2>1. r # view.var /\ MemoryInv BY <1>6 DEF IInv
  <2> QED BY <2>1, AddsAbs
<1>8. Moves(p, t) BY <1>1, <1>2, Advances, Running DEF Moves
<1>9. Local(p, t)
  <2>1. \A q \in Party : \A d :
          (d \in entries'[q] <=> d \in entries[q])
            \/ (q = p /\ \E v \in Uses[t] : memory[p][v].addr = d.addr)
    BY <1>6 DEF Adds
  <2> QED BY <2>1 DEF Local
<1>10. TodoOK(h) BY DEF Follows
<1>11. \A q \in Party : \A u \in Thread : counter'[q][u] = counter[q][u] OBVIOUS
<1>12. Context(h, h, p, t, op)
  BY <1>1, <1>2, <1>7, <1>8, <1>9, <1>10, <1>11, RunContext
<1>13. History(h)' /\ TodoOK(h)' BY <1>10, StillThere
<1>14. (\E j : History(j) /\ Follows(j))' BY <1>5, <1>12, <1>13, QuietStep
<1>15. \A r \in Sides : Uniform(p, e.opd[r].open) BY <1>1, <1>2 DEF UniformInv
<1>16. UniformInv'
  <2>1. Uniform(p, o.open) BY <1>1, <1>2, <1>15
  <2> QED BY <1>2, <1>15, <2>1, AddsUniform
<1>17. UniqueInv' BY AddsUnique
<1> QED BY <1>14, <1>16, <1>17 DEF AgreeInv

LEMMA SetCacheAgrees ==
  ASSUME IInv, Exclusive, AgreeInv, NEW p \in Party, NEW t \in Thread,
         NEW f, f = frame[p][t], f.left = {}, NEW s \in Sides,
         Pending(p, OperandView(f.op, s), f.opd[s]), NEW next,
         \/ s = "x" /\ f.step = "Open" /\ next = "StoreY"
         \/ s = "y" /\ f.step = "StoreY" /\ next = "Done",
         SetCache(p, t, f, s, next),
         UNCHANGED <<todo, issued, memory, meta, counter, chan>>
  PROVE  AgreeInv'
<1>1. PICK h : History(h) /\ Follows(h) BY DEF AgreeInv
<1>2. PICK op : op = f.op OBVIOUS
<1>3. frame[p][t].step # "Idle" OBVIOUS
<1>4. PICK n, S : Runs(h, p, t, n, op, f, S) BY <1>1, <1>2, <1>3, RunsOf
<1>5. PICK e : e = [f EXCEPT !.step = next] OBVIOUS
<1>6. Stores(f, s, next, e) BY <1>5 DEF Stores
<1>7. UniformInv /\ UniqueInv BY DEF AgreeInv
<1>8. PICK o : o = f.opd[s] OBVIOUS
<1>9. PICK view : view = OperandView(op, s) OBVIOUS
<1>10. CASE ~(o.on /\ ~IsHit(o))
  <2>1. Advance(p, t, e) /\ UNCHANGED entries
    BY <1>5, <1>8, <1>10 DEF SetCache, IsHit
  <2>2. ~(f.opd[s].on /\ ~IsHit(f.opd[s])) BY <1>8, <1>10
  <2> QED BY <1>1, <1>4, <1>6, <1>7, <2>1, <2>2, NothingAgrees
<1>11. CASE o.on /\ ~IsHit(o)
  <2>1. IsMarked(p, view) /\ Found(p, view, view.trans) = {}
    BY <1>2, <1>8, <1>9, <1>11 DEF Pending
  <2>2. PICK kept : kept = [addr |-> AddrOf(p, view), trans |-> view.trans,
                            mask |-> o.mask, open |-> o.open]
    OBVIOUS
  <2>3. entries' = [entries EXCEPT ![p] = @ \cup {kept}] /\ Advance(p, t, e)
    BY <1>2, <1>5, <1>8, <1>9, <1>11, <2>1, <2>2 DEF SetCache, IsHit
  <2>4. Adds(p, view, o, kept)
    <3>1. view.var \in Var
      BY <1>4, <1>9, TouchesSides DEF Runs, OperandView
    <3>2. /\ kept.addr = memory[p][view.var].addr /\ kept.trans = view.trans
          /\ kept.mask = o.mask /\ kept.open = o.open
      BY <2>2 DEF AddrOf
    <3>3. /\ \A d : (d \in entries'[p] <=> d \in entries[p] \/ d = kept)
          /\ \A q \in Party \ {p} : entries'[q] = entries[q]
      BY <2>3 DEF IInv, TypeOK
    <3> QED BY <2>1, <3>1, <3>2, <3>3 DEF Adds
  <2> QED BY <1>1, <1>4, <1>6, <1>7, <1>8, <1>9, <1>11, <2>3, <2>4, KeptAgrees
<1> QED BY <1>10, <1>11

LEMMA StoreXAgrees ==
  ASSUME IInv, Exclusive, AgreeInv, NEW p \in Party, NEW t \in Thread, StoreX(p, t)
  PROVE  AgreeInv'
<1>1. PICK f : f = frame[p][t] OBVIOUS
<1>2. /\ f \in Frame /\ FrameOK(p, t, f) /\ f.step = "Open" /\ f.left = {}
      /\ SetCache(p, t, f, "x", "StoreY")
      /\ UNCHANGED <<todo, issued, memory, meta, counter, chan>>
  BY <1>1, FrameOf DEF StoreX
<1>3. "x" \in Operands(f.op) /\ "x" \in Sides BY DEF Operands, Sides
<1>4. Pending(p, OperandView(f.op, "x"), f.opd["x"])
  BY <1>2, <1>3 DEF FrameOK, Steps
<1> QED BY <1>1, <1>2, <1>3, <1>4, SetCacheAgrees

LEMMA StoreYAgrees ==
  ASSUME IInv, Exclusive, AgreeInv, NEW p \in Party, NEW t \in Thread, StoreY(p, t)
  PROVE  AgreeInv'
<1>1. PICK f : f = frame[p][t] OBVIOUS
<1>2. /\ f \in Frame /\ FrameOK(p, t, f) /\ f.step = "StoreY"
      /\ SetCache(p, t, f, "y", "Done")
      /\ UNCHANGED <<todo, issued, memory, meta, counter, chan>>
  BY <1>1, FrameOf DEF StoreY
<1>3. "y" \in Sides /\ OperandView(f.op, "y") = f.op.y
  BY DEF Sides, OperandView
<1>4. Pending(p, OperandView(f.op, "y"), f.opd["y"]) /\ f.left = {}
  BY <1>2, <1>3 DEF FrameOK, Steps
<1> QED BY <1>1, <1>2, <1>3, <1>4, SetCacheAgrees
-----------------------------------------------------------------------------
(* Thread t of p starts its n-th operation, op, from the state S of g.     *)
Starts(h, g, p, t, n, op, S) ==
  /\ Taken(h, g, p, t, op) /\ n \in Nat /\ n \in 1 .. issued'[t]
  /\ Begun(p, t)' = n /\ g.ops[t][n] = op /\ S = Before(g, t, n)
  /\ \A r \in Var : Touches(op, r) =>
       Cut(g, p, r, g.at[t][n][r] + 1)' /\ Abs(p, r) = S.var[r]
  /\ counter[p][t] = S.cnt
  /\ Received(h, p, t) = g.snt[t][n] /\ Sent(h, p, t) = g.snt[t][n]
  /\ Makes(g, t, op, S, g.at[t][n]) /\ g.cnt[t][n + 1] = CountAfter(S, op)
  /\ g.snt[t][n] \in Nat /\ g.snt[t][n + 1] = g.snt[t][n] + Number(S, op)

LEMMA NotBusy ==
  ASSUME IInv, Exclusive, NEW p \in Party, NEW t \in Thread, NEW op \in Ops[t],
         Takes(p, t, op), NEW r, Touches(op, r)
  PROVE  ~Busy(p, r)
<1> SUFFICES ASSUME NEW u \in Thread, frame[p][u].step # "Idle",
                    Touches(frame[p][u].op, r)
             PROVE  FALSE
  BY DEF Busy
<1>1. /\ ~Ended(p, t) /\ \A a \in Awaits[t] : Ended(p, a)
      /\ frame[p][t].step = "Idle"
  BY TakesMoves
<1>2. t # u BY <1>1
<1>3. Uses[t] \cap Uses[u] = {} BY <1>1, <1>2, ThreadsApart
<1>4. r \in Uses[t] BY UsedBy
<1>5. frame[p][u].op \in Ops[u] BY FrameOps
<1>6. r \in Uses[u] BY <1>5, UsedBy
<1> QED BY <1>3, <1>4, <1>6

LEMMA StartsOf ==
  ASSUME IInv, Exclusive, NEW h, History(h), Follows(h),
         NEW p \in Party, NEW t \in Thread, NEW op \in Ops[t], Takes(p, t, op)
  PROVE  \E g, n, S : Starts(h, g, p, t, n, op, S)
<1>1. TypeOK /\ TodoOK(h) /\ PartyOK(h, p) BY DEF IInv, Follows
<1>2. PICK g : Taken(h, g, p, t, op)
  <2>1. CASE todo[p][t] # <<>> BY <1>1, <2>1, TakeHead
  <2>2. CASE todo[p][t] = <<>> BY <1>1, <2>2, TakeFresh
  <2> QED BY <2>1, <2>2
<1>3. PICK n : n = Begun(p, t) + 1 OBVIOUS
<1>4. Begun(p, t) \in Nat /\ Begun(p, t) <= issued[t] /\ issued[t] \in Nat
  BY <1>1, BegunNat, IssuedNat
<1>5. PICK S : S = Before(g, t, n) OBVIOUS
<1>6. /\ Begun(p, t)' = n /\ n <= issued'[t] /\ issued'[t] \in Nat
      /\ g.ops[t][n] = op
  BY <1>2, <1>3 DEF Taken, Begins
<1>7. n \in Nat /\ n \in 1 .. issued'[t] BY <1>3, <1>4, <1>6
<1>8. ASSUME NEW r \in Var, Touches(op, r)
      PROVE  Cut(g, p, r, g.at[t][n][r] + 1)' /\ Abs(p, r) = S.var[r]
  <2>1. ~Busy(p, r) BY <1>8, NotBusy
  <2>2. PICK k \in Nat : Cut(h, p, r, k) /\ Abs(p, r) = h.vs[r][k]
    BY <1>1, <2>1 DEF PartyOK, VarOK
  <2>3. g.at[t][n][r] = k /\ Cut(g, p, r, k + 1)'
    BY <1>2, <1>3, <1>8, <2>2 DEF Taken, CutsMove
  <2>4. g.vs[r][k] = h.vs[r][k] BY <1>2, <2>2 DEF Taken, Extends, Cut
  <2>5. S.var[r] = g.vs[r][g.at[t][n][r]] BY <1>5 DEF Before
  <2> QED BY <2>2, <2>3, <2>4, <2>5
<1>9. g.cnt[t][n] = h.cnt[t][n] /\ g.snt[t][n] = h.snt[t][n]
  <2>1. n \in 1 .. issued[t] + 1 BY <1>3, <1>4
  <2> QED BY <1>2, <2>1 DEF Taken, Extends
<1>10. frame[p][t].step = "Idle" BY DEF Takes
<1>11. counter[p][t] = S.cnt
  <2>1. counter[p][t] = h.cnt[t][n] BY <1>1, <1>3, <1>10 DEF PartyOK, ThreadOK
  <2> QED BY <1>5, <1>9, <2>1 DEF Before
<1>12. Received(h, p, t) = g.snt[t][n] /\ Sent(h, p, t) = g.snt[t][n]
  BY <1>3, <1>9, <1>10 DEF Received, ReceivedIn, Sent
<1>13. OpOK(g, t, n)' BY <1>2, <1>7 DEF Taken, History, OpsOK
<1>14. /\ Makes(g, t, op, S, g.at[t][n]) /\ g.cnt[t][n + 1] = CountAfter(S, op)
       /\ g.snt[t][n] \in Nat /\ g.snt[t][n + 1] = g.snt[t][n] + Number(S, op)
  BY <1>5, <1>6, <1>13 DEF OpOK, Makes, Sends
<1>15. Starts(h, g, p, t, n, op, S)
  BY <1>2, <1>5, <1>6, <1>7, <1>8, <1>11, <1>12, <1>14 DEF Starts
<1> QED BY <1>15

LEMMA LookXAgrees ==
  ASSUME IInv, Exclusive, AgreeInv, NEW p \in Party, NEW t \in Thread,
         NEW op \in Ops[t], LookX(p, t, op)
  PROVE  AgreeInv'
<1>1. PICK h : History(h) /\ Follows(h) BY DEF AgreeInv
<1>2. op.kind \in Products /\ Takes(p, t, op) BY DEF LookX
<1>3. PICK g, n, S : Starts(h, g, p, t, n, op, S) BY <1>1, <1>2, StartsOf
<1>4. PICK x : x = GetCache(p, op.x, op.kind = "dot") OBVIOUS
<1>5. PICK e : e = [step |-> IF op.kind = "square" THEN "Draw" ELSE "LookY",
                    op |-> op, left |-> {},
                    opd |-> [s \in Sides |-> IF s = "x" THEN x ELSE Off]]
  OBVIOUS
<1>6. Advance(p, t, e) /\ UNCHANGED <<memory, meta, entries, counter, chan>>
  BY <1>4, <1>5 DEF LookX
<1>7. UniformInv /\ UniqueInv BY DEF AgreeInv
<1>8. op.x \in View /\ op \in AllOps /\ op.x.var \in Var /\ Touches(op, op.x.var)
  BY <1>2, TouchesSides DEF AllOps
<1>9. x \in Lookup BY <1>4, <1>8, GetCacheFinds DEF IInv
<1>10. /\ e \in Frame /\ e.op = op /\ e.opd["x"] = x /\ e.opd["y"] = Off
       /\ e.step \in Looking /\ (e.step = "Draw" <=> op.kind = "square")
       /\ e.step # "Idle" /\ e.step # "Wait"
  <2>1. [s \in Sides |-> IF s = "x" THEN x ELSE Off] \in [Sides -> Lookup]
    BY <1>9, OffType
  <2> QED BY <1>5, <1>8, <2>1 DEF Frame, Steps, Looking, Sides
<1>11. frame'[p][t] = e BY <1>6, <1>10, Advances
<1>12. \A r : Abs(p, r)' = Abs(p, r) BY <1>6 DEF Abs
<1>13. FrameAt(S, t, e, counter'[p][t])
  <2>1. Shape(x) = Look(Abs(p, op.x.var), op.x.trans, op.kind = "dot")
    BY <1>4, <1>7, GetCacheShape
  <2>2. Abs(p, op.x.var) = S.var[op.x.var] BY <1>3, <1>8 DEF Starts
  <2>3. Shape(x) = LookedX(S, op) BY <2>1, <2>2 DEF LookedX
  <2>4. op.kind = "square" => LookedY(S, op) = Shape(Off) BY DEF LookedY
  <2>5. counter'[p][t] = S.cnt BY <1>3, <1>6 DEF Starts
  <2> QED BY <1>10, <2>3, <2>4, <2>5 DEF FrameAt
<1>14. VarsAt(g, p, t, n, S, e)'
  <2> SUFFICES ASSUME NEW r \in Var, Touches(op, r)
               PROVE  Cut(g, p, r, g.at[t][n][r] + 1)' /\ Abs(p, r)' = Stage(S, t, e, r)
    BY <1>10 DEF VarsAt
  <2>1. Cut(g, p, r, g.at[t][n][r] + 1)' /\ Abs(p, r) = S.var[r]
    BY <1>3 DEF Starts
  <2>2. Stage(S, t, e, r) = S.var[r] BY <1>10 DEF Stage, Looking
  <2> QED BY <1>12, <2>1, <2>2
<1>15. ThreadOK(g, p, t)'
  <2>1. RunOK(g, p, t, n, e)' BY <1>2, <1>3, <1>10, <1>13, <1>14 DEF Starts, RunOK
  <2> QED BY <1>3, <1>10, <1>11, <2>1 DEF Starts, ThreadOK
<1>16. \A r \in Var : Touches(op, r) => VarOK(g, p, r)'
  BY <1>10, <1>11 DEF VarOK, Busy
<1>17. Received(g, p, t)' = Received(h, p, t) /\ Sent(g, p, t)' = Sent(h, p, t)
  <2>1. Received(g, p, t)' = g.snt[t][n]
    BY <1>3, <1>10, <1>11 DEF Starts, Received, ReceivedIn
  <2> QED BY <1>3, <1>10, <1>11, <2>1 DEF Starts, Sent
<1>18. Moves(p, t)
  BY <1>2, <1>6, <1>10, Advances, TakesMoves DEF Moves
<1>19. Local(p, t) BY <1>6 DEF Local
<1>20. /\ \A q \in Party : \A u \in Thread :
            q # p \/ u # t => counter'[q][u] = counter[q][u]
       /\ \A r \in Var : ~Touches(op, r) => Abs(p, r)' = Abs(p, r)
       /\ frame'[p][t].step # "Idle" => frame'[p][t].op = op
  BY <1>6, <1>10, <1>11, <1>12
<1>21. TodoOK(h) /\ Taken(h, g, p, t, op) /\ History(g)' /\ TodoOK(g)'
  BY <1>1, <1>3 DEF Follows, Starts, Taken
<1>22. Context(h, g, p, t, op)
  BY <1>2, <1>18, <1>19, <1>20, <1>21, TakeContext
<1>23. (\E j : History(j) /\ Follows(j))'
  BY <1>1, <1>6, <1>15, <1>16, <1>17, <1>21, <1>22, QuietStep
<1>24. UniformInv'
  <2>1. \A s \in Sides : Uniform(p, e.opd[s].open)
    <3>1. Uniform(p, x.open) BY <1>4, <1>7, GetCacheUniform
    <3>2. Uniform(p, Off.open) BY DEF Uniform, Off
    <3> QED BY <1>10, <3>1, <3>2 DEF Sides
  <2> QED BY <1>6, <1>7, <1>10, <2>1, UniformAdvance
<1>25. UniqueInv' BY <1>6, <1>7 DEF UniqueInv
<1> QED BY <1>23, <1>24, <1>25 DEF AgreeInv

(* An operation that is not a product: op is taken and done in one step.   *)
Leaves(op, a) ==
  IF op.kind = "enable" THEN [gen |-> a.gen, marked |-> TRUE, kept |-> a.kept]
  ELSE IF op.kind = "disable"
  THEN [gen |-> a.gen, marked |-> FALSE, kept |-> {}]
  ELSE [gen |-> a.gen + 1, marked |-> FALSE, kept |-> {}]

LEMMA TouchesOne ==
  ASSUME NEW t \in Thread, NEW op \in Ops[t], op.kind \notin Products
  PROVE  /\ op.kind \in {"enable", "disable", "replace"}
         /\ op.x.var \in Var /\ op.x.var \in Uses[t] /\ op.x \in View
         /\ \A r : Touches(op, r) <=> r = op.x.var
BY DEF Ops, Touches, Products, View, KindsAssumption

LEMMA IdleAgrees ==
  ASSUME IInv, Exclusive, AgreeInv, NEW p \in Party, NEW t \in Thread,
         NEW op \in Ops[t], op.kind \notin Products, Takes(p, t, op),
         UNCHANGED <<counter, frame, chan>>, Local(p, t),
         \A q \in Party : entries'[q] \subseteq entries[q],
         NEW v, v = op.x.var, Abs(p, v)' = Leaves(op, Abs(p, v)),
         \A r \in Var \ {v} : Abs(p, r)' = Abs(p, r)
  PROVE  AgreeInv'
<1>1. PICK h : History(h) /\ Follows(h) BY DEF AgreeInv
<1>2. PICK g, n, S : Starts(h, g, p, t, n, op, S) BY <1>1, StartsOf
<1>3. /\ frame[p][t].step = "Idle" /\ frame' = frame /\ counter' = counter
      /\ chan' = chan
  BY DEF Takes
<1>4. /\ v \in Var /\ v \in Uses[t] /\ \A r : Touches(op, r) <=> r = v
      /\ op.kind \notin Products
  BY TouchesOne
<1>5. n \in Nat /\ Begun(p, t)' = n BY <1>2 DEF Starts
<1>6. ThreadOK(g, p, t)'
  <2>1. counter[p][t] = g.cnt[t][n + 1] BY <1>2, <1>4 DEF Starts, CountAfter
  <2> QED BY <1>3, <1>5, <2>1 DEF ThreadOK
<1>7. VarOK(g, p, v)'
  <2>1. PICK k : k = g.at[t][n][v] + 1 OBVIOUS
  <2>2. Cut(g, p, v, k)' /\ Abs(p, v) = S.var[v]
    BY <1>2, <1>4, <2>1 DEF Starts
  <2>3. k \in Nat BY <2>2 DEF Cut
  <2>4. g.vs[v][k] = After(S, t, op, v) BY <1>2, <1>4, <2>1 DEF Starts, Makes
  <2>5. After(S, t, op, v) = Leaves(op, S.var[v]) BY <1>4 DEF After, Leaves
  <2>6. Cut(g, p, v, k)' /\ Abs(p, v)' = g.vs[v][k]
    BY <2>2, <2>4, <2>5
  <2> QED BY <2>3, <2>6 DEF VarOK
<1>8. Received(g, p, t)' = Received(h, p, t) /\ Sent(g, p, t)' = Sent(h, p, t)
  <2>1. Number(S, op) = 0 BY <1>4 DEF Number
  <2>2. g.snt[t][n + 1] = g.snt[t][n] BY <1>2, <2>1 DEF Starts
  <2>3. Received(g, p, t)' = g.snt[t][n + 1]
    BY <1>3, <1>5 DEF Received, ReceivedIn
  <2> QED BY <1>2, <1>3, <2>2, <2>3 DEF Starts, Sent
<1>9. Moves(p, t) BY <1>3, TakesMoves
<1>10. TodoOK(h) /\ Taken(h, g, p, t, op) /\ History(g)' /\ TodoOK(g)'
  BY <1>1, <1>2 DEF Follows, Starts, Taken
<1>11. /\ \A q \in Party : \A u \in Thread :
            q # p \/ u # t => counter'[q][u] = counter[q][u]
       /\ \A r \in Var : ~Touches(op, r) => Abs(p, r)' = Abs(p, r)
       /\ frame'[p][t].step # "Idle" => frame'[p][t].op = op
  BY <1>3, <1>4
<1>12. Context(h, g, p, t, op) BY <1>9, <1>10, <1>11, TakeContext
<1>13. \A r \in Var : Touches(op, r) => VarOK(g, p, r)' BY <1>4, <1>7
<1>14. (\E j : History(j) /\ Follows(j))'
  BY <1>1, <1>3, <1>6, <1>8, <1>10, <1>12, <1>13, QuietStep
<1>15. UniformInv' BY <1>3 DEF AgreeInv, UniformInv, Uniform
<1>16. UniqueInv' BY DEF AgreeInv, UniqueInv
<1> QED BY <1>14, <1>15, <1>16 DEF AgreeInv

LEMMA EnableAgrees ==
  ASSUME IInv, Exclusive, AgreeInv, NEW p \in Party, NEW t \in Thread,
         NEW op \in Ops[t], EnableCache(p, t, op)
  PROVE  AgreeInv'
<1>1. /\ UNCHANGED <<memory, entries, counter, frame, chan>> /\ Takes(p, t, op)
      /\ op.kind = "enable" /\ op.kind \notin Products
  BY DEF EnableCache, Products
<1>2. PICK v : v = op.x.var OBVIOUS
<1>3. v \in Var /\ v \in Uses[t] BY <1>1, <1>2, TouchesOne
<1>4. PICK a : a = memory[p][v].addr OBVIOUS
<1>5. PICK new : new = [addr |-> a, var |-> v, gen |-> memory[p][v].gen] OBVIOUS
<1>6. meta' = [meta EXCEPT ![p] = IF IsMarked(p, op.x) THEN @ ELSE @ \cup {new}]
  BY <1>2, <1>4, <1>5 DEF EnableCache, AddrOf
<1>7. /\ \A q \in Party : q # p => meta'[q] = meta[q]
      /\ meta'[p] = IF IsMarked(p, op.x) THEN meta[p] ELSE meta[p] \cup {new}
  BY <1>6 DEF IInv, TypeOK
<1>8. new.addr = a BY <1>5
<1>9. \E m \in meta'[p] : m.addr = a
  <2>1. CASE IsMarked(p, op.x) BY <1>2, <1>4, <1>7, <2>1 DEF IsMarked, AddrOf
  <2>2. CASE ~IsMarked(p, op.x) BY <1>7, <1>8, <2>2
  <2> QED BY <2>1, <2>2
<1>10. Abs(p, v)' = Leaves(op, Abs(p, v))
  <2>1. Abs(p, v)' = [gen |-> memory[p][v].gen, marked |-> TRUE,
                      kept |-> Abs(p, v).kept]
    BY <1>1, <1>4, <1>9 DEF Abs
  <2>2. Abs(p, v).gen = memory[p][v].gen BY DEF Abs
  <2> QED BY <1>1, <2>1, <2>2 DEF Leaves
<1>11. ASSUME NEW r \in Var \ {v} PROVE Abs(p, r)' = Abs(p, r)
  <2>1. memory[p][r].addr # a BY <1>3, <1>4, <1>11 DEF IInv, MemoryInv
  <2>2. SameAt(p, r) BY <1>1, <1>7, <1>8, <2>1 DEF SameAt
  <2> QED BY <2>2, AbsKept
<1>12. Local(p, t) BY <1>1, <1>3, <1>4, <1>7, <1>8 DEF Local
<1>13. \A q \in Party : entries'[q] \subseteq entries[q] BY <1>1
<1> QED BY <1>1, <1>2, <1>10, <1>11, <1>12, <1>13, IdleAgrees

LEMMA DisableAgrees ==
  ASSUME IInv, Exclusive, AgreeInv, NEW p \in Party, NEW t \in Thread,
         NEW op \in Ops[t], DisableCache(p, t, op)
  PROVE  AgreeInv'
<1>1. /\ UNCHANGED <<memory, counter, frame, chan>> /\ Takes(p, t, op)
      /\ op.kind = "disable" /\ op.kind \notin Products
  BY DEF DisableCache, Products
<1>2. PICK v : v = op.x.var OBVIOUS
<1>3. v \in Var /\ v \in Uses[t] BY <1>1, <1>2, TouchesOne
<1>4. PICK a : a = memory[p][v].addr OBVIOUS
<1>5. /\ meta' = [meta EXCEPT ![p] = {m \in @ : m.addr # a}]
      /\ entries' = [entries EXCEPT ![p] = {e \in @ : e.addr # a}]
  BY <1>2, <1>4 DEF DisableCache, AddrOf
<1>6. /\ \A q \in Party : q # p => meta'[q] = meta[q] /\ entries'[q] = entries[q]
      /\ meta'[p] = {m \in meta[p] : m.addr # a}
      /\ entries'[p] = {e \in entries[p] : e.addr # a}
  BY <1>5 DEF IInv, TypeOK
<1>7. Abs(p, v)' = Leaves(op, Abs(p, v))
  <2>1. ~(\E m \in meta'[p] : m.addr = a) BY <1>6
  <2>2. {d \in entries'[p] : d.addr = a} = {} BY <1>6
  <2>3. {[trans |-> e.trans, mask |-> e.mask] :
           e \in {d \in entries'[p] : d.addr = a}} = {}
    BY <2>2
  <2>4. memory'[p][v].addr = a /\ memory'[p][v].gen = memory[p][v].gen BY <1>1, <1>4
  <2>5. Abs(p, v)' = [gen |-> memory[p][v].gen, marked |-> FALSE, kept |-> {}]
    BY <2>1, <2>3, <2>4 DEF Abs
  <2>6. Abs(p, v).gen = memory[p][v].gen BY DEF Abs
  <2> QED BY <1>1, <2>5, <2>6 DEF Leaves
<1>8. ASSUME NEW r \in Var \ {v} PROVE Abs(p, r)' = Abs(p, r)
  <2>1. memory[p][r].addr # a BY <1>3, <1>4, <1>8 DEF IInv, MemoryInv
  <2>2. SameAt(p, r) BY <1>1, <1>6, <2>1 DEF SameAt
  <2> QED BY <2>2, AbsKept
<1>9. Local(p, t) BY <1>1, <1>3, <1>4, <1>6 DEF Local
<1>10. \A q \in Party : entries'[q] \subseteq entries[q] BY <1>6
<1> QED BY <1>1, <1>2, <1>7, <1>8, <1>9, <1>10, IdleAgrees

(* No mark and no entry is at the address of the new buffer.               *)
LEMMA ReplaceAgrees ==
  ASSUME IInv, Exclusive, DropsFirst, AgreeInv, NEW p \in Party, NEW t \in Thread,
         NEW op \in Ops[t], Replace(p, t, op)
  PROVE  AgreeInv'
<1>1. /\ UNCHANGED <<meta, entries, counter, frame, chan>> /\ Takes(p, t, op)
      /\ op.kind = "replace" /\ op.kind \notin Products
  BY DEF Replace, Products
<1>2. PICK v : v = op.x.var OBVIOUS
<1>3. v \in Var /\ v \in Uses[t] BY <1>1, <1>2, TouchesOne
<1>4. PICK a \in Addr \ HeldBy(p, v) :
        memory' = [memory EXCEPT ![p][v] = [addr |-> a, gen |-> @.gen + 1]]
  BY <1>2 DEF Replace
<1>5. PICK k : k = memory[p][v].gen + 1 OBVIOUS
<1>6. memory' = [memory EXCEPT ![p] = [memory[p] EXCEPT ![v] =
                   [addr |-> a, gen |-> k]]]
  BY <1>3, <1>4, <1>5 DEF IInv, TypeOK
<1>7. \A q \in Party, w \in Var :
        memory'[q][w] = IF q = p /\ w = v THEN [addr |-> a, gen |-> k]
                        ELSE memory[q][w]
  BY <1>3, <1>6 DEF IInv, TypeOK
<1>8. /\ \A w \in Var \ {v} : memory[p][w].addr # a
      /\ \A e \in entries[p] : e.addr # a
  BY <1>4 DEF HeldBy
<1>9. \A m \in meta[p] : m.addr # a
  <2> SUFFICES ASSUME NEW m \in meta[p], m.addr = a PROVE FALSE OBVIOUS
  <2>1. m.var \in Var BY DEF IInv, TypeOK
  <2>2. memory[p][m.var].addr = a BY <1>8 DEF IInv, MemoryInv
  <2>3. m.var = v BY <1>8, <2>1, <2>2
  <2>4. IsMarked(p, op.x) BY <1>2, <2>2, <2>3 DEF IsMarked, AddrOf
  <2>5. \E e \in entries[p] : e.addr = a
    BY <1>2, <2>2, <2>3, <2>4 DEF Replace, AddrOf
  <2> QED BY <1>8, <2>5
<1>10. Abs(p, v)' = Leaves(op, Abs(p, v))
  <2>1. ~(\E m \in meta'[p] : m.addr = a) BY <1>1, <1>9
  <2>2. {d \in entries'[p] : d.addr = a} = {} BY <1>1, <1>8
  <2>3. {[trans |-> e.trans, mask |-> e.mask] :
           e \in {d \in entries'[p] : d.addr = a}} = {}
    BY <2>2
  <2>4. memory'[p][v].addr = a /\ memory'[p][v].gen = k BY <1>3, <1>7
  <2>5. Abs(p, v)' = [gen |-> k, marked |-> FALSE, kept |-> {}]
    BY <2>1, <2>3, <2>4 DEF Abs
  <2>6. Abs(p, v).gen + 1 = k BY <1>5 DEF Abs
  <2> QED BY <1>1, <2>5, <2>6 DEF Leaves
<1>11. ASSUME NEW r \in Var \ {v} PROVE Abs(p, r)' = Abs(p, r)
  <2>1. SameAt(p, r) BY <1>1, <1>7, <1>11 DEF SameAt
  <2> QED BY <2>1, AbsKept
<1>12. Local(p, t) BY <1>1, <1>3, <1>7 DEF Local
<1>13. \A q \in Party : entries'[q] \subseteq entries[q] BY <1>1
<1> QED BY <1>1, <1>2, <1>10, <1>11, <1>12, <1>13, IdleAgrees
-----------------------------------------------------------------------------
Empty ==
  [ops |-> [u \in Thread |-> [m \in Nat |-> None]],
   at  |-> [u \in Thread |-> [m \in Nat |-> [r \in Var |-> 0]]],
   vs  |-> [r \in Var |-> [k \in Nat |->
             [gen |-> 0, marked |-> IF r \in Marked THEN TRUE ELSE FALSE,
              kept |-> {}]]],
   len |-> [r \in Var |-> 0],
   cnt |-> [u \in Thread |-> [m \in Nat |-> 0]],
   snt |-> [u \in Thread |-> [m \in Nat |-> 0]],
   msg |-> [u \in Thread |-> [i \in Nat |-> None]]]

LEMMA InitialAgrees == Init => AgreeInv
<1> SUFFICES ASSUME Init PROVE AgreeInv OBVIOUS
<1>1. PICK a \in [Var -> Addr] :
        /\ \A v, w \in Var : a[v] = a[w] => v = w
        /\ memory = [p \in Party |-> [v \in Var |-> [addr |-> a[v], gen |-> 0]]]
  BY DEF Init
<1>2. PICK h : h = Empty OBVIOUS
<1>3. /\ \A r \in Var : h.len[r] = 0
      /\ \A r \in Var : \A k \in Nat :
           h.vs[r][k] = [gen |-> 0, marked |-> IF r \in Marked THEN TRUE ELSE FALSE,
                         kept |-> {}]
      /\ \A u \in Thread : \A m \in Nat : h.cnt[u][m] = 0 /\ h.snt[u][m] = 0
  BY <1>2 DEF Empty
<1>4. /\ \A u \in Thread : issued[u] = 0
      /\ \A p \in Party : \A u \in Thread :
           todo[p][u] = <<>> /\ counter[p][u] = 0 /\ frame[p][u] = Idle
      /\ \A p \in Party : entries[p] = {}
      /\ \A u \in Thread : \A p, q \in Party : chan[u][p][q] = <<>>
  BY DEF Init
<1>0. \A p \in Party : \A r \in Var : memory[p][r].addr = a[r] /\ memory[p][r].gen = 0
  BY <1>1
<1>5. /\ \A u \in Thread : \A m, r : ~OpAt(h, u, m, r)
      /\ \A p \in Party : \A u \in Thread : Begun(p, u) = 0
  BY <1>4 DEF OpAt, Begun
<1>6. History(h)
  <2>1. OpsOK(h) BY <1>3, <1>4 DEF OpsOK
  <2>2. OrderOK(h)
    BY <1>3, <1>4, <1>5 DEF OrderOK, UsesAssumption
  <2> QED BY <2>1, <2>2 DEF History
<1>7. TodoOK(h) BY <1>4, <1>5 DEF TodoOK
<1>8. ASSUME NEW p \in Party PROVE PartyOK(h, p)
  <2>1. ASSUME NEW r \in Var PROVE VarOK(h, p, r)
    <3>1. Cut(h, p, r, 0) BY <1>3, <1>5 DEF Cut
    <3>2. (\E m \in meta[p] : m.addr = memory[p][r].addr) <=> r \in Marked
      <4>1. meta[p] = {[addr |-> memory[p][v].addr, var |-> v, gen |-> 0] : v \in Marked}
        BY DEF Init
      <4>2. \A v \in Marked : v \in Var /\ memory[p][v].addr = a[v]
        BY <1>0 DEF BoundsAssumption
      <4>3. memory[p][r].addr = a[r] BY <1>0
      <4>4. ASSUME r \in Marked PROVE \E m \in meta[p] : m.addr = memory[p][r].addr
        <5>1. [addr |-> memory[p][r].addr, var |-> r, gen |-> 0] \in meta[p]
          BY <4>1, <4>4
        <5> QED BY <5>1
      <4>5. ASSUME NEW m \in meta[p], m.addr = memory[p][r].addr PROVE r \in Marked
        <5>1. PICK v \in Marked : m = [addr |-> memory[p][v].addr, var |-> v, gen |-> 0]
          BY <4>1
        <5>2. a[v] = a[r] BY <4>2, <4>3, <4>5, <5>1
        <5> QED BY <1>1, <4>2, <5>2
      <4> QED BY <4>4, <4>5
    <3>3. {d \in entries[p] : d.addr = memory[p][r].addr} = {} BY <1>4
    <3>4. {[trans |-> e.trans, mask |-> e.mask] :
             e \in {d \in entries[p] : d.addr = memory[p][r].addr}} = {}
      BY <3>3
    <3>5. memory[p][r].gen = 0 BY <1>0
    <3>6. h.vs[r][0] = [gen |-> 0, marked |-> IF r \in Marked THEN TRUE ELSE FALSE,
                        kept |-> {}]
      BY <1>3
    <3>7. CASE r \in Marked
      <4>1. Abs(p, r) = [gen |-> 0, marked |-> TRUE, kept |-> {}]
        BY <3>2, <3>4, <3>5, <3>7 DEF Abs
      <4> QED BY <3>1, <3>6, <3>7, <4>1 DEF VarOK
    <3>8. CASE r \notin Marked
      <4>1. Abs(p, r) = [gen |-> 0, marked |-> FALSE, kept |-> {}]
        BY <3>2, <3>4, <3>5, <3>8 DEF Abs
      <4>2. Abs(p, r) = h.vs[r][0] BY <3>6, <3>8, <4>1
      <4> QED BY <3>1, <4>2 DEF VarOK
    <3> QED BY <3>7, <3>8
  <2>2. \A u \in Thread : ThreadOK(h, p, u)
    BY <1>3, <1>4, <1>5, IdleFrame DEF ThreadOK
  <2> QED BY <2>1, <2>2 DEF PartyOK
<1>9. ChanOK(h)
  <2>1. \A p \in Party : \A u \in Thread :
          Received(h, p, u) = 0 /\ Sent(h, p, u) = 0
    BY <1>3, <1>4, <1>5, IdleFrame DEF Received, ReceivedIn, Sent
  <2> QED BY <1>4, <2>1 DEF ChanOK
<1>10. UniformInv
  <2>1. \A s \in Sides : Idle.opd[s] = Off
    BY DEF Idle
  <2>2. \A p \in Party : Uniform(p, Off.open) BY DEF Uniform, Off
  <2> QED BY <1>4, <2>1, <2>2 DEF UniformInv
<1>11. UniqueInv BY <1>4 DEF UniqueInv
<1> QED BY <1>6, <1>7, <1>8, <1>9, <1>10, <1>11 DEF AgreeInv, Follows

LEMMA StutterAgrees == IInv /\ AgreeInv /\ UNCHANGED vars => AgreeInv'
<1> SUFFICES ASSUME IInv, AgreeInv, UNCHANGED vars PROVE AgreeInv' OBVIOUS
<1>1. PICK h : History(h) /\ Follows(h) BY DEF AgreeInv
<1>2. /\ UNCHANGED <<todo, issued>> /\ frame' = frame /\ counter' = counter
      /\ memory' = memory /\ meta' = meta /\ entries' = entries /\ chan' = chan
  BY DEF vars
<1>3. TodoOK(h) /\ (\A p \in Party : PartyOK(h, p)) /\ ChanOK(h) /\ TypeOK
  BY <1>1 DEF Follows, IInv
<1>4. /\ History(h)' /\ TodoOK(h)' /\ Extends(h, h)
      /\ \A q, u : Begun(q, u)' = Begun(q, u)
      /\ \A q, r, k : Cut(h, q, r, k)' <=> Cut(h, q, r, k)
  BY <1>1, <1>2, <1>3, StillThere
<1>5. \A p, r : Abs(p, r)' = Abs(p, r) /\ (Busy(p, r)' <=> Busy(p, r))
  BY <1>2 DEF Abs, Busy
<1>6. \A p \in Party : PartyOK(h, p)'
  <2>1. \A p \in Party : \A r \in Var : VarOK(h, p, r)'
    BY <1>3, <1>4, <1>5 DEF PartyOK, VarOK
  <2>2. ASSUME NEW p \in Party, NEW t \in Thread PROVE ThreadOK(h, p, t)'
    <3>1. ThreadOK(h, p, t) BY <1>3 DEF PartyOK
    <3>2. \A n, S, f : VarsAt(h, p, t, n, S, f)' <=> VarsAt(h, p, t, n, S, f)
      BY <1>4, <1>5 DEF VarsAt
    <3>3. \A n, f : RunOK(h, p, t, n, f)' <=> RunOK(h, p, t, n, f)
      BY <1>2, <3>2 DEF RunOK
    <3> QED BY <1>2, <1>4, <3>1, <3>3 DEF ThreadOK
  <2> QED BY <2>1, <2>2 DEF PartyOK
<1>7. \A q, u : Received(h, q, u)' = Received(h, q, u) /\ Sent(h, q, u)' = Sent(h, q, u)
  BY <1>2, <1>4 DEF Received, Sent
<1>8. ChanOK(h)' BY <1>1, <1>2, <1>3, <1>4, <1>7, ChanKept
<1>9. UniformInv' /\ UniqueInv'
  BY <1>2 DEF AgreeInv, UniformInv, Uniform, UniqueInv
<1> QED BY <1>4, <1>6, <1>8, <1>9 DEF AgreeInv, Follows

LEMMA AgreeKeeps == Exclusive /\ DropsFirst /\ IInv /\ AgreeInv /\ [Next]_vars => AgreeInv'
<1> SUFFICES ASSUME Exclusive, DropsFirst, IInv, AgreeInv, [Next]_vars PROVE AgreeInv'
  OBVIOUS
<1>1. CASE Next
  <2>1. PICK p \in Party, t \in Thread : Step(p, t) BY <1>1 DEF Next
  <2>2. ASSUME NEW op \in Ops[t], EnableCache(p, t, op) PROVE AgreeInv'
    BY <2>2, EnableAgrees
  <2>3. ASSUME NEW op \in Ops[t], DisableCache(p, t, op) PROVE AgreeInv'
    BY <2>3, DisableAgrees
  <2>4. ASSUME NEW op \in Ops[t], Replace(p, t, op) PROVE AgreeInv'
    BY <2>4, ReplaceAgrees
  <2>5. ASSUME NEW op \in Ops[t], LookX(p, t, op) PROVE AgreeInv'
    BY <2>5, LookXAgrees
  <2>6. CASE LookY(p, t) BY <2>6, LookYAgrees
  <2>7. CASE DrawMasks(p, t) BY <2>7, DrawAgrees
  <2>8. CASE SendShares(p, t) BY <2>8, SendAgrees
  <2>9. CASE AddShares(p, t) BY <2>9, AddAgrees
  <2>10. CASE StoreX(p, t) BY <2>10, StoreXAgrees
  <2>11. CASE StoreY(p, t) BY <2>11, StoreYAgrees
  <2>12. CASE Return(p, t) BY <2>12, ReturnAgrees
  <2> QED BY <2>1, <2>2, <2>3, <2>4, <2>5, <2>6, <2>7, <2>8, <2>9, <2>10,
             <2>11, <2>12 DEF Step
<1>2. CASE UNCHANGED vars BY <1>2, StutterAgrees
<1> QED BY <1>1, <1>2

(* The inductive invariant of the parties: there is one history of the     *)
(* operations, with what each looks up, draws, sends and leaves, and every *)
(* party is at some place of it, thread by thread and variable by          *)
(* variable, whatever order the parties and their threads run in.          *)
THEOREM Agreement == ASSUME Exclusive, DropsFirst PROVE Spec => []AgreeInv
<1>1. Init => AgreeInv BY InitialAgrees
<1>2. IInv /\ AgreeInv /\ [Next]_vars => AgreeInv' BY AgreeKeeps
<1>3. Spec => []IInv BY Invariance
<1> QED BY <1>1, <1>2, <1>3, PTL DEF Spec

(* A party's allReduce adds shares of the same operands under the same     *)
(* masks: the message that is there is the one the party has sent itself.  *)
THEOREM PartiesSendTheSame ==
  ASSUME Exclusive, DropsFirst PROVE Spec => []MessagesAgree
<1>1. IInv /\ AgreeInv => MessagesAgree
  <2> SUFFICES ASSUME IInv, AgreeInv, NEW p \in Party, NEW q \in Party,
                      NEW t \in Thread, frame[p][t].step = "Wait", p # q,
                      chan[t][q][p] # <<>>
               PROVE  Head(chan[t][q][p]) = Contribution(p, frame[p][t])
    BY DEF MessagesAgree
  <2>1. PICK h : History(h) /\ Follows(h) BY DEF AgreeInv
  <2>2. PICK f : f = frame[p][t] OBVIOUS
  <2>3. PICK op : op = f.op OBVIOUS
  <2>4. PICK n, S : Runs(h, p, t, n, op, f, S)
    <3>1. frame[p][t].step # "Idle" OBVIOUS
    <3> QED BY <2>1, <2>2, <2>3, <3>1, RunsOf
  <2>5. f.step \in {"Open", "Wait"} /\ f.left # {}
    BY <2>2, <2>4 DEF Runs, FrameAt, Looking
  <2>6. SendsNext(h, p, t, n, op, f, S) BY <2>4, <2>5, OwnMessage
  <2>7. /\ Contribution(p, f) = h.msg[t][Received(h, p, t) + 1]
        /\ Received(h, p, t) \in Nat
    BY <2>6 DEF SendsNext
  <2>8. \A i \in 1 .. Len(chan[t][q][p]) :
          chan[t][q][p][i] = h.msg[t][Received(h, p, t) + i]
    BY <2>1 DEF Follows, ChanOK
  <2>9. chan[t][q][p] \in Seq(Message) BY DEF IInv, TypeOK
  <2>10. 1 \in 1 .. Len(chan[t][q][p]) /\ Head(chan[t][q][p]) = chan[t][q][p][1]
    BY <2>9
  <2> QED BY <2>2, <2>7, <2>8, <2>10
<1> QED BY <1>1, Invariance, Agreement, PTL

(* A product is computed from openings that have in them what every party  *)
(* contributed, its share of the operand under the mask of this product.   *)
THEOREM OpensEveryShare ==
  ASSUME Exclusive, DropsFirst PROVE Spec => []OpeningsMatch
<1>1. AgreeInv /\ OwnShare => OpeningsMatch
  <2> SUFFICES ASSUME AgreeInv, OwnShare, NEW p \in Party, NEW t \in Thread,
                      frame[p][t].step = "Done",
                      NEW s \in Operands(frame[p][t].op), NEW q \in Party
               PROVE  frame[p][t].opd[s].open[q] =
                        [value |-> ValueOf(p, OperandView(frame[p][t].op, s)),
                         mask |-> frame[p][t].opd[s].mask]
    BY DEF OpeningsMatch
  <2>1. s \in Sides BY DEF Operands, Sides
  <2>2. frame[p][t].opd[s].open[q] = frame[p][t].opd[s].open[p]
    BY <2>1 DEF AgreeInv, UniformInv, Uniform
  <2> QED BY <2>2 DEF OwnShare
<1> QED BY <1>1, OpensOwnShare, Agreement, PTL

(* Where two parties have begun the same operations they are at the same   *)
(* version of a variable.                                                  *)
LEMMA CutsEqual ==
  ASSUME NEW h, History(h), NEW p \in Party, NEW q \in Party, NEW r \in Var,
         \A u \in Thread : Begun(p, u) = Begun(q, u),
         NEW k \in Nat, NEW j \in Nat, Cut(h, p, r, k), Cut(h, q, r, j)
  PROVE  k = j
<1>1. ASSUME NEW a \in Party, NEW b \in Party, NEW i \in Nat, NEW m \in Nat,
             \A u \in Thread : Begun(a, u) = Begun(b, u),
             Cut(h, a, r, i), Cut(h, b, r, m), i < m
      PROVE  FALSE
  <2>1. i < h.len[r]
    <3>1. h.len[r] \in Nat BY DEF History, OpsOK
    <3> QED BY <1>1, <3>1 DEF Cut
  <2>2. PICK u \in Thread, l \in Nat : OpAt(h, u, l, r) /\ h.at[u][l][r] = i
    BY <2>1 DEF History, OrderOK
  <2>3. ~(l <= Begun(a, u)) BY <1>1, <2>2 DEF Cut
  <2>4. l <= Begun(b, u) BY <1>1, <2>2 DEF Cut
  <2> QED BY <1>1, <2>3, <2>4
<1>2. ~(k < j) BY <1>1
<1>3. ~(j < k) BY <1>1
<1> QED BY <1>2, <1>3

LEMMA MissedOpen ==
  ASSUME NEW p, NEW view, NEW allow, ~IsHit(GetCache(p, view, allow))
  PROVE  GetCache(p, view, allow).open = Off.open
BY DEF GetCache, IsHit, Off

(* The caches of parties that have finished the same operations find the   *)
(* same for every view, and their beavers have drawn as much.              *)
THEOREM PartiesCacheTheSame ==
  ASSUME Exclusive, DropsFirst PROVE Spec => []CachesAgree
<1>1. IInv /\ AgreeInv => CachesAgree
  <2> SUFFICES ASSUME IInv, AgreeInv PROVE CachesAgree
    OBVIOUS
  <2> SUFFICES ASSUME NEW p \in Party, NEW q \in Party,
                      \A t \in Thread : /\ frame[p][t].step = "Idle"
                                        /\ frame[q][t].step = "Idle"
                                        /\ todo[p][t] = todo[q][t]
               PROVE  /\ counter[p] = counter[q]
                      /\ \A view \in View :
                           GetCache(p, view, TRUE) = GetCache(q, view, TRUE)
    BY ZenonT(60) DEF CachesAgree
  <2>1. PICK h : History(h) /\ Follows(h) BY DEF AgreeInv
  <2>2. \A t \in Thread : Begun(p, t) = Begun(q, t) BY DEF Begun
  <2>3. \A t \in Thread : counter[p][t] = counter[q][t]
    BY <2>1, <2>2 DEF Follows, PartyOK, ThreadOK
  <2>4. counter[p] = counter[q] BY <2>3 DEF IInv, TypeOK
  <2>5. ASSUME NEW view \in View
        PROVE  GetCache(p, view, TRUE) = GetCache(q, view, TRUE)
    <3>1. view.var \in Var BY DEF View
    <3>2. PICK k \in Nat : Cut(h, p, view.var, k) /\ Abs(p, view.var) = h.vs[view.var][k]
      <4>1. ~Busy(p, view.var) BY DEF Busy
      <4> QED BY <2>1, <3>1, <4>1 DEF Follows, PartyOK, VarOK
    <3>3. PICK j \in Nat : Cut(h, q, view.var, j) /\ Abs(q, view.var) = h.vs[view.var][j]
      <4>1. ~Busy(q, view.var) BY DEF Busy
      <4> QED BY <2>1, <3>1, <4>1 DEF Follows, PartyOK, VarOK
    <3>4. k = j BY <2>1, <2>2, <3>1, <3>2, <3>3, CutsEqual
    <3>5. Abs(p, view.var) = Abs(q, view.var) BY <3>2, <3>3, <3>4
    <3>6. PICK kind : kind = "dot" OBVIOUS
    <3>7. PICK o : o = GetCache(p, view, kind = "dot") OBVIOUS
    <3>8. PICK d : d = GetCache(q, view, kind = "dot") OBVIOUS
    <3>9. /\ o \in Lookup /\ LookedUp(p, kind, view, o)
          /\ d \in Lookup /\ LookedUp(q, kind, view, d)
      BY <3>7, <3>8, GetCacheFinds DEF IInv
    <3>10. Shape(o) = Shape(d)
      BY <3>5, <3>7, <3>8, GetCacheShape DEF AgreeInv
    <3>11. o.on = d.on /\ o.status = d.status /\ o.mask = d.mask
      BY <3>10, ShapeFields
    <3>12. ValueOf(p, view) = ValueOf(q, view)
      BY <3>5 DEF Abs, ValueOf
    <3>13. Uniform(p, o.open) /\ Uniform(q, d.open)
      BY <3>7, <3>8, GetCacheUniform DEF AgreeInv
    <3>14. o.open = d.open
      <4>1. CASE IsHit(o)
        <5>1. IsHit(d) BY <3>11, <4>1 DEF IsHit
        <5>2. o.open[p] = d.open[q]
          BY <3>9, <3>11, <3>12, <4>1, <5>1 DEF LookedUp, OwnOpening
        <5>3. \A r \in Party : o.open[r] = d.open[r]
          BY <3>13, <5>2 DEF Uniform
        <5> QED BY <3>9, <5>3 DEF Lookup
      <4>2. CASE ~IsHit(o)
        <5>1. ~IsHit(d) BY <3>11, <4>2 DEF IsHit
        <5> QED BY <3>7, <3>8, <4>2, <5>1, MissedOpen
      <4> QED BY <4>1, <4>2
    <3>15. o = d BY <3>9, <3>11, <3>14 DEF Lookup
    <3>16. (kind = "dot") = TRUE BY <3>6
    <3> QED BY <3>7, <3>8, <3>15, <3>16
  <2> QED BY <2>4, <2>5
<1> QED BY <1>1, Invariance, Agreement, PTL
=============================================================================
