-------------------------- MODULE PrgState_proofs --------------------------
(***************************************************************************)
(* Proofs about the correlated randomness, for every number of parties and *)
(* every program of draws and forks that treats the streams fairly.        *)
(***************************************************************************)
EXTENDS PrgState, TLAPS

USE PartiesAssumption, ScriptAssumption DEF Parties, NextRank, IsFork, At, Live

(* The next rank of a party is another party.                              *)
LEMMA NextIsOther ==
  ASSUME NEW p \in Parties PROVE NextRank(p) \in Parties /\ NextRank(p) # p
OBVIOUS

(* A state with other counters.                                            *)
WithCounters(s, a, b) == [s EXCEPT !.r0Ctr = a, !.r1Ctr = b]

LEMMA SetCounters ==
  ASSUME NEW s \in PrgStates, NEW a \in Nat, NEW b \in Nat
  PROVE  \E t \in PrgStates :
           /\ t = WithCounters(s, a, b)
           /\ t.pub = s.pub /\ t.self = s.self /\ t.next = s.next
           /\ t.pubCtr = s.pubCtr /\ t.r0Ctr = a /\ t.r1Ctr = b
<1>1. PICK u \in PrgStates : u = [s EXCEPT !.r0Ctr = a] BY DEF PrgStates
<1>2. PICK t \in PrgStates : t = [u EXCEPT !.r1Ctr = b] BY DEF PrgStates
<1>3. t = WithCounters(s, a, b) BY <1>1, <1>2 DEF PrgStates, WithCounters
<1>4. /\ t.pub = s.pub /\ t.self = s.self /\ t.next = s.next
      /\ t.pubCtr = s.pubCtr /\ t.r0Ctr = a /\ t.r1Ctr = b
  BY <1>1, <1>2 DEF PrgStates
<1> HIDE DEF PrgStates
<1> QED BY <1>3, <1>4

(* A request leaves a well-typed state with the same seeds, and advances   *)
(* the counters.                                                           *)
LEMMA AfterMoves ==
  ASSUME NEW p \in Parties, NEW s \in PrgStates, NEW r \in Requests,
         s.self # <<>>, s.next # <<>>
  PROVE  LET t == After(p, s, r)
         IN  /\ t \in PrgStates
             /\ t.pub = s.pub /\ t.self = s.self /\ t.next = s.next
             /\ s.pubCtr <= t.pubCtr /\ s.r0Ctr <= t.r0Ctr /\ s.r1Ctr <= t.r1Ctr
             /\ r.op = "fork" => /\ s.pubCtr < t.pubCtr
                                 /\ s.r0Ctr < t.r0Ctr /\ s.r1Ctr < t.r1Ctr
<1> DEFINE Moved(t) ==
      /\ t \in PrgStates
      /\ t.pub = s.pub /\ t.self = s.self /\ t.next = s.next
      /\ s.pubCtr <= t.pubCtr /\ s.r0Ctr <= t.r0Ctr /\ s.r1Ctr <= t.r1Ctr
<1>1. r.blocks \in Nat BY DEF Requests
<1>2. \A n \in Nat : Moved(fillPubl(s, n))
  BY SMTT(60) DEF fillPubl, FillPRand, PrgStates
<1>3. \A a, b \in Nat : s.r0Ctr <= a /\ s.r1Ctr <= b =>
        Moved(WithCounters(s, a, b))
  <2> SUFFICES ASSUME NEW a \in Nat, NEW b \in Nat, s.r0Ctr <= a, s.r1Ctr <= b
               PROVE  Moved(WithCounters(s, a, b))
    OBVIOUS
  <2>1. PICK t \in PrgStates :
          /\ t = WithCounters(s, a, b)
          /\ t.pub = s.pub /\ t.self = s.self /\ t.next = s.next
          /\ t.pubCtr = s.pubCtr /\ t.r0Ctr = a /\ t.r1Ctr = b
    BY SetCounters
  <2>2. s.pubCtr \in Nat BY DEF PrgStates
  <2> QED BY <2>1, <2>2
<1>4. CASE r.op = "publ"
  <2>1. After(p, s, r) = fillPubl(s, r.blocks) BY <1>4 DEF After
  <2> QED BY <1>1, <1>2, <1>4, <2>1
<1>5. CASE r.op = "prss"
  <2> DEFINE a == IF p \in r.first THEN s.r0Ctr + r.blocks ELSE s.r0Ctr
             b == IF p \in r.second THEN s.r1Ctr + r.blocks ELSE s.r1Ctr
  <2>1. After(p, s, r) = WithCounters(s, a, b)
    BY <1>5 DEF WithCounters, After, fillPrssPair, FillPRand, PrgStates
  <2>2. a \in Nat /\ b \in Nat /\ s.r0Ctr <= a /\ s.r1Ctr <= b
    BY <1>1 DEF PrgStates
  <2> HIDE DEF a, b
  <2> QED BY <1>3, <1>5, <2>1, <2>2
<1>6. CASE r.op = "perm"
  <2>1. \A m \in Nat, e \in Seeds : e # <<>> =>
          /\ ReplayShuffle(e, m, r.blocks) \in Nat
          /\ m <= ReplayShuffle(e, m, r.blocks)
    <3> SUFFICES ASSUME NEW m \in Nat, NEW e \in Seeds, e # <<>>
                 PROVE  /\ ReplayShuffle(e, m, r.blocks) \in Nat
                        /\ m <= ReplayShuffle(e, m, r.blocks)
      OBVIOUS
    <3>1. PICK k \in Int : k = e[1] + m BY DEF Seeds
    <3>2. k % 2 \in Nat OBVIOUS
    <3> QED BY <1>1, <3>1, <3>2 DEF ReplayShuffle
  <2> DEFINE a == ReplayShuffle(s.self, s.r0Ctr, r.blocks)
             b == ReplayShuffle(s.next, s.r1Ctr, r.blocks)
  <2>2. a \in Nat /\ b \in Nat /\ s.r0Ctr <= a /\ s.r1Ctr <= b
    BY <2>1 DEF PrgStates
  <2>3. After(p, s, r) = WithCounters(s, a, b)
    BY <1>6 DEF WithCounters, After, genPrssPermPair, PrgStates
  <2> HIDE DEF a, b
  <2> QED BY <1>3, <1>6, <2>2, <2>3
<1>7. CASE r.op = "fork"
  <2>1. After(p, s, r) = Forked(s) BY <1>7 DEF After
  <2>2. PICK u \in PrgStates : u = fillPubl(s, 1) BY <1>2
  <2>3. /\ u.pub = s.pub /\ u.self = s.self /\ u.next = s.next
        /\ u.pubCtr = s.pubCtr + 1 /\ u.r0Ctr = s.r0Ctr /\ u.r1Ctr = s.r1Ctr
    BY <2>2 DEF fillPubl, FillPRand, PrgStates
  <2>4. Forked(s) = WithCounters(u, s.r0Ctr + 1, s.r1Ctr + 1)
    BY <2>2, <2>3 DEF WithCounters, Forked, fillPrssPair, FillPRand, PrgStates
  <2>5. /\ s.pubCtr \in Nat /\ s.r0Ctr \in Nat /\ s.r1Ctr \in Nat BY DEF PrgStates
  <2>6. s.r0Ctr + 1 \in Nat /\ s.r1Ctr + 1 \in Nat BY <2>5
  <2>7. PICK t \in PrgStates :
          /\ t = WithCounters(u, s.r0Ctr + 1, s.r1Ctr + 1)
          /\ t.pub = u.pub /\ t.self = u.self /\ t.next = u.next
          /\ t.pubCtr = u.pubCtr /\ t.r0Ctr = s.r0Ctr + 1 /\ t.r1Ctr = s.r1Ctr + 1
    BY <2>6, SetCounters
  <2>8. After(p, s, r) = t BY <2>1, <2>4, <2>7
  <2> QED BY <2>3, <2>5, <2>7, <2>8
<1>8. CASE r.op = "join"
  <2>1. After(p, s, r) = s BY <1>8 DEF After
  <2> QED BY <1>8, <2>1 DEF PrgStates
<1> HIDE DEF Moved
<1> QED BY <1>4, <1>5, <1>6, <1>7, <1>8 DEF Requests, Moved

(* Two parties at the same place of the public stream stay together.       *)
LEMMA AfterPubl ==
  ASSUME NEW p \in Parties, NEW q \in Parties, NEW r \in Requests,
         NEW s \in PrgStates, NEW t \in PrgStates,
         s.pub = t.pub, s.pubCtr = t.pubCtr
  PROVE  /\ After(p, s, r).pub = After(q, t, r).pub
         /\ After(p, s, r).pubCtr = After(q, t, r).pubCtr
<1> USE DEF After, PrgStates, Requests
<1>1. CASE r.op = "publ" BY <1>1 DEF fillPubl
<1>2. CASE r.op = "prss" BY <1>2 DEF fillPrssPair
<1>3. CASE r.op = "perm" BY <1>3 DEF genPrssPermPair
<1>4. CASE r.op = "fork" BY <1>4 DEF Forked, fillPubl, fillPrssPair
<1>5. CASE r.op = "join" BY <1>5
<1> QED BY <1>1, <1>2, <1>3, <1>4, <1>5

(* So do a party on its next seed and the next party on its own.           *)
LEMMA AfterPrss ==
  ASSUME NEW p \in Parties, NEW r \in Requests,
         NEW s \in PrgStates, NEW t \in PrgStates,
         s.next = t.self, s.r1Ctr = t.r0Ctr,
         r.op = "prss" => (p \in r.second <=> NextRank(p) \in r.first)
  PROVE  /\ After(p, s, r).next = After(NextRank(p), t, r).self
         /\ After(p, s, r).r1Ctr = After(NextRank(p), t, r).r0Ctr
<1> DEFINE q == NextRank(p)
<1> HIDE DEF q
<1> SUFFICES ASSUME r.op = "prss" => (p \in r.second <=> q \in r.first)
             PROVE  /\ After(p, s, r).next = After(q, t, r).self
                    /\ After(p, s, r).r1Ctr = After(q, t, r).r0Ctr
  BY DEF q
<1> USE DEF After, PrgStates, Requests
<1>1. CASE r.op = "publ" BY <1>1 DEF fillPubl
<1>2. CASE r.op = "prss" BY <1>2 DEF fillPrssPair
<1>3. CASE r.op = "perm" BY <1>3 DEF genPrssPermPair
<1>4. CASE r.op = "fork" BY <1>4 DEF Forked, fillPubl, fillPrssPair
<1>5. CASE r.op = "join" BY <1>5
<1> QED BY <1>1, <1>2, <1>3, <1>4, <1>5

(* What the child of a fork is.                                            *)
LEMMA ChildIs ==
  ASSUME NEW s \in PrgStates
  PROVE  /\ Child(s) \in PrgStates
         /\ Child(s).pub = Append(s.pub, s.pubCtr)
         /\ Child(s).self = Append(s.self, s.r0Ctr)
         /\ Child(s).next = Append(s.next, s.r1Ctr)
         /\ Child(s).pubCtr = 0 /\ Child(s).r0Ctr = 0 /\ Child(s).r1Ctr = 0
BY DEF Child, PrgStates, Seeds

(* Seeds drawn from different seeds, or at different places, differ.       *)
LEMMA AppendInjective ==
  ASSUME NEW s \in Seeds, NEW t \in Seeds, NEW m \in Int, NEW n \in Int,
         s # t \/ m # n
  PROVE  Append(s, m) # Append(t, n)
<1> SUFFICES ASSUME Append(s, m) = Append(t, n) PROVE s = t /\ m = n OBVIOUS
<1>1. Len(s) = Len(t) BY DEF Seeds
<1>2. m = n BY <1>1 DEF Seeds
<1>3. \A i \in 1 .. Len(s) : s[i] = Append(s, m)[i] /\ t[i] = Append(t, n)[i]
  BY SMTT(60), <1>1 DEF Seeds
<1>4. s = t BY <1>1, <1>3 DEF Seeds
<1> QED BY <1>2, <1>4

(* A root seed was not drawn.                                              *)
LEMMA AppendLonger ==
  ASSUME NEW s \in Seeds, NEW m \in Int, NEW n \in Int, s # <<>>
  PROVE  Append(s, m) # <<n>>
<1> SUFFICES ASSUME NEW t, t = <<n>>, Append(s, m) = t PROVE FALSE OBVIOUS
<1>1. Len(t) = 1 OBVIOUS
<1> QED BY <1>1 DEF Seeds
-----------------------------------------------------------------------------
(* What a step that changes the trace does: one context of one party makes *)
(* a request, and if it is a fork the child begins to live.                *)
Grows(p, c) ==
  /\ Live(p, c) /\ At(p, c) <= Len(Script[c])
  /\ trace'[p][c] = Advance(p, c)
  /\ \A e \in Contexts \ {c} :
       IF IsFork(c, At(p, c), e)
         THEN trace[p][e] = <<>> /\ trace'[p][e] = <<Child(trace[p][c][At(p, c)])>>
         ELSE trace'[p][e] = trace[p][e]
  /\ ~IsFork(c, At(p, c), c)
  /\ \A q \in Parties \ {p} : trace'[q] = trace[q]
  /\ trace' \in [Parties -> [Contexts -> Seq(PrgStates)]]

LEMMA Typing ==
  ASSUME IInv, NEW p \in Parties, NEW c \in Contexts
  PROVE  /\ trace[p][c] \in Seq(PrgStates) /\ At(p, c) \in Nat
         /\ Live(p, c) <=> At(p, c) > 0
         /\ Script[c] \in Seq(Requests)
         /\ \A i \in 1 .. At(p, c) : trace[p][c][i] \in PrgStates
         /\ \A i \in 1 .. Len(Script[c]) : Script[c][i] \in Requests
BY DEF IInv, TypeOK

LEMMA AdvanceIs ==
  ASSUME IInv, NEW p \in Parties, NEW c \in Contexts,
         Live(p, c), At(p, c) <= Len(Script[c])
  PROVE  /\ Advance(p, c) \in Seq(PrgStates)
         /\ Len(Advance(p, c)) = At(p, c) + 1
         /\ \A i \in 1 .. At(p, c) : Advance(p, c)[i] = trace[p][c][i]
         /\ Advance(p, c)[At(p, c) + 1] =
              After(p, trace[p][c][At(p, c)], Script[c][At(p, c)])
         /\ At(p, c) \in DOMAIN Script[c] /\ At(p, c) \in 1 .. At(p, c)
<1>1. At(p, c) \in 1 .. At(p, c) /\ At(p, c) \in 1 .. Len(Script[c]) BY Typing
<1> DEFINE s == trace[p][c][At(p, c)]
           r == Script[c][At(p, c)]
<1>2. s \in PrgStates /\ r \in Requests BY <1>1, Typing
<1>3. s.self # <<>> /\ s.next # <<>> BY <1>1 DEF IInv, HeadInv
<1>4. After(p, s, r) \in PrgStates BY <1>2, <1>3, AfterMoves
<1> HIDE DEF s, r
<1>5. Advance(p, c) = Append(trace[p][c], After(p, s, r)) BY DEF Advance, s, r
<1>6. trace[p][c] \in Seq(PrgStates) BY Typing
<1> QED BY <1>1, <1>4, <1>5, <1>6 DEF s, r

LEMMA NextGrows ==
  ASSUME IInv, [Next]_vars
  PROVE  \/ trace' = trace
         \/ \E p \in Parties, c \in Contexts : Grows(p, c)
<1>1. CASE UNCHANGED vars BY <1>1 DEF vars
<1>2. ASSUME NEW p \in Parties, NEW c \in Contexts, Pending(p, c, "publ") \/
             Pending(p, c, "prss") \/ Pending(p, c, "perm") \/ Pending(p, c, "join"),
             trace' = [trace EXCEPT ![p][c] = Advance(p, c)]
      PROVE  Grows(p, c)
  <2>1. Live(p, c) /\ At(p, c) <= Len(Script[c]) /\ Script[c][At(p, c)].op # "fork"
    BY <1>2 DEF Pending
  <2>2. Advance(p, c) \in Seq(PrgStates) BY <2>1, AdvanceIs
  <2> QED BY <1>2, <2>1, <2>2 DEF Grows, IInv, TypeOK
<1>3. ASSUME NEW p \in Parties, NEW c \in Contexts, Fork(p, c)
      PROVE  Grows(p, c)
  <2>1. /\ Live(p, c) /\ At(p, c) <= Len(Script[c])
        /\ Script[c][At(p, c)].op = "fork"
    BY <1>3 DEF Fork, Pending
  <2>2. PICK d \in Contexts : d = Script[c][At(p, c)].child
    BY SMTT(60), <2>1, AdvanceIs, Typing DEF Requests
  <2>3. ~Live(p, d) BY <2>1, <2>2, AdvanceIs, Typing DEF IInv, BirthInv
  <2>4. d # c BY <2>1, <2>3
  <2>5. trace' = [trace EXCEPT ![p] = [@ EXCEPT ![c] = Advance(p, c),
                               ![d] = <<Child(trace[p][c][At(p, c)])>>]]
    BY <1>3, <2>2 DEF Fork
  <2>6. Advance(p, c) \in Seq(PrgStates) BY <2>1, AdvanceIs
  <2>7. trace[p][c][At(p, c)] \in PrgStates BY <2>1, AdvanceIs, Typing
  <2>8. <<Child(trace[p][c][At(p, c)])>> \in Seq(PrgStates)
    BY <2>7, ChildIs
  <2>9. trace' \in [Parties -> [Contexts -> Seq(PrgStates)]]
    BY <2>5, <2>6, <2>8 DEF IInv, TypeOK
  <2>10. trace'[p][c] = Advance(p, c) BY <2>4, <2>5 DEF IInv, TypeOK
  <2>11. trace'[p][d] = <<Child(trace[p][c][At(p, c)])>>
    BY <2>4, <2>5 DEF IInv, TypeOK
  <2>12. \A e \in Contexts \ {c, d} : trace'[p][e] = trace[p][e]
    BY <2>5 DEF IInv, TypeOK
  <2>13. \A q \in Parties \ {p} : trace'[q] = trace[q] BY <2>5 DEF IInv, TypeOK
  <2> QED BY <2>1, <2>2, <2>3, <2>4, <2>9, <2>10, <2>11, <2>12, <2>13 DEF Grows
<1>4. ASSUME NEW p \in Parties, NEW c \in Contexts, SpawnLink(p, c)
      PROVE  trace' = trace
  BY <1>4 DEF SpawnLink
<1>5. ASSUME NEW p \in Parties, NEW c \in Contexts, Draw(p, c)
      PROVE  Grows(p, c)
  BY <1>5, <1>2 DEF Draw
<1>6. ASSUME NEW p \in Parties, NEW c \in Contexts, Join(p, c)
      PROVE  Grows(p, c)
  BY <1>6, <1>2 DEF Join
<1> QED BY <1>1, <1>3, <1>4, <1>5, <1>6 DEF Next, Step
-----------------------------------------------------------------------------
(* A context after a step: its past is kept, and it is the one that made a *)
(* request, the child of a fork, or as before.                             *)
Kept(q, e) ==
  /\ trace'[q][e] \in Seq(PrgStates) /\ Len(trace'[q][e]) \in Nat
  /\ At(q, e) \in Nat /\ At(q, e) <= Len(trace'[q][e])
  /\ \A i \in 1 .. At(q, e) : trace'[q][e][i] = trace[q][e][i]

Requested(p, c, q, e) ==
  /\ q = p /\ e = c /\ Len(trace'[q][e]) = At(q, e) + 1
  /\ trace'[q][e][At(q, e) + 1] =
       After(p, trace[p][c][At(p, c)], Script[c][At(p, c)])

Born(p, c, q, e) ==
  /\ q = p /\ e # c /\ IsFork(c, At(p, c), e)
  /\ At(q, e) = 0 /\ Len(trace'[q][e]) = 1
  /\ trace'[q][e][1] = Child(trace[p][c][At(p, c)])

Untouched(p, c, q, e) ==
  /\ q = p => e # c /\ ~IsFork(c, At(p, c), e)
  /\ trace'[q][e] = trace[q][e]

LEMMA GrowsAt ==
  ASSUME IInv, NEW p \in Parties, NEW c \in Contexts, Grows(p, c),
         NEW q \in Parties, NEW e \in Contexts
  PROVE  /\ Kept(q, e)
         /\ Requested(p, c, q, e) \/ Born(p, c, q, e) \/ Untouched(p, c, q, e)
<1> USE DEF Kept, Requested, Born, Untouched
<1>0. trace' \in [Parties -> [Contexts -> Seq(PrgStates)]] BY DEF Grows
<1>1. trace'[q][e] \in Seq(PrgStates) /\ Len(trace'[q][e]) \in Nat BY <1>0
<1>2. CASE q # p
  <2>1. trace'[q] = trace[q] BY <1>2 DEF Grows
  <2>2. At(q, e) \in Nat BY Typing
  <2> QED BY <1>1, <1>2, <2>1, <2>2
<1>3. CASE q = p /\ e = c
  <2>1. trace'[q][e] = Advance(p, c) BY <1>3 DEF Grows
  <2>2. Live(p, c) /\ At(p, c) <= Len(Script[c]) BY DEF Grows
  <2>3. /\ Len(Advance(p, c)) = At(p, c) + 1 /\ At(p, c) \in Nat
        /\ \A i \in 1 .. At(p, c) : Advance(p, c)[i] = trace[p][c][i]
        /\ Advance(p, c)[At(p, c) + 1] =
              After(p, trace[p][c][At(p, c)], Script[c][At(p, c)])
    BY <2>2, AdvanceIs, Typing
  <2> QED BY <1>1, <1>3, <2>1, <2>3
<1>4. CASE q = p /\ e # c /\ ~IsFork(c, At(p, c), e)
  <2>1. trace'[q][e] = trace[q][e] BY <1>4 DEF Grows
  <2>2. At(q, e) \in Nat BY Typing
  <2> QED BY <1>1, <1>4, <2>1, <2>2
<1>5. CASE q = p /\ e # c /\ IsFork(c, At(p, c), e)
  <2>1. /\ trace[p][e] = <<>>
        /\ trace'[p][e] = <<Child(trace[p][c][At(p, c)])>>
    BY <1>5 DEF Grows
  <2>2. At(q, e) = 0 BY <1>5, <2>1
  <2> QED BY <1>1, <1>5, <2>1, <2>2
<1> QED BY <1>2, <1>3, <1>4, <1>5

(* What the context that makes the request finds.                          *)
LEMMA GrowsFrom ==
  ASSUME IInv, NEW p \in Parties, NEW c \in Contexts, Grows(p, c)
  PROVE  /\ At(p, c) \in DOMAIN Script[c] /\ At(p, c) \in 1 .. At(p, c)
         /\ trace[p][c][At(p, c)] \in PrgStates
         /\ Script[c][At(p, c)] \in Requests
         /\ trace[p][c][At(p, c)].self # <<>> /\ trace[p][c][At(p, c)].next # <<>>
         /\ trace[p][c][At(p, c)].pub # <<>>
<1>1. At(p, c) \in DOMAIN Script[c] /\ At(p, c) \in 1 .. At(p, c)
  BY AdvanceIs DEF Grows
<1>2. trace[p][c][At(p, c)] \in PrgStates /\ Script[c][At(p, c)] \in Requests
  BY <1>1, Typing
<1>3. /\ trace[p][c][At(p, c)].self # <<>> /\ trace[p][c][At(p, c)].next # <<>>
      /\ trace[p][c][At(p, c)].pub # <<>>
  BY <1>1 DEF IInv, HeadInv
<1> QED BY <1>1, <1>2, <1>3

LEMMA TraceStep ==
  ASSUME IInv, NEW p \in Parties, NEW c \in Contexts, Grows(p, c) PROVE TraceInv'
<1> SUFFICES ASSUME NEW q \in Parties, NEW e \in Contexts,
                    NEW i \in 1 .. Len(trace'[q][e]) - 1
             PROVE  trace'[q][e][i + 1] = After(q, trace'[q][e][i], Script[e][i])
  BY DEF TraceInv
<1>1. Kept(q, e) BY GrowsAt
<1>0. Requested(p, c, q, e) \/ Born(p, c, q, e) \/ Untouched(p, c, q, e) BY GrowsAt
<1>2. CASE i + 1 <= At(q, e)
  <2>1. trace[q][e][i + 1] = After(q, trace[q][e][i], Script[e][i])
    BY <1>1, <1>2 DEF IInv, TraceInv, Kept
  <2> QED BY SMTT(60), <1>1, <1>2, <2>1 DEF Kept
<1>3. CASE i + 1 > At(q, e)
  <2>1. q = p /\ e = c /\ i = At(q, e) /\ Requested(p, c, q, e)
    <3>1. CASE Requested(p, c, q, e) BY <1>1, <1>3, <3>1 DEF Kept, Requested
    <3>2. CASE Born(p, c, q, e) BY <1>1, <1>3, <3>2 DEF Kept, Born
    <3>3. CASE Untouched(p, c, q, e) BY <1>1, <1>3, <3>3 DEF Kept, Untouched
    <3> QED BY <1>0, <3>1, <3>2, <3>3
  <2>2. trace'[p][c][At(p, c) + 1] =
          After(p, trace[p][c][At(p, c)], Script[c][At(p, c)])
    BY <2>1 DEF Requested
  <2>3. trace'[p][c][At(p, c)] = trace[p][c][At(p, c)]
    BY <1>1, <2>1, GrowsFrom DEF Kept
  <2> QED BY <2>1, <2>2, <2>3
<1> QED BY <1>1, <1>2, <1>3 DEF Kept

LEMMA StreamStep ==
  ASSUME IInv, NEW p \in Parties, NEW c \in Contexts, Grows(p, c) PROVE StreamInv'
<1> DEFINE Same(s, t) == s.pub = t.pub /\ s.self = t.self /\ s.next = t.next
           Upto(s, t) == s.pubCtr <= t.pubCtr /\ s.r0Ctr <= t.r0Ctr /\ s.r1Ctr <= t.r1Ctr
<1> SUFFICES ASSUME NEW q \in Parties, NEW e \in Contexts,
                    NEW i \in 1 .. Len(trace'[q][e]), NEW j \in 1 .. Len(trace'[q][e])
             PROVE  /\ Same(trace'[q][e][i], trace'[q][e][j])
                    /\ i <= j => Upto(trace'[q][e][i], trace'[q][e][j])
  BY DEF StreamInv
<1>0. Requested(p, c, q, e) \/ Born(p, c, q, e) \/ Untouched(p, c, q, e) BY GrowsAt
<1>1. Kept(q, e) BY GrowsAt
<1>2. \A k, l \in 1 .. At(q, e) :
        /\ Same(trace[q][e][k], trace[q][e][l])
        /\ k <= l => Upto(trace[q][e][k], trace[q][e][l])
  BY DEF IInv, StreamInv
<1>3. \A k \in 1 .. At(q, e) : trace'[q][e][k] = trace[q][e][k]
                                /\ trace[q][e][k] \in PrgStates
  BY <1>1, Typing DEF Kept
<1>4. CASE i \in 1 .. At(q, e) /\ j \in 1 .. At(q, e) BY ZenonT(60), <1>2, <1>3, <1>4
<1>5. CASE ~(i \in 1 .. At(q, e) /\ j \in 1 .. At(q, e))
  <2>1. CASE Len(trace'[q][e]) = 1
    <3>1. i = 1 /\ j = 1 BY <2>1
    <3>2. trace'[q][e][1] \in PrgStates BY <1>1, <2>1 DEF Kept
    <3> QED BY SMTT(60), <3>1, <3>2 DEF PrgStates
  <2>2. CASE Len(trace'[q][e]) # 1
    <3>1. /\ q = p /\ e = c /\ Len(trace'[q][e]) = At(q, e) + 1
          /\ trace'[q][e][At(q, e) + 1] =
               After(p, trace[p][c][At(p, c)], Script[c][At(p, c)])
      BY <1>0, <1>1, <1>5, <2>2 DEF Kept, Requested, Born, Untouched
    <3> DEFINE s == trace[p][c][At(p, c)]
               t == After(p, s, Script[c][At(p, c)])
    <3>2. s \in PrgStates /\ t \in PrgStates /\ Same(s, t) /\ Upto(s, t)
      BY SMTT(60), GrowsFrom, AfterMoves
    <3>3. At(q, e) \in 1 .. At(q, e) BY <3>1, GrowsFrom
    <3> HIDE DEF s, t
    <3>4. \A k \in 1 .. At(q, e) : Same(trace[q][e][k], s) /\ Upto(trace[q][e][k], s)
      BY <1>1, <1>2, <3>1, <3>3 DEF s, Kept
    <3>5. \A k \in 1 .. At(q, e) : Same(trace[q][e][k], t) /\ Upto(trace[q][e][k], t)
      <4> SUFFICES ASSUME NEW k \in 1 .. At(q, e)
                   PROVE  Same(trace[q][e][k], t) /\ Upto(trace[q][e][k], t)
        OBVIOUS
      <4>1. Same(trace[q][e][k], s) /\ Upto(trace[q][e][k], s) BY <3>4
      <4>2. PICK u \in PrgStates : u = trace[q][e][k] BY <1>3
      <4>3. \A v \in PrgStates :
              v.pubCtr \in Nat /\ v.r0Ctr \in Nat /\ v.r1Ctr \in Nat
        BY DEF PrgStates
      <4>4. PICK v \in PrgStates : v = s BY <3>2
      <4>5. PICK w \in PrgStates : w = t BY <3>2
      <4>6. Same(u, v) /\ Upto(u, v) /\ Same(v, w) /\ Upto(v, w)
        BY <3>2, <4>1, <4>2, <4>4, <4>5
      <4>7. Same(u, w) BY <4>6
      <4>8. Upto(u, w)
        <5>1. \A x, y, z \in Nat : x <= y /\ y <= z => x <= z OBVIOUS
        <5>2. u.pubCtr \in Nat /\ v.pubCtr \in Nat /\ w.pubCtr \in Nat BY <4>3
        <5>3. u.r0Ctr \in Nat /\ v.r0Ctr \in Nat /\ w.r0Ctr \in Nat BY <4>3
        <5>4. u.r1Ctr \in Nat /\ v.r1Ctr \in Nat /\ w.r1Ctr \in Nat BY <4>3
        <5> QED BY <4>6, <5>1, <5>2, <5>3, <5>4
      <4> QED BY <4>2, <4>5, <4>7, <4>8
    <3>6. trace'[q][e][At(q, e) + 1] = t BY <3>1 DEF s, t
    <3>7. Same(t, t) /\ Upto(t, t) BY <3>2 DEF PrgStates
    <3>8. \A k \in 1 .. Len(trace'[q][e]) :
            k \in 1 .. At(q, e) \/ k = At(q, e) + 1
      BY <1>1, <3>1 DEF Kept
    <3>9. CASE j = At(q, e) + 1
      <4>1. CASE i = At(q, e) + 1 BY <3>6, <3>7, <3>9, <4>1
      <4>2. CASE i \in 1 .. At(q, e) BY <1>3, <3>5, <3>6, <3>9, <4>2
      <4> QED BY <3>8, <4>1, <4>2
    <3>10. CASE j \in 1 .. At(q, e) /\ i = At(q, e) + 1
      <4>1. ~(i <= j) BY <1>1, <3>10 DEF Kept
      <4>2. Same(trace'[q][e][j], t) BY <1>3, <3>5, <3>10
      <4> QED BY <3>6, <3>10, <4>1, <4>2
    <3> QED BY <1>5, <3>8, <3>9, <3>10
  <2> QED BY <2>1, <2>2
<1> QED BY <1>4, <1>5

(* The first element of a seed stays the first.                            *)
LEMMA AppendHead ==
  ASSUME NEW s \in Seeds, NEW m \in Nat, s # <<>>
  PROVE  Append(s, m) # <<>> /\ Append(s, m)[1] = s[1]
<1>1. Len(s) > 0 BY DEF Seeds
<1> QED BY <1>1 DEF Seeds

LEMMA HeadStep ==
  ASSUME IInv, NEW p \in Parties, NEW c \in Contexts, Grows(p, c) PROVE HeadInv'
<1> DEFINE Headed(q, s) == /\ s.pub # <<>> /\ s.pub[1] = N
                           /\ s.self # <<>> /\ s.self[1] = q
                           /\ s.next # <<>> /\ s.next[1] = NextRank(q)
<1> SUFFICES ASSUME NEW q \in Parties, NEW e \in Contexts,
                    NEW i \in 1 .. Len(trace'[q][e])
             PROVE  Headed(q, trace'[q][e][i])
  BY DEF HeadInv
<1>1. \A r \in Parties, d \in Contexts : \A k \in 1 .. At(r, d) :
        Headed(r, trace[r][d][k])
  BY DEF IInv, HeadInv
<1>0. Requested(p, c, q, e) \/ Born(p, c, q, e) \/ Untouched(p, c, q, e) BY GrowsAt
<1>2. Kept(q, e) BY GrowsAt
<1> DEFINE s == trace[p][c][At(p, c)]
           r == Script[c][At(p, c)]
<1>3. Headed(p, s) /\ s \in PrgStates BY <1>1, GrowsFrom
<1> HIDE DEF Headed
<1>4. CASE i <= At(q, e)
  <2>1. trace'[q][e][i] = trace[q][e][i] /\ i \in 1 .. At(q, e) BY <1>2, <1>4 DEF Kept
  <2> QED BY <1>1, <2>1
<1>5. CASE i > At(q, e) /\ e = c
  <2>1. q = p /\ trace'[q][e][i] = After(p, s, r)
    BY SMTT(60), <1>0, <1>2, <1>5 DEF Kept, Requested, Born, Untouched
  <2>2. /\ After(p, s, r).pub = s.pub /\ After(p, s, r).self = s.self
        /\ After(p, s, r).next = s.next
    BY SMTT(60), GrowsFrom, AfterMoves
  <2> HIDE DEF s, r
  <2> QED BY <1>3, <2>1, <2>2 DEF Headed
<1>6. CASE i > At(q, e) /\ e # c
  <2>1. q = p /\ trace'[q][e][i] = Child(s)
    BY <1>0, <1>2, <1>6 DEF Kept, Requested, Born, Untouched
  <2> HIDE DEF s
  <2>2. /\ s.pub \in Seeds /\ s.self \in Seeds /\ s.next \in Seeds
        /\ s.pubCtr \in Nat /\ s.r0Ctr \in Nat /\ s.r1Ctr \in Nat
    BY <1>3 DEF PrgStates
  <2>3. \A x \in Seeds, m \in Nat : x # <<>> =>
          Append(x, m) # <<>> /\ Append(x, m)[1] = x[1]
    BY AppendHead
  <2>4. /\ Append(s.pub, s.pubCtr) # <<>> /\ Append(s.pub, s.pubCtr)[1] = N
        /\ Append(s.self, s.r0Ctr) # <<>> /\ Append(s.self, s.r0Ctr)[1] = p
        /\ Append(s.next, s.r1Ctr) # <<>>
        /\ Append(s.next, s.r1Ctr)[1] = NextRank(p)
    <3> HIDE DEF NextRank, Parties
    <3> QED BY <1>3, <2>2, <2>3 DEF Headed
  <2>5. /\ Child(s).pub = Append(s.pub, s.pubCtr)
        /\ Child(s).self = Append(s.self, s.r0Ctr)
        /\ Child(s).next = Append(s.next, s.r1Ctr)
    BY <1>3, ChildIs
  <2>6. Headed(p, Child(s))
    <3> HIDE DEF NextRank, Parties
    <3> QED BY <2>4, <2>5 DEF Headed
  <2> QED BY <2>1, <2>6
<1> QED BY <1>2, <1>4, <1>5, <1>6 DEF Kept

-----------------------------------------------------------------------------
(* A step brings no context to life but the child of its fork.             *)
LEMMA NewlyLive ==
  ASSUME IInv, NEW p \in Parties, NEW c \in Contexts, Grows(p, c),
         NEW q \in Parties, NEW e \in Contexts
  PROVE  /\ Live(q, e) => trace'[q][e] # <<>> /\ trace'[q][e][1] = trace[q][e][1]
         /\ trace'[q][e] # <<>> /\ ~Live(q, e) => q = p /\ IsFork(c, At(p, c), e)
<1>1. Kept(q, e) BY GrowsAt
<1>2. Requested(p, c, q, e) \/ Born(p, c, q, e) \/ Untouched(p, c, q, e) BY GrowsAt
<1>3. Live(q, e) <=> At(q, e) > 0 BY Typing
<1>4. ASSUME Live(q, e)
      PROVE  trace'[q][e] # <<>> /\ trace'[q][e][1] = trace[q][e][1]
  <2>1. At(q, e) > 0 /\ Len(trace'[q][e]) > 0 BY <1>1, <1>3, <1>4 DEF Kept
  <2> QED BY <1>1, <2>1 DEF Kept
<1>5. ASSUME trace'[q][e] # <<>>, ~Live(q, e)
      PROVE  q = p /\ IsFork(c, At(p, c), e)
  <2>1. CASE Requested(p, c, q, e)
    <3>1. Live(p, c) BY DEF Grows
    <3> QED BY <1>5, <2>1, <3>1 DEF Requested
  <2>2. CASE Born(p, c, q, e) BY <2>2 DEF Born
  <2>3. CASE Untouched(p, c, q, e) BY <1>5, <2>3 DEF Untouched
  <2> QED BY <1>2, <2>1, <2>2, <2>3
<1> QED BY <1>4, <1>5

LEMMA BirthStep ==
  ASSUME IInv, NEW p \in Parties, NEW c \in Contexts, Grows(p, c) PROVE BirthInv'
<1> SUFFICES ASSUME NEW q \in Parties, NEW e \in Contexts, NEW i \in DOMAIN Script[e],
                    Script[e][i].op = "fork"
             PROVE  LET d == Script[e][i].child
                    IN  /\ trace'[q][d] # <<>> <=> Len(trace'[q][e]) > i
                        /\ Len(trace'[q][e]) > i =>
                             trace'[q][d][1] = Child(trace'[q][e][i])
  BY DEF BirthInv
<1>1. i \in 1 .. Len(Script[e]) /\ i \in Nat /\ Script[e] \in Seq(Requests) BY Typing
<1>2. PICK d \in Contexts : d = Script[e][i].child
  <2>1. Script[e][i] \in Requests BY <1>1, Typing
  <2> QED BY <2>1 DEF Requests
<1>3. IsFork(e, i, d) BY <1>2
<1>4. /\ Live(q, d) <=> At(q, e) > i
      /\ At(q, e) > i => trace[q][d][1] = Child(trace[q][e][i])
  BY <1>2 DEF IInv, BirthInv
<1>5. Kept(q, e) /\ Kept(q, d) BY GrowsAt
<1>6. ASSUME At(q, e) > i
      PROVE  /\ trace'[q][d] # <<>> /\ Len(trace'[q][e]) > i
             /\ trace'[q][d][1] = Child(trace'[q][e][i])
  <2>1. Live(q, d) /\ trace[q][d][1] = Child(trace[q][e][i]) BY <1>4, <1>6
  <2>2. trace'[q][d] # <<>> /\ trace'[q][d][1] = trace[q][d][1] BY <2>1, NewlyLive
  <2>3. trace'[q][e][i] = trace[q][e][i] /\ Len(trace'[q][e]) > i
    BY SMTT(60), <1>1, <1>5, <1>6 DEF Kept
  <2> QED BY <2>1, <2>2, <2>3
<1>7. CASE q = p /\ e = c /\ i = At(p, c)
  <2>1. ~Live(q, d) BY <1>1, <1>4, <1>7
  <2>2. d # c BY <2>1, <1>7 DEF Grows
  <2>3. Requested(p, c, p, c) BY GrowsAt DEF Born, Untouched
  <2>4. Len(trace'[q][e]) > i BY <1>1, <1>7, <2>3 DEF Requested
  <2>5. Born(p, c, p, d) BY <1>3, <1>7, <2>2, GrowsAt DEF Requested, Untouched
  <2>6. trace'[q][e][i] = trace[p][c][At(p, c)]
    BY <1>5, <1>7, GrowsFrom DEF Kept
  <2>7. trace'[q][d][1] = Child(trace'[q][e][i]) BY <1>7, <2>5, <2>6 DEF Born
  <2>8. trace'[q][d] # <<>> BY <1>7, <2>5 DEF Born
  <2> QED BY <1>2, <2>4, <2>7, <2>8
<1>8. ASSUME ~(At(q, e) > i), ~(q = p /\ e = c /\ i = At(p, c))
      PROVE  trace'[q][d] = <<>> /\ ~(Len(trace'[q][e]) > i)
  <2>1. ~Live(q, d) BY <1>4, <1>8
  <2>2. trace'[q][d] = <<>>
    <3> SUFFICES ASSUME trace'[q][d] # <<>> PROVE FALSE OBVIOUS
    <3>1. q = p /\ IsFork(c, At(p, c), d) BY <2>1, NewlyLive
    <3>2. At(p, c) \in DOMAIN Script[c] BY GrowsFrom
    <3>3. e = c /\ i = At(p, c) BY <1>3, <3>1, <3>2, ForkAssumption
    <3> QED BY <1>8, <3>1, <3>3
  <2>3. ~(Len(trace'[q][e]) > i)
    <3>1. CASE Requested(p, c, q, e)
      BY <1>1, <1>5, <1>8, <3>1 DEF Requested, Kept
    <3>2. CASE Born(p, c, q, e) BY <1>1, <3>2 DEF Born
    <3>3. CASE Untouched(p, c, q, e) BY <1>8, <3>3 DEF Untouched
    <3> QED BY <3>1, <3>2, <3>3, GrowsAt
  <2> QED BY <2>2, <2>3
<1> QED BY <1>2, <1>6, <1>7, <1>8

LEMMA OriginStep ==
  ASSUME IInv, NEW p \in Parties, NEW c \in Contexts, Grows(p, c) PROVE OriginInv'
<1> SUFFICES ASSUME NEW q \in Parties
             PROVE  /\ trace'[q][Root] # <<>> /\ trace'[q][Root][1] = RootState(q)
                    /\ \A d \in Contexts : trace'[q][d] # <<>> /\ d # Root =>
                         \E e \in Contexts : \E i \in DOMAIN Script[e] :
                           IsFork(e, i, d) /\ Len(trace'[q][e]) > i
  BY DEF OriginInv
<1>1. trace'[q][Root] # <<>> /\ trace'[q][Root][1] = RootState(q)
  <2>1. Live(q, Root) /\ trace[q][Root][1] = RootState(q) BY DEF IInv, OriginInv
  <2> QED BY <2>1, NewlyLive
<1>2. ASSUME NEW d \in Contexts, trace'[q][d] # <<>>, d # Root
      PROVE  \E e \in Contexts : \E i \in DOMAIN Script[e] :
               IsFork(e, i, d) /\ Len(trace'[q][e]) > i
  <2>1. CASE Live(q, d)
    <3>0. PICK e \in Contexts :
            \E i \in DOMAIN Script[e] : IsFork(e, i, d) /\ At(q, e) > i
      BY <1>2, <2>1 DEF IInv, OriginInv
    <3>1. PICK i \in DOMAIN Script[e] : IsFork(e, i, d) /\ At(q, e) > i BY <3>0
    <3>2. i \in Nat BY Typing
    <3>3. Kept(q, e) BY GrowsAt
    <3>4. Len(trace'[q][e]) > i BY <3>1, <3>2, <3>3 DEF Kept
    <3> QED BY <3>1, <3>4
  <2>2. CASE ~Live(q, d)
    <3>1. q = p /\ IsFork(c, At(p, c), d) BY <1>2, <2>2, NewlyLive
    <3>2. At(p, c) \in DOMAIN Script[c] /\ At(p, c) \in Nat BY GrowsFrom, Typing
    <3>3. Requested(p, c, p, c) BY GrowsAt DEF Born, Untouched
    <3>4. Len(trace'[p][c]) > At(p, c) BY <3>2, <3>3 DEF Requested
    <3> QED BY <3>1, <3>2, <3>4
  <2> QED BY <2>1, <2>2
<1> QED BY <1>1, <1>2

(* The seeds a fork draws are those of no other context.                   *)
LEMMA FreshSeed ==
  ASSUME IInv, NEW p \in Parties, NEW c \in Contexts, Live(p, c),
         At(p, c) <= Len(Script[c]), NEW d \in Contexts, IsFork(c, At(p, c), d),
         ~Live(p, d), NEW e \in Contexts, Live(p, e)
  PROVE  LET s == Child(trace[p][c][At(p, c)])
             t == trace[p][e][1]
         IN  s.pub # t.pub /\ s.self # t.self /\ s.next # t.next
<1>1. /\ At(p, c) \in DOMAIN Script[c] /\ At(p, c) \in 1 .. At(p, c)
      /\ At(p, c) \in Nat
  BY AdvanceIs, Typing
<1>2. PICK s \in PrgStates : s = trace[p][c][At(p, c)] BY <1>1, Typing
<1>3. /\ s.pub \in Seeds /\ s.self \in Seeds /\ s.next \in Seeds
      /\ s.pubCtr \in Nat /\ s.r0Ctr \in Nat /\ s.r1Ctr \in Nat
      /\ s.pubCtr \in Int /\ s.r0Ctr \in Int /\ s.r1Ctr \in Int
  BY DEF PrgStates
<1>4. s.pub # <<>> /\ s.self # <<>> /\ s.next # <<>>
  BY <1>1, <1>2 DEF IInv, HeadInv
<1>5. /\ Child(s).pub = Append(s.pub, s.pubCtr)
      /\ Child(s).self = Append(s.self, s.r0Ctr)
      /\ Child(s).next = Append(s.next, s.r1Ctr)
  BY ChildIs
<1>6. CASE e = Root
  <2>1. trace[p][e][1] = RootState(p) BY <1>6 DEF IInv, OriginInv
  <2>2. /\ trace[p][e][1].pub = <<N>> /\ trace[p][e][1].self = <<p>>
        /\ trace[p][e][1].next = <<NextRank(p)>>
    BY <2>1 DEF RootState
  <2>3. NextRank(p) \in Int /\ p \in Int /\ N \in Int BY NextIsOther
  <2> HIDE DEF NextRank
  <2>4. Append(s.pub, s.pubCtr) # <<N>> BY <1>3, <1>4, <2>3, AppendLonger, Zenon
  <2>5. Append(s.self, s.r0Ctr) # <<p>> BY <1>3, <1>4, <2>3, AppendLonger, Zenon
  <2>6. Append(s.next, s.r1Ctr) # <<NextRank(p)>> BY <1>3, <1>4, <2>3, AppendLonger, Zenon
  <2> QED BY <1>2, <1>5, <2>2, <2>4, <2>5, <2>6
<1>7. CASE e # Root
  <2>1. PICK b \in Contexts :
          \E i \in DOMAIN Script[b] : IsFork(b, i, e) /\ At(p, b) > i
    BY <1>7 DEF IInv, OriginInv
  <2>2. PICK i \in DOMAIN Script[b] : IsFork(b, i, e) /\ At(p, b) > i BY <2>1
  <2>3. i \in Nat /\ At(p, b) \in Nat /\ i \in 1 .. Len(Script[b]) BY SMTT(60), Typing
  <2>4. i \in 1 .. At(p, b) /\ i + 1 \in 1 .. At(p, b) /\ i \in 1 .. At(p, b) - 1
        /\ 1 \in 1 .. At(p, b)
    BY <2>2, <2>3
  <2>5. trace[p][e][1] = Child(trace[p][b][i]) BY <2>2 DEF IInv, BirthInv
  <2>6. PICK t \in PrgStates : t = trace[p][b][i] BY <2>4, Typing
  <2>7. /\ t.pub \in Seeds /\ t.self \in Seeds /\ t.next \in Seeds
        /\ t.pubCtr \in Nat /\ t.r0Ctr \in Nat /\ t.r1Ctr \in Nat
        /\ t.pubCtr \in Int /\ t.r0Ctr \in Int /\ t.r1Ctr \in Int
    BY DEF PrgStates
  <2>8. /\ trace[p][e][1].pub = Append(t.pub, t.pubCtr)
        /\ trace[p][e][1].self = Append(t.self, t.r0Ctr)
        /\ trace[p][e][1].next = Append(t.next, t.r1Ctr)
    BY <2>5, <2>6, ChildIs
  <2>9. CASE b = c
    <3>1. e # d BY <1>1
    <3>2. i # At(p, c) BY <2>2, <2>9, <3>1
    <3>3. PICK u \in PrgStates : u = trace[p][b][i + 1] BY <2>4, Typing
    <3>4. u = After(p, t, Script[b][i]) BY <2>4, <2>6, <3>3 DEF IInv, TraceInv
    <3>5. t.self # <<>> /\ t.next # <<>> BY SMTT(60), <2>4, <2>6 DEF IInv, HeadInv
    <3>6. Script[b][i] \in Requests /\ Script[b][i].op = "fork" BY <2>2, <2>3, Typing
    <3>7. t.pubCtr < u.pubCtr /\ t.r0Ctr < u.r0Ctr /\ t.r1Ctr < u.r1Ctr
      BY <3>4, <3>5, <3>6, AfterMoves
    <3>8. u.pubCtr <= s.pubCtr /\ u.r0Ctr <= s.r0Ctr /\ u.r1Ctr <= s.r1Ctr
      BY <1>1, <1>2, <2>3, <2>4, <2>9, <3>2, <3>3 DEF IInv, StreamInv
    <3>9. u.pubCtr \in Nat /\ u.r0Ctr \in Nat /\ u.r1Ctr \in Nat BY DEF PrgStates
    <3>10. t.pubCtr # s.pubCtr /\ t.r0Ctr # s.r0Ctr /\ t.r1Ctr # s.r1Ctr
      BY SMTT(60), <1>3, <2>7, <3>7, <3>8, <3>9
    <3>11. Append(s.pub, s.pubCtr) # Append(t.pub, t.pubCtr)
      BY <1>3, <2>7, <3>10, AppendInjective
    <3>12. Append(s.self, s.r0Ctr) # Append(t.self, t.r0Ctr)
      BY <1>3, <2>7, <3>10, AppendInjective
    <3>13. Append(s.next, s.r1Ctr) # Append(t.next, t.r1Ctr)
      BY <1>3, <2>7, <3>10, AppendInjective
    <3> QED BY <1>2, <1>5, <2>8, <3>11, <3>12, <3>13
  <2>10. CASE b # c
    <3>1. Live(p, b) BY <2>2, <2>3, Typing
    <3>2. /\ trace[p][b][1].pub # trace[p][c][1].pub
          /\ trace[p][b][1].self # trace[p][c][1].self
          /\ trace[p][b][1].next # trace[p][c][1].next
      BY <2>10, <3>1 DEF IInv, SeedInv
    <3>3. /\ trace[p][b][1].pub = t.pub /\ trace[p][b][1].self = t.self
          /\ trace[p][b][1].next = t.next
      BY ZenonT(60), <2>4, <2>6 DEF IInv, StreamInv
    <3>4. 1 \in 1 .. At(p, c) BY <1>1
    <3>5. /\ trace[p][c][1].pub = s.pub /\ trace[p][c][1].self = s.self
          /\ trace[p][c][1].next = s.next
      BY ZenonT(60), <1>1, <1>2, <3>4 DEF IInv, StreamInv
    <3>6. s.pub # t.pub /\ s.self # t.self /\ s.next # t.next BY <3>2, <3>3, <3>5
    <3>7. Append(s.pub, s.pubCtr) # Append(t.pub, t.pubCtr)
      BY <1>3, <2>7, <3>6, AppendInjective, Zenon
    <3>8. Append(s.self, s.r0Ctr) # Append(t.self, t.r0Ctr)
      BY <1>3, <2>7, <3>6, AppendInjective, Zenon
    <3>9. Append(s.next, s.r1Ctr) # Append(t.next, t.r1Ctr)
      BY <1>3, <2>7, <3>6, AppendInjective, Zenon
    <3> QED BY <1>2, <1>5, <2>8, <3>7, <3>8, <3>9
  <2> QED BY <2>9, <2>10
<1> QED BY <1>6, <1>7

LEMMA SeedStep ==
  ASSUME IInv, NEW p \in Parties, NEW c \in Contexts, Grows(p, c) PROVE SeedInv'
<1> DEFINE Apart(s, t) == s.pub # t.pub /\ s.self # t.self /\ s.next # t.next
<1> SUFFICES ASSUME NEW q \in Parties, NEW e \in Contexts, NEW f \in Contexts,
                    e # f, trace'[q][e] # <<>>, trace'[q][f] # <<>>
             PROVE  Apart(trace'[q][e][1], trace'[q][f][1])
  BY DEF SeedInv
<1>1. CASE Live(q, e) /\ Live(q, f)
  <2>1. trace'[q][e][1] = trace[q][e][1] BY SMTT(60), <1>1, NewlyLive
  <2>2. trace'[q][f][1] = trace[q][f][1] BY <1>1, NewlyLive
  <2> QED BY <1>1, <2>1, <2>2 DEF IInv, SeedInv
<1>2. ASSUME NEW x \in Contexts, NEW y \in Contexts, ~Live(q, x), x # y,
             trace'[q][x] # <<>>, trace'[q][y] # <<>>
      PROVE  Apart(trace'[q][x][1], trace'[q][y][1])
  <2>1. q = p /\ IsFork(c, At(p, c), x)
    <3> HIDE DEF IsFork, Live, At
    <3> QED BY <1>2, NewlyLive DEF Live
  <2>2. Live(q, y)
    <3> SUFFICES ASSUME ~Live(q, y) PROVE FALSE OBVIOUS
    <3>1. IsFork(c, At(p, c), y) BY <1>2, NewlyLive
    <3> QED BY <1>2, <2>1, <3>1
  <2>3. trace'[q][y][1] = trace[q][y][1] BY <2>2, NewlyLive
  <2>4. x # c BY <2>1 DEF Grows
  <2>5. Born(p, c, p, x)
    <3>1. Requested(p, c, p, x) \/ Born(p, c, p, x) \/ Untouched(p, c, p, x)
      BY GrowsAt
    <3>2. ~Requested(p, c, p, x) BY <2>4 DEF Requested
    <3>3. ~Untouched(p, c, p, x) BY <2>1 DEF Untouched
    <3> QED BY <3>1, <3>2, <3>3
  <2>6. trace'[q][x][1] = Child(trace[p][c][At(p, c)]) BY <2>1, <2>5 DEF Born
  <2>7. Live(p, c) /\ At(p, c) <= Len(Script[c]) BY DEF Grows
  <2> QED BY ZenonT(60), <1>2, <2>1, <2>2, <2>3, <2>6, <2>7, FreshSeed
<1>3. CASE ~Live(q, e) BY <1>2, <1>3
<1>4. CASE ~Live(q, f)
  <2>1. Apart(trace'[q][f][1], trace'[q][e][1]) BY <1>2, <1>4
  <2> QED BY <2>1
<1> QED BY <1>1, <1>3, <1>4

-----------------------------------------------------------------------------
(* A value new at one party follows from what another party's old value    *)
(* follows from: the same request, or the same fork.                       *)
SameRequest(p, c, q, e, i) ==
  /\ e = c /\ i - 1 \in Common(p, q, c) /\ i - 1 \in DOMAIN Script[c]
  /\ trace'[p][e][i] = After(p, trace[p][c][i - 1], Script[c][i - 1])
  /\ trace[q][e][i] = After(q, trace[q][c][i - 1], Script[c][i - 1])

SameFork(p, c, q, e, i) ==
  /\ At(p, c) \in Common(p, q, c)
  /\ trace'[p][e][i] = Child(trace[p][c][At(p, c)])
  /\ trace[q][e][i] = Child(trace[q][c][At(p, c)])

LEMMA NewAgainst ==
  ASSUME IInv, NEW p \in Parties, NEW c \in Contexts, Grows(p, c),
         NEW q \in Parties \ {p}, NEW e \in Contexts,
         NEW i \in 1 .. Len(trace'[p][e]), i > At(p, e), i <= At(q, e)
  PROVE  SameRequest(p, c, q, e, i) \/ SameFork(p, c, q, e, i)
<1>1. /\ At(p, c) \in Nat /\ At(q, c) \in Nat /\ At(p, e) \in Nat
      /\ At(q, e) \in Nat /\ Kept(p, e)
  BY Typing, GrowsAt
<1>2. At(p, c) \in DOMAIN Script[c] /\ At(p, c) \in 1 .. At(p, c) BY GrowsFrom
<1>3. CASE Requested(p, c, p, e)
  <2>1. e = c /\ i = At(p, c) + 1 BY SMTT(60), <1>1, <1>3 DEF Requested
  <2>2. i - 1 = At(p, c) /\ i - 1 \in 1 .. At(q, c) - 1 BY SMTT(60), <1>1, <1>2, <2>1
  <2>3. trace[q][c][i - 1 + 1] = After(q, trace[q][c][i - 1], Script[c][i - 1])
    BY <2>2 DEF IInv, TraceInv
  <2>4. i - 1 + 1 = i BY <1>1, <2>1
  <2>5. trace'[p][e][i] = After(p, trace[p][c][i - 1], Script[c][i - 1])
    BY <1>3, <2>1, <2>2 DEF Requested
  <2>6. i - 1 \in Common(p, q, c) BY <1>1, <1>2, <2>2 DEF Common
  <2> QED BY <1>2, <2>1, <2>2, <2>3, <2>4, <2>5, <2>6 DEF SameRequest
<1>4. CASE Born(p, c, p, e)
  <2>1. i = 1 /\ IsFork(c, At(p, c), e) BY <1>4 DEF Born
  <2>2. Live(q, e) BY <1>1, <2>1, Typing
  <2>3. At(q, c) > At(p, c) /\ trace[q][e][1] = Child(trace[q][c][At(p, c)])
    BY <1>2, <2>1, <2>2 DEF IInv, BirthInv
  <2>4. At(p, c) \in Common(p, q, c) BY <1>1, <1>2, <2>3 DEF Common
  <2> QED BY <1>4, <2>1, <2>3, <2>4 DEF Born, SameFork
<1>5. CASE Untouched(p, c, p, e) BY <1>1, <1>5 DEF Untouched
<1> QED BY <1>3, <1>4, <1>5, GrowsAt

(* A pair of values common to two parties after a step: both are old, or   *)
(* one of them is new.                                                     *)
BothOld(q, r, e, i) ==
  /\ i \in Common(q, r, e)
  /\ trace'[q][e][i] = trace[q][e][i] /\ trace'[r][e][i] = trace[r][e][i]

FirstNew(p, q, r, e, i) ==
  /\ q = p /\ i > At(p, e) /\ i <= At(r, e) /\ i \in 1 .. Len(trace'[p][e])
  /\ trace'[r][e][i] = trace[r][e][i]

LEMMA OldOrNew ==
  ASSUME IInv, NEW p \in Parties, NEW c \in Contexts, Grows(p, c),
         NEW q \in Parties, NEW r \in Parties, q # r, NEW e \in Contexts,
         NEW i \in 1 .. Len(trace'[q][e]), i <= Len(trace'[r][e])
  PROVE  BothOld(q, r, e, i) \/ FirstNew(p, q, r, e, i) \/ FirstNew(p, r, q, e, i)
<1>1. Kept(q, e) /\ Kept(r, e) BY GrowsAt
<1>2. \A x \in Parties : x # p => trace'[x][e] = trace[x][e] BY DEF Grows
<1>3. CASE i <= At(q, e) /\ i <= At(r, e)
  BY SMTT(60), <1>1, <1>3 DEF Kept, Common, BothOld
<1>4. CASE i > At(q, e)
  <2>1. q = p BY SMTT(60), <1>1, <1>2, <1>4 DEF Kept
  <2>2. trace'[r][e] = trace[r][e] BY <1>2, <2>1
  <2> QED BY <1>1, <1>4, <2>1, <2>2 DEF Kept, FirstNew
<1>5. CASE i > At(r, e)
  <2>1. r = p BY <1>1, <1>2, <1>5 DEF Kept
  <2>2. trace'[q][e] = trace[q][e] BY <1>2, <2>1
  <2> QED BY <1>1, <1>5, <2>1, <2>2 DEF Kept, FirstNew
<1> QED BY <1>1, <1>3, <1>4, <1>5 DEF Kept

LEMMA CommonTyping ==
  ASSUME IInv, NEW p \in Parties, NEW q \in Parties, NEW c \in Contexts,
         NEW i \in Common(p, q, c)
  PROVE  trace[p][c][i] \in PrgStates /\ trace[q][c][i] \in PrgStates
<1>1. At(p, c) \in Nat /\ At(q, c) \in Nat BY Typing
<1>2. i \in 1 .. At(p, c) /\ i \in 1 .. At(q, c) BY <1>1 DEF Common
<1> QED BY <1>2, Typing

LEMMA PublStep ==
  ASSUME IInv, NEW p \in Parties, NEW c \in Contexts, Grows(p, c) PROVE PublAgree'
<1> DEFINE Agree(s, t) == s.pub = t.pub /\ s.pubCtr = t.pubCtr
<1> SUFFICES ASSUME NEW q \in Parties, NEW r \in Parties, NEW e \in Contexts,
                    NEW i \in Common(q, r, e)'
             PROVE  Agree(trace'[q][e][i], trace'[r][e][i])
  BY DEF PublAgree
<1>1. i \in 1 .. Len(trace'[q][e]) /\ i <= Len(trace'[r][e])
  <2>1. Kept(q, e) /\ Kept(r, e) BY GrowsAt
  <2> QED BY <2>1 DEF Kept, Common
<1>2. \A x, y \in Parties : \A f \in Contexts : \A k \in Common(x, y, f) :
        Agree(trace[x][f][k], trace[y][f][k])
  BY DEF IInv, PublAgree
<1> HIDE DEF Agree
<1>3. ASSUME NEW x \in Parties \ {p}, NEW k \in 1 .. Len(trace'[p][e]),
             k > At(p, e), k <= At(x, e)
      PROVE  Agree(trace'[p][e][k], trace[x][e][k])
  <2>1. CASE SameRequest(p, c, x, e, k)
    <3>1. Agree(trace[p][c][k - 1], trace[x][c][k - 1])
      BY <1>2, <2>1 DEF SameRequest
    <3>2. PICK s \in PrgStates : s = trace[p][c][k - 1]
      BY <2>1, CommonTyping DEF SameRequest
    <3>3. PICK t \in PrgStates : t = trace[x][c][k - 1]
      BY <2>1, CommonTyping DEF SameRequest
    <3>4. PICK u \in Requests : u = Script[c][k - 1] BY <2>1, Typing DEF SameRequest
    <3>5. s.pub = t.pub /\ s.pubCtr = t.pubCtr BY <3>1, <3>2, <3>3 DEF Agree
    <3>6. /\ After(p, s, u).pub = After(x, t, u).pub
          /\ After(p, s, u).pubCtr = After(x, t, u).pubCtr
      BY <3>5, AfterPubl
    <3>7. Agree(After(p, s, u), After(x, t, u)) BY <3>6 DEF Agree
    <3> QED BY <2>1, <3>2, <3>3, <3>4, <3>7 DEF SameRequest
  <2>2. CASE SameFork(p, c, x, e, k)
    <3>1. Agree(trace[p][c][At(p, c)], trace[x][c][At(p, c)])
      BY <1>2, <2>2 DEF SameFork
    <3>2. PICK s \in PrgStates : s = trace[p][c][At(p, c)]
      BY <2>2, CommonTyping DEF SameFork
    <3>3. PICK t \in PrgStates : t = trace[x][c][At(p, c)]
      BY <2>2, CommonTyping DEF SameFork
    <3>4. Agree(Child(s), Child(t)) BY <3>1, <3>2, <3>3 DEF Child, Agree
    <3> QED BY <2>2, <3>2, <3>3, <3>4 DEF SameFork
  <2>3. SameRequest(p, c, x, e, k) \/ SameFork(p, c, x, e, k)
    BY <1>3, NewAgainst
  <2> QED BY <2>1, <2>2, <2>3
<1>4. CASE q = r BY <1>4 DEF Agree
<1>5. CASE q # r
  <2>1. CASE BothOld(q, r, e, i)
    <3>1. Agree(trace[q][e][i], trace[r][e][i]) BY <1>2, <2>1 DEF BothOld
    <3> QED BY <2>1, <3>1 DEF BothOld
  <2>2. CASE FirstNew(p, q, r, e, i) BY <1>3, <1>5, <2>2 DEF FirstNew
  <2>3. CASE FirstNew(p, r, q, e, i)
    <3>1. Agree(trace'[p][e][i], trace[q][e][i]) BY <1>3, <1>5, <2>3 DEF FirstNew
    <3>2. Agree(trace[q][e][i], trace'[p][e][i]) BY <3>1 DEF Agree
    <3> QED BY <2>3, <3>2 DEF FirstNew
  <2>4. BothOld(q, r, e, i) \/ FirstNew(p, q, r, e, i) \/ FirstNew(p, r, q, e, i)
    BY <1>1, <1>5, OldOrNew
  <2> QED BY <2>1, <2>2, <2>3, <2>4
<1> QED BY <1>4, <1>5

LEMMA PrssStep ==
  ASSUME IInv, NEW p \in Parties, NEW c \in Contexts, Grows(p, c) PROVE PrssPaired'
<1> DEFINE Paired(s, t) == s.next = t.self /\ s.r1Ctr = t.r0Ctr
<1> SUFFICES ASSUME NEW q \in Parties, NEW e \in Contexts,
                    NEW i \in Common(q, NextRank(q), e)'
             PROVE  Paired(trace'[q][e][i], trace'[NextRank(q)][e][i])
  BY DEF PrssPaired
<1>1. PICK r \in Parties : r = NextRank(q) /\ r # q BY NextIsOther
<1> HIDE DEF NextRank
<1>2. i \in 1 .. Len(trace'[q][e]) /\ i <= Len(trace'[r][e])
  <2>1. Kept(q, e) /\ Kept(r, e) BY GrowsAt
  <2> QED BY SMTT(60), <1>1, <2>1 DEF Kept, Common
<1>3. \A f \in Contexts : \A k \in Common(q, r, f) :
        Paired(trace[q][f][k], trace[r][f][k])
  BY <1>1 DEF IInv, PrssPaired
<1>4. \A f \in Contexts : \A k \in Common(q, r, f) :
        /\ trace[q][f][k] \in PrgStates /\ trace[r][f][k] \in PrgStates
        /\ Paired(Child(trace[q][f][k]), Child(trace[r][f][k]))
  BY <1>3, CommonTyping DEF Child
<1>5. \A f \in Contexts : \A k \in Common(q, r, f) : k \in DOMAIN Script[f] =>
        Paired(After(q, trace[q][f][k], Script[f][k]), After(r, trace[r][f][k], Script[f][k]))
  <2> SUFFICES ASSUME NEW f \in Contexts, NEW k \in Common(q, r, f), k \in DOMAIN Script[f]
               PROVE  Paired(After(q, trace[q][f][k], Script[f][k]),
                             After(r, trace[r][f][k], Script[f][k]))
    OBVIOUS
  <2>1. PICK s \in PrgStates : s = trace[q][f][k] BY <1>4
  <2>2. PICK t \in PrgStates : t = trace[r][f][k] BY <1>4
  <2>3. Paired(s, t) BY <1>3, <2>1, <2>2
  <2>4. PICK u \in Requests : u = Script[f][k] BY Typing
  <2>5. u.op = "prss" => (q \in u.second <=> NextRank(q) \in u.first)
    BY <2>4, PairedAssumption
  <2>6. Paired(After(q, s, u), After(NextRank(q), t, u)) BY <2>3, <2>5, AfterPrss
  <2> QED BY <1>1, <2>1, <2>2, <2>4, <2>6
<1>6. \A x, y \in Parties, f \in Contexts : \A k : k \in Common(x, y, f) => k \in Common(y, x, f)
  <2> SUFFICES ASSUME NEW x \in Parties, NEW y \in Parties, NEW f \in Contexts
               PROVE  Common(x, y, f) \subseteq Common(y, x, f)
    OBVIOUS
  <2>1. At(x, f) \in Nat /\ At(y, f) \in Nat BY Typing
  <2> QED BY SMTT(60), <2>1 DEF Common
<1>7. CASE BothOld(q, r, e, i) BY <1>1, <1>3, <1>7 DEF BothOld
<1>8. CASE FirstNew(p, q, r, e, i)
  <2>1. r \in Parties \ {p} BY <1>1, <1>8 DEF FirstNew
  <2>2. CASE SameRequest(p, c, r, e, i)
    BY <1>1, <1>5, <1>8, <2>2 DEF FirstNew, SameRequest
  <2>3. CASE SameFork(p, c, r, e, i)
    <3>1. Paired(Child(trace[q][c][At(p, c)]), Child(trace[r][c][At(p, c)]))
      BY <1>4, <1>8, <2>3 DEF FirstNew, SameFork
    <3> QED BY <1>1, <1>8, <2>3, <3>1 DEF FirstNew, SameFork
  <2>4. SameRequest(p, c, r, e, i) \/ SameFork(p, c, r, e, i)
    BY <1>8, <2>1, NewAgainst DEF FirstNew
  <2> QED BY <2>2, <2>3, <2>4
<1>9. CASE FirstNew(p, r, q, e, i)
  <2>1. q \in Parties \ {p} BY <1>1, <1>9 DEF FirstNew
  <2>2. CASE SameRequest(p, c, q, e, i)
    <3>1. i - 1 \in Common(q, r, c) BY <1>6, <1>9, <2>2 DEF FirstNew, SameRequest
    <3> QED BY <1>1, <1>5, <1>9, <2>2, <3>1 DEF FirstNew, SameRequest
  <2>3. CASE SameFork(p, c, q, e, i)
    <3>1. At(p, c) \in Common(q, r, c) BY <1>6, <1>9, <2>3 DEF FirstNew, SameFork
    <3> QED BY SMTT(60), <1>1, <1>4, <1>9, <2>3, <3>1 DEF FirstNew, SameFork
  <2>4. SameRequest(p, c, q, e, i) \/ SameFork(p, c, q, e, i)
    BY <1>9, <2>1, NewAgainst DEF FirstNew
  <2> QED BY <2>2, <2>3, <2>4
<1>10. BothOld(q, r, e, i) \/ FirstNew(p, q, r, e, i) \/ FirstNew(p, r, q, e, i)
  BY <1>1, <1>2, OldOrNew
<1> QED BY <1>1, <1>7, <1>8, <1>9, <1>10

-----------------------------------------------------------------------------
LEMMA TypeStep == IInv /\ [Next]_vars => TypeOK'
<1> SUFFICES ASSUME IInv, [Next]_vars PROVE TypeOK' OBVIOUS
<1>1. spawned' \in [Parties -> SUBSET Contexts]
  <2>1. ASSUME NEW p \in Parties, NEW c \in Contexts, SpawnLink(p, c)
        PROVE  spawned' \in [Parties -> SUBSET Contexts]
    <3>1. Live(p, c) /\ At(p, c) <= Len(Script[c]) BY <2>1 DEF SpawnLink, Pending
    <3>2. Script[c][At(p, c)] \in Requests BY <3>1, AdvanceIs, Typing
    <3>3. Script[c][At(p, c)].child \in Contexts BY <3>2 DEF Requests
    <3> QED BY <2>1, <3>3 DEF SpawnLink, IInv, TypeOK
  <2>2. ASSUME ~(\E p \in Parties, c \in Contexts : SpawnLink(p, c))
        PROVE  spawned' = spawned
    BY <2>2 DEF Next, Step, Draw, Fork, Join, vars
  <2> QED BY <2>1, <2>2 DEF IInv, TypeOK
<1>2. CASE trace' = trace BY <1>1, <1>2 DEF IInv, TypeOK
<1>3. ASSUME NEW p \in Parties, NEW c \in Contexts, Grows(p, c) PROVE TypeOK'
  <2>1. trace' \in [Parties -> [Contexts -> Seq(PrgStates)]] BY <1>3 DEF Grows
  <2>2. ASSUME NEW q \in Parties, NEW e \in Contexts
        PROVE  Len(trace'[q][e]) <= Len(Script[e]) + 1
    <3>1. At(q, e) <= Len(Script[e]) + 1 /\ Len(Script[e]) \in Nat /\ At(q, e) \in Nat
      BY SMTT(60), Typing DEF IInv, TypeOK
    <3>2. CASE Requested(p, c, q, e)
      <4>1. At(p, c) <= Len(Script[c]) BY <1>3 DEF Grows
      <4> QED BY <3>1, <3>2, <4>1 DEF Requested
    <3>3. CASE Born(p, c, q, e) BY <3>1, <3>3 DEF Born
    <3>4. CASE Untouched(p, c, q, e) BY <3>1, <3>4 DEF Untouched
    <3> QED BY <1>3, <3>2, <3>3, <3>4, GrowsAt
  <2> QED BY <1>1, <2>1, <2>2 DEF TypeOK
<1> QED BY <1>2, <1>3, NextGrows

LEMMA InitIInv == Init => IInv
<1> SUFFICES ASSUME Init PROVE IInv OBVIOUS
<1>1. trace = [p \in Parties |->
                [c \in Contexts |-> IF c = Root THEN <<RootState(p)>> ELSE <<>>]]
  BY DEF Init
<1>2. \A p \in Parties : RootState(p) \in PrgStates
  BY DEF RootState, PrgStates, Seeds
<1>3. \A p \in Parties, c \in Contexts :
        /\ c = Root => trace[p][c] = <<RootState(p)>>
        /\ c # Root => trace[p][c] = <<>>
  BY <1>1
<1>4. \A p \in Parties, c \in Contexts :
        /\ c = Root => At(p, c) = 1 /\ trace[p][c][1] = RootState(p) /\ Live(p, c)
        /\ c # Root => At(p, c) = 0 /\ ~Live(p, c)
  <2> SUFFICES ASSUME NEW p \in Parties, NEW c \in Contexts
               PROVE  /\ c = Root => At(p, c) = 1 /\ trace[p][c][1] = RootState(p) /\ Live(p, c)
                      /\ c # Root => At(p, c) = 0 /\ ~Live(p, c)
    OBVIOUS
  <2>1. CASE c = Root
    <3>1. trace[p][c] = <<RootState(p)>> BY <1>3, <2>1
    <3> QED BY <2>1, <3>1
  <2>2. CASE c # Root BY <1>3, <2>2
  <2> QED BY <2>1, <2>2
<1>5. TypeOK
  <2>1. spawned \in [Parties -> SUBSET Contexts] BY DEF Init
  <2>2. trace \in [Parties -> [Contexts -> Seq(PrgStates)]] BY <1>1, <1>2
  <2>3. \A c \in Contexts : Len(Script[c]) \in Nat OBVIOUS
  <2>4. ASSUME NEW p \in Parties, NEW c \in Contexts PROVE At(p, c) <= Len(Script[c]) + 1
    <3>1. At(p, c) = 0 \/ At(p, c) = 1 BY <1>4
    <3>2. PICK n \in Nat : n = Len(Script[c]) BY <2>3
    <3> HIDE DEF At
    <3> QED BY <3>1, <3>2
  <2> QED BY <2>1, <2>2, <2>4 DEF TypeOK
<1>6. \A p \in Parties, c \in Contexts : \A i \in 1 .. At(p, c) :
        c = Root /\ i = 1 /\ trace[p][c][i] = RootState(p)
  <2> SUFFICES ASSUME NEW p \in Parties, NEW c \in Contexts, NEW i \in 1 .. At(p, c)
               PROVE  c = Root /\ i = 1 /\ trace[p][c][i] = RootState(p)
    OBVIOUS
  <2>1. CASE c = Root
    <3>1. At(p, c) = 1 /\ trace[p][c][1] = RootState(p) BY <1>4, <2>1
    <3>2. i = 1 BY <3>1
    <3> QED BY <2>1, <3>1, <3>2
  <2>2. CASE c # Root
    <3>1. At(p, c) = 0 BY <1>4, <2>2
    <3> QED BY <3>1
  <2> QED BY <2>1, <2>2
<1>7. BirthInv
  <2> SUFFICES ASSUME NEW p \in Parties, NEW c \in Contexts, NEW i \in DOMAIN Script[c],
                      Script[c][i].op = "fork"
               PROVE  ~Live(p, Script[c][i].child) /\ ~(At(p, c) > i)
    BY DEF BirthInv
  <2>1. i \in 1 .. Len(Script[c]) /\ Script[c] \in Seq(Requests) OBVIOUS
  <2>2. Script[c][i].child \in Contexts
    <3>1. Script[c][i] \in Requests BY <2>1
    <3> QED BY <3>1 DEF Requests
  <2>3. Script[c][i].child # Root BY ForkAssumption
  <2>4. ~Live(p, Script[c][i].child) BY <1>4, <2>2, <2>3
  <2>5. At(p, c) = 0 \/ At(p, c) = 1 BY <1>4
  <2>6. i \in Nat /\ i >= 1 BY <2>1
  <2>7. ~(At(p, c) > i)
    <3> HIDE DEF At
    <3> QED BY <2>5, <2>6
  <2> QED BY <2>4, <2>7
<1>8. OriginInv BY <1>4 DEF OriginInv
<1>9. TraceInv
  <2>1. ASSUME NEW p \in Parties, NEW c \in Contexts PROVE 1 .. At(p, c) - 1 = {}
    <3>1. At(p, c) = 0 \/ At(p, c) = 1 BY <1>4
    <3> HIDE DEF At
    <3> QED BY <3>1
  <2> QED BY <2>1 DEF TraceInv
<1>10. StreamInv
  <2>1. \A p \in Parties : /\ RootState(p).pubCtr <= RootState(p).pubCtr
                           /\ RootState(p).r0Ctr <= RootState(p).r0Ctr
                           /\ RootState(p).r1Ctr <= RootState(p).r1Ctr
    BY DEF RootState
  <2> QED BY <1>6, <2>1 DEF StreamInv
<1>11. HeadInv
  <2>1. \A p \in Parties :
          /\ RootState(p).pub # <<>> /\ RootState(p).pub[1] = N
          /\ RootState(p).self # <<>> /\ RootState(p).self[1] = p
          /\ RootState(p).next # <<>> /\ RootState(p).next[1] = NextRank(p)
    BY DEF RootState
  <2> QED BY <1>6, <2>1 DEF HeadInv
<1>12. SeedInv BY <1>4 DEF SeedInv
<1>13. \A p, q \in Parties, c \in Contexts : \A i \in Common(p, q, c) :
         trace[p][c][i] = RootState(p) /\ trace[q][c][i] = RootState(q)
  <2> SUFFICES ASSUME NEW p \in Parties, NEW q \in Parties, NEW c \in Contexts,
                      NEW i \in Common(p, q, c)
               PROVE  trace[p][c][i] = RootState(p) /\ trace[q][c][i] = RootState(q)
    OBVIOUS
  <2>1. At(p, c) \in Nat /\ At(q, c) \in Nat BY <1>4
  <2>2. i \in 1 .. At(p, c) /\ i \in 1 .. At(q, c) BY <2>1 DEF Common
  <2> QED BY <1>6, <2>2
<1>14. PublAgree
  <2>1. \A p \in Parties : RootState(p).pub = <<N>> /\ RootState(p).pubCtr = 0
    BY DEF RootState
  <2> HIDE DEF At
  <2> QED BY ZenonT(60), <1>13, <2>1 DEF PublAgree
<1>15. PrssPaired
  <2> SUFFICES ASSUME NEW p \in Parties, NEW c \in Contexts,
                      NEW i \in Common(p, NextRank(p), c)
               PROVE  /\ trace[p][c][i].next = trace[NextRank(p)][c][i].self
                      /\ trace[p][c][i].r1Ctr = trace[NextRank(p)][c][i].r0Ctr
    BY DEF PrssPaired
  <2>1. PICK q \in Parties : q = NextRank(p) BY NextIsOther
  <2>2. trace[p][c][i] = RootState(p) /\ trace[q][c][i] = RootState(q) BY <1>13, <2>1
  <2>3. RootState(p).next = <<q>> /\ RootState(p).r1Ctr = 0 BY <2>1 DEF RootState
  <2>4. RootState(q).self = <<q>> /\ RootState(q).r0Ctr = 0 BY DEF RootState
  <2> QED BY <2>1, <2>2, <2>3, <2>4
<1> QED BY <1>5, <1>7, <1>8, <1>9, <1>10, <1>11, <1>12, <1>14, <1>15 DEF IInv

LEMMA NextIInv == IInv /\ [Next]_vars => IInv'
<1> SUFFICES ASSUME IInv, [Next]_vars PROVE IInv' OBVIOUS
<1>1. TypeOK' BY TypeStep
<1>2. CASE trace' = trace
  <2>1. BirthInv' BY <1>2 DEF IInv, BirthInv
  <2>2. OriginInv' BY <1>2 DEF IInv, OriginInv
  <2>3. TraceInv' BY <1>2 DEF IInv, TraceInv
  <2>4. StreamInv' BY <1>2 DEF IInv, StreamInv
  <2>5. HeadInv'
    <3> HIDE DEF NextRank, Parties
    <3> QED BY <1>2 DEF IInv, HeadInv
  <2>6. SeedInv' BY <1>2 DEF IInv, SeedInv
  <2>7. PublAgree' BY ZenonT(60), <1>2 DEF IInv, PublAgree, Common
  <2>8. PrssPaired' BY ZenonT(60), <1>2 DEF IInv, PrssPaired, Common
  <2> QED BY <1>1, <2>1, <2>2, <2>3, <2>4, <2>5, <2>6, <2>7, <2>8 DEF IInv
<1>3. CASE \E p \in Parties, c \in Contexts : Grows(p, c)
  BY <1>1, <1>3, BirthStep, OriginStep, TraceStep, StreamStep, HeadStep, SeedStep,
     PublStep, PrssStep DEF IInv
<1> QED BY <1>2, <1>3, NextGrows

(* The inductive invariant holds for every number of parties, every set of *)
(* contexts and every script.                                              *)
THEOREM Invariance == Spec => []IInv
<1>1. Init => IInv BY InitIInv
<1>2. IInv /\ [Next]_vars => IInv' BY NextIInv
<1> QED BY <1>1, <1>2, PTL DEF Spec

(* Whatever contexts are forked and however their threads interleave, all  *)
(* parties draw the same public randomness.                                *)
THEOREM PublicIsPublic == Spec => []PublAgree
<1>1. IInv => PublAgree BY DEF IInv
<1> QED BY <1>1, Invariance, PTL

(* And r1 of a party is r0 of its next party, request by request.          *)
THEOREM PrssIsPaired == Spec => []PrssPaired
<1>1. IInv => PrssPaired BY DEF IInv
<1> QED BY <1>1, Invariance, PTL

(* Blocks of different seeds differ, and so do those drawn earlier and     *)
(* later of the same seed.                                                 *)
LEMMA OtherSeed ==
  ASSUME NEW s, NEW t, NEW a, NEW b, NEW x, NEW y, s # t
  PROVE  Blocks(s, a, b) \cap Blocks(t, x, y) = {}
BY DEF Blocks

LEMMA LaterBlocks ==
  ASSUME NEW s, NEW a \in Nat, NEW b \in Nat, NEW x \in Nat, NEW y \in Nat, b <= x
  PROVE  /\ Blocks(s, a, b) \cap Blocks(s, x, y) = {}
         /\ Blocks(s, x, y) \cap Blocks(s, a, b) = {}
BY DEF Blocks

(* What a request draws, in terms of the context's seeds.                  *)
DrawnFrom(p, c, i) ==
  LET s == trace[p][c][i]
      t == trace[p][c][i + 1]
      o == trace[p][c][1]
  IN  /\ Drawn(p, c, i) = Blocks(o.pub, s.pubCtr, t.pubCtr)
           \cup Blocks(o.self, s.r0Ctr, t.r0Ctr) \cup Blocks(o.next, s.r1Ctr, t.r1Ctr)
      /\ s \in PrgStates /\ t \in PrgStates
      /\ o.pub # <<>> /\ o.pub[1] = N /\ o.self # <<>> /\ o.self[1] = p
      /\ o.next # <<>> /\ o.next[1] = NextRank(p)

LEMMA DrawnIs ==
  ASSUME IInv, NEW p \in Parties, NEW c \in Contexts, NEW i \in 1 .. At(p, c) - 1
  PROVE  DrawnFrom(p, c, i)
<1>1. At(p, c) \in Nat BY Typing
<1>2. i \in 1 .. At(p, c) /\ i + 1 \in 1 .. At(p, c) /\ 1 \in 1 .. At(p, c) BY <1>1
<1>3. /\ trace[p][c][i].pub = trace[p][c][1].pub
      /\ trace[p][c][i].self = trace[p][c][1].self
      /\ trace[p][c][i].next = trace[p][c][1].next
  BY <1>2 DEF IInv, StreamInv
<1>4. trace[p][c][i] \in PrgStates /\ trace[p][c][i + 1] \in PrgStates BY <1>2, Typing
<1>5. LET o == trace[p][c][1]
      IN  /\ o.pub # <<>> /\ o.pub[1] = N /\ o.self # <<>> /\ o.self[1] = p
          /\ o.next # <<>> /\ o.next[1] = NextRank(p)
  BY <1>2 DEF IInv, HeadInv
<1> QED BY <1>3, <1>4, <1>5 DEF Drawn, DrawnFrom

(* The three streams of a party have nothing in common, nor do those of    *)
(* two of its contexts.                                                    *)
LEMMA SeedsApart ==
  ASSUME IInv, NEW p \in Parties, NEW c \in Contexts, NEW d \in Contexts,
         NEW i \in 1 .. At(p, c) - 1, NEW j \in 1 .. At(p, d) - 1
  PROVE  LET s == trace[p][c][1]
             t == trace[p][d][1]
         IN  /\ s.pub # t.self /\ s.pub # t.next /\ s.self # t.pub
             /\ s.self # t.next /\ s.next # t.pub /\ s.next # t.self
             /\ c # d => s.pub # t.pub /\ s.self # t.self /\ s.next # t.next
<1>1. LET s == trace[p][c][1]
      IN  s.pub[1] = N /\ s.self[1] = p /\ s.next[1] = NextRank(p)
  <2>1. DrawnFrom(p, c, i) BY DrawnIs
  <2> QED BY <2>1 DEF DrawnFrom
<1>2. LET t == trace[p][d][1]
      IN  t.pub[1] = N /\ t.self[1] = p /\ t.next[1] = NextRank(p)
  <2>1. DrawnFrom(p, d, j) BY DrawnIs
  <2> QED BY <2>1 DEF DrawnFrom
<1>3. N # p /\ N # NextRank(p) /\ NextRank(p) # p BY NextIsOther
<1>4. Live(p, c) /\ Live(p, d)
  <2>1. At(p, c) \in Nat /\ At(p, d) \in Nat BY Typing
  <2>2. At(p, c) > 0 /\ At(p, d) > 0 BY <2>1
  <2> QED BY <2>2, Typing
<1>5. LET s == trace[p][c][1]
          t == trace[p][d][1]
      IN  c # d => s.pub # t.pub /\ s.self # t.self /\ s.next # t.next
  BY <1>4 DEF IInv, SeedInv
<1> HIDE DEF NextRank
<1> QED BY <1>1, <1>2, <1>3, <1>5

(* No block of randomness is drawn twice.                                  *)
LEMMA NeverReused == IInv => NoReuse
<1> SUFFICES ASSUME IInv, NEW p \in Parties, NEW c \in Contexts, NEW d \in Contexts,
                    NEW i \in 1 .. At(p, c) - 1, NEW j \in 1 .. At(p, d) - 1,
                    <<c, i>> # <<d, j>>
             PROVE  Drawn(p, c, i) \cap Drawn(p, d, j) = {}
  BY DEF NoReuse
<1> DEFINE o == trace[p][c][1]
           s == trace[p][c][i]
           t == trace[p][c][i + 1]
<1>1. /\ o = trace[p][c][1] /\ s = trace[p][c][i] /\ t = trace[p][c][i + 1]
      /\ s \in PrgStates /\ t \in PrgStates
      /\ Drawn(p, c, i) = Blocks(o.pub, s.pubCtr, t.pubCtr)
           \cup Blocks(o.self, s.r0Ctr, t.r0Ctr) \cup Blocks(o.next, s.r1Ctr, t.r1Ctr)
  <2>1. DrawnFrom(p, c, i) BY DrawnIs
  <2> QED BY <2>1 DEF DrawnFrom
<1> HIDE DEF o, s, t
<1> DEFINE r == trace[p][d][1]
           u == trace[p][d][j]
           v == trace[p][d][j + 1]
<1>2. /\ r = trace[p][d][1] /\ u = trace[p][d][j] /\ v = trace[p][d][j + 1]
      /\ u \in PrgStates /\ v \in PrgStates
      /\ Drawn(p, d, j) = Blocks(r.pub, u.pubCtr, v.pubCtr)
           \cup Blocks(r.self, u.r0Ctr, v.r0Ctr) \cup Blocks(r.next, u.r1Ctr, v.r1Ctr)
  <2>1. DrawnFrom(p, d, j) BY DrawnIs
  <2> QED BY <2>1 DEF DrawnFrom
<1>3. /\ o.pub # r.self /\ o.pub # r.next /\ o.self # r.pub
      /\ o.self # r.next /\ o.next # r.pub /\ o.next # r.self
      /\ c # d => o.pub # r.pub /\ o.self # r.self /\ o.next # r.next
  BY SeedsApart DEF o
<1> HIDE DEF r, u, v
<1>4. /\ Blocks(o.pub, s.pubCtr, t.pubCtr) \cap Blocks(r.self, u.r0Ctr, v.r0Ctr) = {}
      /\ Blocks(o.pub, s.pubCtr, t.pubCtr) \cap Blocks(r.next, u.r1Ctr, v.r1Ctr) = {}
      /\ Blocks(o.self, s.r0Ctr, t.r0Ctr) \cap Blocks(r.pub, u.pubCtr, v.pubCtr) = {}
      /\ Blocks(o.self, s.r0Ctr, t.r0Ctr) \cap Blocks(r.next, u.r1Ctr, v.r1Ctr) = {}
      /\ Blocks(o.next, s.r1Ctr, t.r1Ctr) \cap Blocks(r.pub, u.pubCtr, v.pubCtr) = {}
      /\ Blocks(o.next, s.r1Ctr, t.r1Ctr) \cap Blocks(r.self, u.r0Ctr, v.r0Ctr) = {}
  BY <1>3, OtherSeed
<1>5. /\ Blocks(o.pub, s.pubCtr, t.pubCtr) \cap Blocks(r.pub, u.pubCtr, v.pubCtr) = {}
      /\ Blocks(o.self, s.r0Ctr, t.r0Ctr) \cap Blocks(r.self, u.r0Ctr, v.r0Ctr) = {}
      /\ Blocks(o.next, s.r1Ctr, t.r1Ctr) \cap Blocks(r.next, u.r1Ctr, v.r1Ctr) = {}
  <2>1. CASE c # d BY <1>3, <2>1, OtherSeed
  <2>2. CASE c = d
    <3>1. /\ At(p, c) \in Nat /\ i \in 1 .. At(p, c) /\ i + 1 \in 1 .. At(p, c)
          /\ j \in 1 .. At(p, c) /\ j + 1 \in 1 .. At(p, c)
      BY SMTT(60), <2>2, Typing
    <3>2. o = r BY <1>1, <1>2, <2>2
    <3>3. /\ s.pubCtr \in Nat /\ s.r0Ctr \in Nat /\ s.r1Ctr \in Nat
          /\ t.pubCtr \in Nat /\ t.r0Ctr \in Nat /\ t.r1Ctr \in Nat
          /\ u.pubCtr \in Nat /\ u.r0Ctr \in Nat /\ u.r1Ctr \in Nat
          /\ v.pubCtr \in Nat /\ v.r0Ctr \in Nat /\ v.r1Ctr \in Nat
      BY <1>1, <1>2 DEF PrgStates
    <3>4. CASE i < j
      <4>1. t.pubCtr <= u.pubCtr /\ t.r0Ctr <= u.r0Ctr /\ t.r1Ctr <= u.r1Ctr
        BY <1>1, <1>2, <2>2, <3>1, <3>4 DEF IInv, StreamInv
      <4> QED BY ZenonT(60), <3>2, <3>3, <4>1, LaterBlocks
    <3>5. CASE j < i
      <4>1. v.pubCtr <= s.pubCtr /\ v.r0Ctr <= s.r0Ctr /\ v.r1Ctr <= s.r1Ctr
        BY <1>1, <1>2, <2>2, <3>1, <3>5 DEF IInv, StreamInv
      <4> QED BY <3>2, <3>3, <4>1, LaterBlocks
    <3> QED BY <2>2, <3>1, <3>4, <3>5
  <2> QED BY <2>1, <2>2
<1> QED BY <1>1, <1>2, <1>4, <1>5

(* Every block a party draws it draws once.                                *)
THEOREM RandomnessNeverReused == Spec => []NoReuse
BY Invariance, NeverReused, PTL
=============================================================================
