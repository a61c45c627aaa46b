------------------------------ MODULE PrgState ------------------------------
(***************************************************************************)
(* The correlated randomness of the parties.  Every context (SPUContext)   *)
(* holds a PrgState: a public seed all parties share, a seed of its own    *)
(* shared with the previous party and the seed of the next party, each     *)
(* with a counter of the blocks drawn so far.  No message is exchanged     *)
(* when a party draws: the parties agree because they draw the same number *)
(* of blocks in the same order, in every context.  Contexts are forked for *)
(* the operations of a block that run in parallel, the slices of a tensor  *)
(* and the concurrent halves of a kernel, and then draw independently.     *)
(*                                                                         *)
(* What the kernels ask of the contexts is the constant Script: the same   *)
(* program at every party, whose draws of a seed may be left out at the    *)
(* parties that do not use it (GenPrssCtrl).  A party runs its contexts in *)
(* any interleaving, and no party waits for another except in a fork.      *)
(*                                                                         *)
(* A seed is the path that led to it: the party that chose it, then the    *)
(* counters at which it was drawn from its parent's stream.  This is AES   *)
(* taken as a random function: different blocks have different values.     *)
(* The private stream, fresh in every context, is left out.                *)
(***************************************************************************)
EXTENDS Integers, Sequences

CONSTANTS
  N,         \* number of parties
  Contexts,  \* contexts of the run
  Root,      \* the context the run starts with
  Script     \* Script[c]: the requests of the thread that runs context c

Parties == 0 .. N - 1

NextRank(p) == IF p = N - 1 THEN 0 ELSE p + 1

(* A request: blocks of the public stream, of the pair of PRSS streams     *)
(* (the first at the parties of first, the second at those of second), a   *)
(* pair of permutations, a fork, or the wait for a forked context's thread.*)
Requests == [op : {"publ", "prss", "perm", "fork", "join"}, blocks : Nat,
             first : SUBSET Parties, second : SUBSET Parties,
             child : Contexts]

IsFork(c, i, d) == Script[c][i].op = "fork" /\ Script[c][i].child = d

ASSUME PartiesAssumption == N \in Nat \ {0, 1}

ASSUME ScriptAssumption ==
  /\ Root \in Contexts
  /\ Script \in [Contexts -> Seq(Requests)]

(* A context is the result of one fork.                                    *)
ASSUME ForkAssumption ==
  /\ \A c \in Contexts : \A i \in DOMAIN Script[c] : ~IsFork(c, i, Root)
  /\ \A c, d, e \in Contexts :
       \A i \in DOMAIN Script[c], j \in DOMAIN Script[d] :
         IsFork(c, i, e) /\ IsFork(d, j, e) => c = d /\ i = j

(* What the kernels owe the streams: a party that draws from its own seed  *)
(* has a previous party that draws as much from its next seed.             *)
ASSUME PairedAssumption ==
  \A c \in Contexts : \A i \in DOMAIN Script[c] : \A p \in Parties :
    Script[c][i].op = "prss" =>
      (p \in Script[c][i].second <=> NextRank(p) \in Script[c][i].first)

VARIABLES
  spawned,  \* spawned[p]: contexts whose link party p has spawned
  trace     \* trace[p][c]: the values of c's PrgState at p, the last one is
            \* current: <<>> before the fork, then one more for each request

vars == <<spawned, trace>>
-----------------------------------------------------------------------------
(* FillPRand returns the counter after the blocks it has drawn.            *)
FillPRand(count, blocks) == count + blocks

(* ReplayShuffle of n numbers: how many blocks it takes depends on what it *)
(* draws, so it may differ between two seeds; here, by one.                *)
ReplayShuffle(seed, count, n) == count + n + ((seed[1] + count) % 2)

(* The public stream.                                                      *)
fillPubl(s, n) == [s EXCEPT !.pubCtr = FillPRand(@, n)]

(* Mutant: one counter for both seeds, advanced by every draw.             *)
fillPrssPairOneCounter(s, n, first, second) ==
  [s EXCEPT !.r0Ctr = IF first \/ second THEN FillPRand(@, n) ELSE @,
            !.r1Ctr = IF first \/ second THEN FillPRand(@, n) ELSE @]

(* The pair of PRSS streams: GenPrssCtrl is Both where first and second.   *)
fillPrssPair(s, n, first, second) ==
  [s EXCEPT !.r0Ctr = IF first THEN FillPRand(@, n) ELSE @,
            !.r1Ctr = IF second THEN FillPRand(@, n) ELSE @]

genPrssPermPair(s, n) ==
  [s EXCEPT !.r0Ctr = ReplayShuffle(s.self, @, n),
            !.r1Ctr = ReplayShuffle(s.next, @, n)]

(* The two halves of fork: what is left of the parent, and the child.      *)
Forked(s) == fillPrssPair(fillPubl(s, 1), 1, TRUE, TRUE)

(* Mutant: the child's public seed drawn from the party's own stream.      *)
ChildPublicFromSelf(s) ==
  [pub  |-> Append(s.self, s.r0Ctr), pubCtr |-> 0,
   self |-> Append(s.self, s.r0Ctr), r0Ctr  |-> 0,
   next |-> Append(s.next, s.r1Ctr), r1Ctr  |-> 0]

(* Mutant: the child goes on with the parent's public stream.              *)
ChildSamePublic(s) ==
  [pub  |-> s.pub, pubCtr |-> s.pubCtr,
   self |-> Append(s.self, s.r0Ctr), r0Ctr |-> 0,
   next |-> Append(s.next, s.r1Ctr), r1Ctr |-> 0]

Child(s) ==
  [pub  |-> Append(s.pub, s.pubCtr), pubCtr |-> 0,
   self |-> Append(s.self, s.r0Ctr), r0Ctr  |-> 0,
   next |-> Append(s.next, s.r1Ctr), r1Ctr  |-> 0]

(* Mutant: the parent's counters are not advanced by a fork.               *)
AfterForkUnadvanced(p, s, r) ==
  CASE r.op = "publ" -> fillPubl(s, r.blocks)
    [] r.op = "prss" -> fillPrssPair(s, r.blocks, p \in r.first, p \in r.second)
    [] r.op = "perm" -> genPrssPermPair(s, r.blocks)
    [] OTHER -> s

(* The PrgState of party p after a request.                                *)
After(p, s, r) ==
  CASE r.op = "publ" -> fillPubl(s, r.blocks)
    [] r.op = "prss" -> fillPrssPair(s, r.blocks, p \in r.first, p \in r.second)
    [] r.op = "perm" -> genPrssPermPair(s, r.blocks)
    [] r.op = "fork" -> Forked(s)
    [] r.op = "join" -> s
-----------------------------------------------------------------------------
(* The root: the sum of the seeds all parties gathered, the party's own    *)
(* seed, and the one its next party sent it.                               *)
RootState(p) ==
  [pub  |-> <<N>>, pubCtr |-> 0,
   self |-> <<p>>, r0Ctr  |-> 0,
   next |-> <<NextRank(p)>>, r1Ctr |-> 0]

Init ==
  /\ spawned = [p \in Parties |-> {Root}]
  /\ trace = [p \in Parties |->
                [c \in Contexts |-> IF c = Root THEN <<RootState(p)>> ELSE <<>>]]

Live(p, c) == trace[p][c] # <<>>

(* The request that context c makes next at party p, if any.               *)
At(p, c) == Len(trace[p][c])

Pending(p, c, op) == Live(p, c) /\ At(p, c) <= Len(Script[c])
                       /\ Script[c][At(p, c)].op = op

Finished(p, c) == At(p, c) = Len(Script[c]) + 1

(* The thread of context c goes on with the next request.                  *)
Advance(p, c) ==
  Append(trace[p][c], After(p, trace[p][c][At(p, c)], Script[c][At(p, c)]))

(* A kernel draws from a stream.                                           *)
Draw(p, c) ==
  /\ \E op \in {"publ", "prss", "perm"} : Pending(p, c, op)
  /\ trace' = [trace EXCEPT ![p][c] = Advance(p, c)]
  /\ UNCHANGED spawned

(* Mutant: a party spawns after those of lower rank have forked.           *)
SpawnLinkInTurn(p, c) ==
  /\ Pending(p, c, "fork")
  /\ LET d == Script[c][At(p, c)].child
     IN  /\ d \notin spawned[p]
         /\ \A q \in Parties : q < p => Live(q, d)
         /\ spawned' = [spawned EXCEPT ![p] = @ \cup {d}]
  /\ UNCHANGED trace

(* SPUContext::fork spawns a link for the new context, whose constructor   *)
(* sends the number of cores to all.                                       *)
SpawnLink(p, c) ==
  /\ Pending(p, c, "fork")
  /\ LET d == Script[c][At(p, c)].child
     IN  /\ d \notin spawned[p]
         /\ spawned' = [spawned EXCEPT ![p] = @ \cup {d}]
  /\ UNCHANGED trace

(* It then waits for theirs, and forks the states of the object.           *)
Fork(p, c) ==
  /\ Pending(p, c, "fork")
  /\ LET d == Script[c][At(p, c)].child
     IN  /\ \A q \in Parties : d \in spawned[q]
         /\ trace' = [trace EXCEPT
              ![p] = [@ EXCEPT ![c] = Advance(p, c),
                               ![d] = <<Child(trace[p][c][At(p, c)])>>]]
  /\ UNCHANGED spawned

(* The future of a forked context's thread is awaited.                     *)
Join(p, c) ==
  /\ Pending(p, c, "join")
  /\ Finished(p, Script[c][At(p, c)].child)
  /\ trace' = [trace EXCEPT ![p][c] = Advance(p, c)]
  /\ UNCHANGED spawned

Step(p, c) == Draw(p, c) \/ SpawnLink(p, c) \/ Fork(p, c) \/ Join(p, c)

Next == \E p \in Parties, c \in Contexts : Step(p, c)

Spec == Init /\ [][Next]_vars

Fairness == \A p \in Parties, c \in Contexts : WF_vars(Step(p, c))
-----------------------------------------------------------------------------
Seeds == Seq(Int)

PrgStates == [pub : Seeds, pubCtr : Nat, self : Seeds, r0Ctr : Nat,
              next : Seeds, r1Ctr : Nat]

(* The state is well typed, and no context is ahead of its script.         *)
TypeOK ==
  /\ spawned \in [Parties -> SUBSET Contexts]
  /\ trace \in [Parties -> [Contexts -> Seq(PrgStates)]]
  /\ \A p \in Parties, c \in Contexts : At(p, c) <= Len(Script[c]) + 1

(* Requests that both parties have made, and the values before each.       *)
Common(p, q, c) == 1 .. (IF At(p, c) < At(q, c) THEN At(p, c) ELSE At(q, c))

(* Public randomness is public: whatever the interleaving, a request finds *)
(* the public stream in the same place at every party, so genPubl returns  *)
(* the same values.                                                        *)
PublAgree ==
  \A p, q \in Parties, c \in Contexts : \A i \in Common(p, q, c) :
    /\ trace[p][c][i].pub = trace[q][c][i].pub
    /\ trace[p][c][i].pubCtr = trace[q][c][i].pubCtr

(* "r1 = next_party.r0": a request finds the next seed's stream of a party *)
(* where its next party has its own, in every context, whatever either has *)
(* drawn from its other stream.                                            *)
PrssPaired ==
  \A p \in Parties, c \in Contexts : \A i \in Common(p, NextRank(p), c) :
    /\ trace[p][c][i].next = trace[NextRank(p)][c][i].self
    /\ trace[p][c][i].r1Ctr = trace[NextRank(p)][c][i].r0Ctr

(* The blocks a request draws at a party.                                  *)
Blocks(seed, from, to) == {<<seed, k>> : k \in from .. to - 1}

Drawn(p, c, i) ==
  LET s == trace[p][c][i]
      t == trace[p][c][i + 1]
  IN  Blocks(s.pub, s.pubCtr, t.pubCtr) \cup Blocks(s.self, s.r0Ctr, t.r0Ctr)
        \cup Blocks(s.next, s.r1Ctr, t.r1Ctr)

(* No randomness is used twice: two requests of a party, of one context or *)
(* of two, never draw the same block, and what masks a value or seeds a    *)
(* child is drawn for nothing else.                                        *)
NoReuse ==
  \A p \in Parties, c, d \in Contexts :
    \A i \in 1 .. At(p, c) - 1, j \in 1 .. At(p, d) - 1 :
      <<c, i>> # <<d, j>> => Drawn(p, c, i) \cap Drawn(p, d, j) = {}

(* The inductive invariant.                                                *)
(*                                                                         *)
(* A context lives from its fork on, and its first value is what fork      *)
(* made of the parent's at the time.                                       *)
BirthInv ==
  \A p \in Parties, c \in Contexts : \A i \in DOMAIN Script[c] :
    Script[c][i].op = "fork" =>
      /\ Live(p, Script[c][i].child) <=> At(p, c) > i
      /\ At(p, c) > i => trace[p][Script[c][i].child][1] = Child(trace[p][c][i])

(* The root lives, and every other living context was forked.              *)
OriginInv ==
  \A p \in Parties :
    /\ Live(p, Root) /\ trace[p][Root][1] = RootState(p)
    /\ \A d \in Contexts : Live(p, d) /\ d # Root =>
         \E c \in Contexts : \E i \in DOMAIN Script[c] : IsFork(c, i, d) /\ At(p, c) > i

(* Every value follows from the one before by the request in between.      *)
TraceInv ==
  \A p \in Parties, c \in Contexts : \A i \in 1 .. At(p, c) - 1 :
    trace[p][c][i + 1] = After(p, trace[p][c][i], Script[c][i])

(* The seeds of a context stay, and its counters never go back.            *)
StreamInv ==
  \A p \in Parties, c \in Contexts : \A i, j \in 1 .. At(p, c) :
    LET s == trace[p][c][i]
        t == trace[p][c][j]
    IN  /\ s.pub = t.pub /\ s.self = t.self /\ s.next = t.next
        /\ i <= j => s.pubCtr <= t.pubCtr /\ s.r0Ctr <= t.r0Ctr /\ s.r1Ctr <= t.r1Ctr

(* A seed begins with the party that chose it, or with the parties' sum.   *)
HeadInv ==
  \A p \in Parties, c \in Contexts : \A i \in 1 .. At(p, c) :
    LET s == trace[p][c][i]
    IN  /\ s.pub # <<>> /\ s.pub[1] = N
        /\ s.self # <<>> /\ s.self[1] = p
        /\ s.next # <<>> /\ s.next[1] = NextRank(p)

(* Two contexts of a party never share a seed.                             *)
SeedInv ==
  \A p \in Parties, c, d \in Contexts :
    c # d /\ Live(p, c) /\ Live(p, d) =>
      /\ trace[p][c][1].pub # trace[p][d][1].pub
      /\ trace[p][c][1].self # trace[p][d][1].self
      /\ trace[p][c][1].next # trace[p][d][1].next

IInv == TypeOK /\ BirthInv /\ OriginInv /\ TraceInv /\ StreamInv
             /\ HeadInv /\ SeedInv /\ PublAgree /\ PrssPaired

(* Forks are a rendezvous and joins wait, but every thread finishes.       *)
Finishes == <>(\A p \in Parties, c \in Contexts : Finished(p, c))
=============================================================================
