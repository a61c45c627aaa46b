------------------------------ MODULE Parties -------------------------------
(***************************************************************************)
(* The parties of a protocol while they run its kernels.  Every party runs *)
(* the same sequence of kernel calls on its own shares, at its own speed:  *)
(* it draws from streams it has in common with its neighbours, sends       *)
(* messages on first-in first-out links and waits for those of the others. *)
(* A call is a sequence of turns, cut where the party waits.               *)
(*                                                                         *)
(* This module has the state and the moves all protocols have in common:   *)
(* mpc/common/communicator.{h,cc} and the fills of mpc/common/prg_state.h. *)
(***************************************************************************)
EXTENDS Ring2k, TLC

VARIABLES
  job,    \* what is run: protocol, number of parties, kernel calls, tape
  at,     \* the call a party is in
  turn,   \* its turn in this call
  kept,   \* what a party has kept from the earlier turns of this call
  regs,   \* the results of its calls so far, after its inputs
  drawn,  \* the counters of the streams a party draws from
  chan,   \* the messages between two parties
  astray  \* the messages taken by a receive that asked for another

vars == <<job, at, turn, kept, regs, drawn, chan, astray>>

Party == 0 .. job.world - 1
NextRank(p) == (p + 1) % job.world
PrevRank(p) == (p - 1) % job.world

Call(p) == job.calls[at[p]]
Par(p) == Call(p).par
Arg(p, i) == regs[p][Call(p).args[i]]
Left(p, i) == Arg(p, i).s[1]      \* getFirstShare
Right(p, i) == Arg(p, i).s[2]     \* getSecondShare

(* Shares by their type: arithmetic, Boolean with its number of bits in    *)
(* storage of w, public, and private to an owner.                          *)
AShr(s) == [type |-> "A", s |-> s]
BShrIn(w, n, s) ==
  [type |-> "B", nbits |-> n, s |-> [i \in DOMAIN s |-> Cast(s[i], w)]]
Pub(x) == [type |-> "P", s |-> <<x>>]
Priv(owner, s) == [type |-> "V", owner |-> owner, s |-> s]

-----------------------------------------------------------------------------
(* The streams.  Party p has its own stream in common with the party       *)
(* before it, who calls it the next one's; the public stream is everyone's *)
(* and the private one nobody else's.  A stream's words are a function of  *)
(* its seed, the counter, the word's place and its width.                  *)
Mix(t) == LET u == t % 32749 IN (u * u + 7 * u + 3) % 32749
Word(seed, counter, i, w) ==
  (Mix(Mix(131 * seed + 17 * counter + job.tape) + 977 * w + 31 * i) \div 8)
    % Pow2[w]
Words(seed, counter, x, w) == [i \in DOMAIN x |-> Word(seed, counter, i, w)]

(* genRandomPerm: an order of the places of x, forwards or backwards from  *)
(* one of them.                                                            *)
Order(seed, counter, x) ==
  LET step == IF Word(seed, counter, 1, K) % 2 = 0 THEN 1 ELSE Len(x) - 1
  IN  [i \in DOMAIN x |->
         ((i - 1) * step + Word(seed, counter, 2, 2 * K)) % Len(x)]

SelfSeed(p) == p + 1
PublSeed == 20
PrivSeed(p) == 30 + p
BeaverSeed(p) == 40 + p      \* of a party and the one who deals

(* The blocks that a fill takes with as many words as x has elements.      *)
Blocks(x, w) == (Len(x) * w + BlockBits - 1) \div BlockBits

(* What a turn takes from the streams.                                     *)
NoDraw == [self |-> 0, next |-> 0, publ |-> 0, priv |-> 0, beaver |-> 0]
First(n) == [NoDraw EXCEPT !.self = n]
(* Mutant: the half of the pair that is not used does not advance.         *)
SecondUnused(n) == NoDraw
Second(n) == [NoDraw EXCEPT !.next = n]
Both(n) == [NoDraw EXCEPT !.self = n, !.next = n]
Publ(n) == [NoDraw EXCEPT !.publ = n]
Own(n) == [NoDraw EXCEPT !.priv = n]
Beaver(n) == [NoDraw EXCEPT !.beaver = n]
a \uplus b == [s \in DOMAIN a |-> a[s] + b[s]]

(* The words like x of a fill, after the blocks the same turn took before. *)
FillSelf(p, before, x, w) ==
  Words(SelfSeed(p), drawn[p].self + before, x, w)
FillNext(p, before, x, w) ==
  Words(SelfSeed(NextRank(p)), drawn[p].next + before, x, w)
FillPubl(p, before, x, w) == Words(PublSeed, drawn[p].publ + before, x, w)
FillPriv(p, before, x, w) == Words(PrivSeed(p), drawn[p].priv + before, x, w)

(* Who plays which role, from one public word: the first is pivot % 3.     *)
Pivot(p) == Word(PublSeed, drawn[p].publ, 1, 2 * K) % 3

-----------------------------------------------------------------------------
(* A turn: the words it draws, the messages it waits for (by sender, the   *)
(* tags it asks for) and those it sends (by receiver, with their tags).    *)
Msg(tag, x) == [tag |-> tag, x |-> x]
Nothing == <<>>
To(q, msgs) == (q :> msgs)
From(q, tags) == (q :> tags)
Others(p) == Party \ {p}
ToAll(p, msgs) == [q \in Others(p) |-> msgs]
FromAll(p, tags) == [q \in Others(p) |-> tags]

Calls(p, op) == p \in Party /\ at[p] <= Len(job.calls) /\ Call(p).op = op
Turn(p, op, n) == Calls(p, op) /\ turn[p] = n
Arrived(p, waits) == \A q \in DOMAIN waits : Len(chan[q][p]) >= Len(waits[q])
Took(p, q, i) == chan[q][p][i].x

Exchange(p, draw, waits, sends) ==
  /\ Arrived(p, waits)
  /\ drawn' = [drawn EXCEPT ![p] = @ \uplus draw]
  /\ chan' = [q \in Party |-> [r \in Party |->
       IF q = p /\ r \in DOMAIN sends THEN chan[q][r] \o sends[r]
       ELSE IF r = p /\ q \in DOMAIN waits
            THEN SubSeq(chan[q][r], Len(waits[q]) + 1, Len(chan[q][r]))
       ELSE chan[q][r]]]
  /\ astray' = astray \cup
       {<<at[p], p, q>> : q \in {r \in DOMAIN waits :
          \E i \in DOMAIN waits[r] : chan[r][p][i].tag # waits[r][i]}}
  /\ UNCHANGED job

(* The turn is not the last of its call, and the party keeps some of it.   *)
Pass(p, draw, waits, sends, keep) ==
  /\ Exchange(p, draw, waits, sends)
  /\ turn' = [turn EXCEPT ![p] = @ + 1]
  /\ kept' = [kept EXCEPT ![p] = keep]
  /\ UNCHANGED <<at, regs>>

(* The turn is the last: the call returns its results.                     *)
Return(p, draw, waits, sends, results) ==
  /\ Exchange(p, draw, waits, sends)
  /\ turn' = [turn EXCEPT ![p] = 0]
  /\ kept' = [kept EXCEPT ![p] = Nothing]
  /\ at' = [at EXCEPT ![p] = @ + 1]
  /\ regs' = [regs EXCEPT ![p] = @ \o results]

(* A kernel without messages, and one that gives its result z to the party *)
(* before it and takes the one of the party after it.                      *)
Alone(p, op, draw, result) ==
  Turn(p, op, 0) /\ Return(p, draw, Nothing, Nothing, <<result>>)
Local(p, op, result) == Alone(p, op, NoDraw, result)

Rotate(p, op, tag, draw, z, Result(_, _)) ==
  \/ /\ Turn(p, op, 0)
     /\ Pass(p, draw, Nothing, To(PrevRank(p), <<Msg(tag, z)>>), z)
  \/ /\ Turn(p, op, 1)
     /\ Arrived(p, From(NextRank(p), <<tag>>))
     /\ Return(p, NoDraw, From(NextRank(p), <<tag>>), Nothing,
               <<Result(kept[p], Took(p, NextRank(p), 1))>>)

(* Communicator::allReduce: everyone gives everyone z and adds up what it   *)
(* gets; the parties keep what they need for their results.                *)
Reduced(p, z, Add(_, _)) ==
  FoldSet(LAMBDA q, t : Add(t, Took(p, q, 1)), z, Others(p))
AllReduce(p, op, tag, draw, z, keep, Add(_, _), Result(_, _)) ==
  \/ /\ Turn(p, op, 0)
     /\ Pass(p, draw, Nothing, ToAll(p, <<Msg(tag, z)>>), [z |-> z, more |-> keep])
  \/ /\ Turn(p, op, 1)
     /\ Arrived(p, FromAll(p, <<tag>>))
     /\ Return(p, NoDraw, FromAll(p, <<tag>>), Nothing,
               Result(kept[p].more, Reduced(p, kept[p].z, Add)))
Plus(x, y) == x ++ y
XorAll(x, y) == x ## y

(* Communicator::reduce: the root has the sum of what all give it.         *)
GatherWith(p, op, tag, draw, root, z, Add(_, _), Result(_)) ==
  /\ Turn(p, op, 0)
  /\ IF p = root
     THEN /\ Arrived(p, FromAll(p, <<tag>>))
          /\ Return(p, draw, FromAll(p, <<tag>>), Nothing,
                    <<Result(Reduced(p, z, Add))>>)
     ELSE Return(p, draw, Nothing, To(root, <<Msg(tag, z)>>), <<Result(z)>>)
Gather(p, op, tag, root, z, Result(_)) ==
  GatherWith(p, op, tag, NoDraw, root, z, Plus, Result)

(* Communicator::bcast: the owner of a value tells all others.             *)
Broadcast(p, op, Result(_)) ==
  LET owner == Arg(p, 1).owner
  IN  /\ Turn(p, op, 0)
      /\ IF p = owner
         THEN Return(p, NoDraw, Nothing, ToAll(p, <<Msg(op, Left(p, 1))>>),
                     <<Result(Left(p, 1))>>)
         ELSE /\ Arrived(p, From(owner, <<op>>))
              /\ Return(p, NoDraw, From(owner, <<op>>), Nothing,
                        <<Result(Took(p, owner, 1))>>)
(* A value kept for one party.                                            *)
For(p, op) ==
  LET owner == Par(p).owner
  IN  Local(p, op, Priv(owner, IF p = owner THEN <<Left(p, 1)>> ELSE <<>>))
(* spu::vmap: the pairs of operands of a call as one longer pair, of the   *)
(* same types, and the parts of its result.                                *)
Pairs(p) == Len(Call(p).args) \div 2
SameTypes(p, Type(_)) ==
  \A i \in 1 .. Pairs(p) :
    Type(i) = Type(1) /\ Type(Pairs(p) + i) = Type(Pairs(p) + 1)
Joined(p, first, h) ==
  FlattenSeq([i \in 1 .. Pairs(p) |-> Arg(p, first + i).s[h]])
Part(p, z, i) ==
  LET size == Len(Left(p, 1)) IN SubSeq(z, (i - 1) * size + 1, i * size)

(* make_p: a constant in the shape of another value, or in one given.      *)
Shape(numel) == [i \in 1 .. numel |-> 0]
MakeP(p) ==
  LET like == IF Call(p).args = <<>> THEN Shape(Par(p).numel) ELSE Left(p, 1)
  IN  Local(p, "MakeP", Pub(Fill(like, Par(p).value)))

(* Everyone has all results.                                               *)
Finished == \A p \in Party : at[p] > Len(job.calls)
=============================================================================
