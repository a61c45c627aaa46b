------------------------------- MODULE Kernels -------------------------------
(***************************************************************************)
(* Parties that run a program of kernel calls under one of the protocols,  *)
(* and what the program's values are then: every kernel, whatever order    *)
(* the parties' turns come in, computes what the reference computes.       *)
(***************************************************************************)
EXTENDS Parties, Circuits

CONSTANT
  Jobs   \* what the parties are given to run: see Job

aby3 == INSTANCE Aby3
semi2k == INSTANCE Semi2k
securenn == INSTANCE SecureNN
spdz2k == INSTANCE Spdz2k
swift == INSTANCE Swift
ref2k == INSTANCE Ref2k
plain == INSTANCE Plain
hal == INSTANCE HalSort

-----------------------------------------------------------------------------
(* The code of a kernel, for a call of it; no code: it calls no others.    *)
Expand(c, program) ==
  CASE program.protocol = "aby3" -> aby3!Expand(c)
    [] program.protocol = "semi2k" -> semi2k!Expand(c, program.world)
    [] program.protocol = "securenn" -> securenn!Expand(c)
    [] program.protocol = "spdz2k" -> spdz2k!Expand(c)
    [] program.protocol = "swift" -> swift!Expand(c)
    [] program.protocol = "ref2k" -> NoCalls

(* A build has the calls so far, the number of the values there are then   *)
(* (the inputs and the results, numbered in this order), and the numbers   *)
(* and the types of those that have names.  The calls of a line are those  *)
(* of the code of its operation on values of these types, or of the code   *)
(* of its kernel, which does not ask for types, or its own.                *)
Named(names, results) ==
  [x \in {names[i] : i \in DOMAIN names} |->
     results[CHOOSE i \in DOMAIN names : names[i] = x]]
Emit(b, l, types) ==
  [b EXCEPT !.calls = Append(@, [op |-> l.op, par |-> l.par, first |-> b.n + 1,
                                 args |-> [i \in DOMAIN l.of |-> b.names[l.of[i]]]]),
            !.n = @ + Len(l.to),
            !.names = Named(l.to, [i \in DOMAIN l.to |-> b.n + i]) @@ @,
            !.types = Named(l.to, types) @@ @]

Renamed(b, of, numbers, types) ==
  [b EXCEPT !.names = Named(of, numbers), !.types = Named(of, types)]
Results(b, done, l, out, types) ==
  [done EXCEPT !.names = Named(l.to, [i \in DOMAIN out |-> @[out[i]]]) @@ b.names,
               !.types = Named(l.to, types) @@ b.types]
Numbers(b, l) == [i \in DOMAIN l.of |-> b.names[l.of[i]]]
Types(b, l) == [i \in DOMAIN l.of |-> b.types[l.of[i]]]
Untyped(names) == [i \in DOMAIN names |-> hal!Unknown]
ResultTypes(l, types, program) ==
  IF Len(l.to) = 1 \/ l.op = "B2A_Disassemble"
  THEN [i \in DOMAIN l.to |-> hal!KernelType(l, types, program)]
  ELSE Untyped(l.to)
TypesIn(done, out) == [i \in DOMAIN out |-> done.types[out[i]]]

RECURSIVE Build(_, _, _), BuildAll(_, _, _)
BuildOperation(b, done, l, code) == Results(b, done, l, code.out, TypesIn(done, code.out))
BuildKernel(b, l, code, types, program) ==
  IF l.own \/ code = NoCalls THEN Emit(b, l, types)
  ELSE Results(b, BuildAll(Renamed(b, code.of, Numbers(b, l), Untyped(l.of)), code.lines, program),
               l, code.out, types)
BuildBy(b, l, code, types, program) ==
  IF code = NoCalls
  THEN BuildKernel(b, l, Expand(l, program), ResultTypes(l, types, program), program)
  ELSE BuildOperation(b,
         BuildAll(Renamed(b, code.of, Numbers(b, l), types), code.lines, program), l, code)
BuildTyped(b, l, types, program) ==
  BuildBy(b, l, hal!HalSortExpand(l, types, program), types, program)
Build(b, l, program) == BuildTyped(b, l, Types(b, l), program)
BuildAll(b, lines, program) ==
  LET half == Len(lines) \div 2
      first == BuildAll(b, SubSeq(lines, 1, half), program)
  IN  CASE lines = <<>> -> b
        [] Len(lines) = 1 -> Build(b, lines[1], program)
        [] Len(lines) > 1 /\ first.n >= b.n ->
             BuildAll(first, SubSeq(lines, half + 1, Len(lines)), program)

(* A program is [protocol, world, inputs, calls], whose values have their  *)
(* numbers as names; a job is a program with the calls it makes, the       *)
(* numbers of its values among all and the contents of the streams.        *)
Job(program, tape) ==
  LET inputs == [i \in DOMAIN program.inputs |-> i]
      lines == [j \in DOMAIN program.calls |->
                  Line(<<Len(inputs) + j>>, program.calls[j].op,
                       program.calls[j].par, program.calls[j].args)]
      types == [i \in DOMAIN inputs |-> hal!TypeOfInput(program.inputs[i])]
      b == BuildAll([calls |-> <<>>, n |-> Len(inputs), names |-> inputs, types |-> types],
                    lines, program)
  IN  [program |-> program, tape |-> tape, world |-> program.world, calls |-> b.calls,
       outs |-> [i \in 1 .. Len(inputs) + Len(lines) |-> b.names[i]]]

Share(p, seed, v) ==
  CASE job.program.protocol = "aby3" -> aby3!toShares(p, seed, v)
    [] job.program.protocol = "semi2k" -> semi2k!toShares(p, seed, v)
    [] job.program.protocol = "securenn" -> securenn!toShares(p, seed, v)
    [] job.program.protocol = "spdz2k" -> spdz2k!toShares(p, seed, v)
    [] job.program.protocol = "swift" -> swift!toShares(p, seed, v)
    [] job.program.protocol = "ref2k" -> ref2k!toShares(p, v)
InputSeed(i) == 50 + 2 * i
Init ==
  /\ job \in Jobs
  /\ at = [p \in Party |-> 1]
  /\ turn = [p \in Party |-> 0]
  /\ kept = [p \in Party |-> Nothing]
  /\ regs = [p \in Party |-> [i \in DOMAIN job.program.inputs |->
               Share(p, InputSeed(i), job.program.inputs[i])]]
  /\ drawn = [p \in Party |-> NoDraw]
  /\ chan = [p \in Party |-> [q \in Party |-> <<>>]]
  /\ astray = {}

Step(p) ==
  \/ MakeP(p)
  \/ plain!Kernel(p)
  \/ job.program.protocol = "aby3" /\ aby3!Kernel(p)
  \/ job.program.protocol = "semi2k" /\ semi2k!Kernel(p)
  \/ job.program.protocol = "securenn" /\ securenn!Kernel(p)
  \/ job.program.protocol = "spdz2k" /\ spdz2k!Kernel(p)
  \/ job.program.protocol = "swift" /\ swift!Kernel(p)
  \/ job.program.protocol = "ref2k" /\ ref2k!Kernel(p)

Next ==
  \/ \E p \in Party : Step(p)
  \/ Finished /\ UNCHANGED vars

Spec == Init /\ [][Next]_vars

-----------------------------------------------------------------------------
(* The value that a register of all parties holds, together.               *)
Total(r, F(_, _)) ==
  FoldLeft(F, regs[0][r].s[1], [p \in 1 .. job.world - 1 |-> regs[p][r].s[1]])
Value(r) ==
  LET s == regs[0][r] IN
  CASE s.type \in {"A", "B"} /\ Len(s.s) = 3 -> swift!fromShares(s, regs[1][r])
    [] s.type = "A" /\ Len(s.s) < 3 -> Total(r, LAMBDA x, y : x ++ y)
    [] s.type = "Bits" ->
         LET odd(q, i) == [j \in Bits |-> regs[q][r].s[1][i][j] % 2]
         IN  [i \in DOMAIN s.s[1] |->
                FoldSet(LAMBDA q, x : Xor[x, FromBits(odd(q, i))], 0, Party)]
    [] s.type = "B" /\ Len(s.s) < 3 -> Total(r, LAMBDA x, y : x ## y)
    [] s.type \in {"P", "S"} -> s.s[1]
    [] s.type = "V" -> regs[s.owner][r].s[1]
    [] s.type = "M" -> Total(r, LAMBDA x, y : applyPerm(x, y))
    [] s.type = "invM" -> InversePerm(Total(r, LAMBDA x, y : applyPerm(y, x)))

Known == 1 .. Min({Len(regs[p]) : p \in Party})

(* The values all parties have are those of a run of the reference: no     *)
(* order of the parties' turns, no draw of the streams and no wrap of a    *)
(* share changes what a kernel computes.                                   *)
Programs == {j.program : j \in Jobs}
Reference == INSTANCE Reference WITH
  Programs <- Programs,
  program <- job.program,
  vals <- [j \in 1 .. Cardinality({i \in DOMAIN job.outs : job.outs[i] \in Known})
             |-> Value(job.outs[j])]

(* The results of the last call that all parties have made.  Registers     *)
(* never change: it is enough to look at a value when all have got it.     *)
Newest ==
  LET done == Min({at[p] : p \in Party}) - 1
  IN  IF done = 0 THEN DOMAIN job.program.inputs
      ELSE {r \in Known : r >= job.calls[done].first}

(* Neighbours agree on the share they have in common, everyone on what is  *)
(* public, and a Boolean value has no more bits than its type says.  What  *)
(* swift's RandA returns is hidden by another gamma at each party.         *)
Alike(mine, nexts, value) ==
  /\ mine.type = nexts.type
  /\ mine.type \in {"A", "B", "M", "rss"} /\ Len(mine.s) = 2 => mine.s[2] = nexts.s[1]
  /\ mine.type \in {"P", "S", "Opened"} => mine.s = nexts.s
  /\ mine.type \in {"B", "Bits"} =>
       /\ mine.nbits = nexts.nbits
       /\ \A i \in DOMAIN mine.s[1] : value[i] < Pow2[mine.nbits]
Consistent ==
  \A r \in Newest :
    /\ \A p \in Party : Alike(regs[p][r], regs[NextRank(p)][r], Value(r))
    /\ job.program.protocol = "swift" =>
         swift!Agreed(regs[0][r], regs[1][r], regs[2][r],
           \A i \in DOMAIN job.program.calls : job.program.calls[i].op # "RandA")

(* The parties' shares of the product of an authenticated secret by the    *)
(* key are that product, as far as a check looks: in its bits and S more.  *)
(* Whatever is opened later passes the check then.                         *)
Keyed(r) ==
  LET mine == regs[0][r]
      all(Of(_)) == MapThenSumSet(LAMBDA q : Of(regs[q][r]), Party)
      Fits(val, mac, bits) == (val * spdz2k!GlobalKey - mac) % Pow2[bits] = 0
  IN  /\ mine.type = "A" /\ mine.auth => \A i \in DOMAIN mine.mac :
           Fits(all(LAMBDA x : x.s[1][i]), all(LAMBDA x : x.mac[i]), K + spdz2k!S)
      /\ mine.type = "Bits" => \A i \in DOMAIN mine.mac, j \in 0 .. mine.nbits - 1 :
           Fits(all(LAMBDA x : x.s[1][i][j]), all(LAMBDA x : x.mac[i][j]), 1 + spdz2k!S)
Authentic ==
  job.program.protocol = "spdz2k" => \A r \in Newest : Keyed(r)

(* Two parties between the same calls have drawn as much from the stream   *)
(* they have in common, and all as much from the public one: whatever role *)
(* a party had, the next masks cancel out.                                 *)
StreamsPaired ==
  \A p \in Party :
    LET q == NextRank(p)
    IN  at[p] = at[q] /\ turn[p] = 0 /\ turn[q] = 0
          => /\ drawn[p].next = drawn[q].self
             /\ drawn[p].publ = drawn[q].publ
             /\ drawn[p].beaver = drawn[q].beaver

(* No receive takes a message that was sent for another, and none is left. *)
NothingAstray ==
  /\ astray = {}
  /\ Finished => \A p, q \in Party : chan[p][q] = <<>>
=============================================================================
