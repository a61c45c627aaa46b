------------------------------- MODULE MpcApi -------------------------------
(***************************************************************************)
(* Which kernels an operation on values runs: mpc/api.cc and the dispatch  *)
(* of mpc/ab_api.cc.  It depends on the kinds of the values (arithmetic or *)
(* Boolean shares, private, public), on the bits and owners their types    *)
(* have, and on the kernels the protocol has registered.  None depends on  *)
(* what a party computes: an operation is code, as that of Circuits.       *)
(***************************************************************************)
EXTENDS Circuits

(* The type of a value: its kind, bits or owner, and number of elements.   *)
Ty(kind, n, numel) == [k |-> kind, n |-> n, numel |-> numel]
AType(numel) == Ty("A", K, numel)
BType(n, numel) == Ty("B", n, numel)
PType(n, numel) == Ty("P", n, numel)    \* n: no value has more bits
VType(owner, numel) == Ty("V", owner, numel)
IsA(t) == t.k = "A"
IsB(t) == t.k = "B"
hasSameOwner(t) == t[1].n = t[2].n
Unknown == Ty("unknown", 0, 0)   \* of what a kernel's own code computes

(* What a program gives the parties.                                       *)
TypeOfInput(v) ==
  Ty(v.type, CASE v.type = "B" -> v.nbits [] v.type = "V" -> v.owner
               [] v.type = "P" -> maxBitWidth(v.x) [] OTHER -> K, Len(v.x))

-----------------------------------------------------------------------------
(* The kernels of a protocol that an operation asks for: registered in     *)
(* semi2k/protocol.cc, aby3/protocol.cc and ref2k.cc.  None of these has   *)
(* the ones for a secret and a private operand that operations ask for.    *)
Ref2kKernels ==
  {"p2s", "s2p", "v2s", "s2v", "negate_s", "add_ss", "add_sp", "mul_ss", "mul_sp",
   "mmul_ss", "mmul_sp", "and_ss", "and_sp", "xor_ss", "xor_sp", "lshift_s",
   "rshift_s", "arshift_s", "bitrev_s", "trunc_s", "msb_s", "rand_s"}
SharedKernels ==
  {"square_a", "equal_aa", "equal_ap", "rand_perm_m", "perm_am", "perm_ap",
   "inv_perm_am", "inv_perm_ap"}
Semi2kKernels(world) ==
  SharedKernels \cup {"inv_perm_av", "b2a_disassemble"}
    \cup IF world = 2 THEN {"msb_a2b", "mul_a1b", "mul_vvs"} ELSE {}
Aby3Kernels == (SharedKernels \ {"square_a"}) \cup {"msb_a2b", "mul_a1b"}
Has(program, kernel) ==
  kernel \in CASE program.protocol = "ref2k" -> Ref2kKernels
               [] program.protocol = "semi2k" -> Semi2kKernels(program.world)
               [] program.protocol = "aby3" -> Aby3Kernels
               [] OTHER -> {}

(* trunc_a is bound to one of several kernels, by the configuration: what  *)
(* the defaults choose.                                                    *)
trunc_a(program) ==
  CASE program.protocol = "aby3" -> "TruncA"
    [] program.protocol = "semi2k" ->
         IF program.world > 2 THEN "TruncAPr" ELSE "TruncAPr2"

-----------------------------------------------------------------------------
(* The code of an operation: one call of another, on the same arguments or *)
(* in another order, and conversions before it.                            *)
Xs(t) == SubSeq(<<"x", "y", "z">>, 1, Len(t))
Do(op, par, t) == Code(Xs(t), << Line(<<"r">>, op, par, Xs(t)) >>, <<"r">>)
Swap(op, par) == Code(<<"x", "y">>, << Line(<<"r">>, op, par, <<"y", "x">>) >>, <<"r">>)
Constant(to, value, like) == Line(<<to>>, "make_p", [value |-> value], <<like>>)

_2a(x, t) ==
  IF IsB(t) THEN << Line(<<x>>, "B2A", [nbits |-> t.n], <<x>>) >> ELSE <<>>
_2b(x, t) == IF IsA(t) THEN << Let(x, "A2B", <<x>>) >> ELSE <<>>
OnA(kernel, par, t) ==
  Code(Xs(t), Levels([i \in DOMAIN t |-> _2a(Xs(t)[i], t[i])])
                \o << Line(<<"r">>, kernel, par, Xs(t)) >>, <<"r">>)
OnB(kernel, par, t) ==
  Code(Xs(t), Levels([i \in DOMAIN t |-> _2b(Xs(t)[i], t[i])])
                \o << Line(<<"r">>, kernel, par, Xs(t)) >>, <<"r">>)

(* The operations f_sv and f_vv, by f_ss: a value of one party is shared.  *)
ByShares(ss, par) ==
  Code(<<"x", "y">>, << Let("y", "v2s", <<"y">>), Line(<<"r">>, ss, par, <<"x", "y">>) >>,
       <<"r">>)
OfOwners(vvv, vvs, ss, par, t, program) ==
  CASE hasSameOwner(t) -> Do(vvv, par, t)
    [] ~hasSameOwner(t) /\ Has(program, vvs) -> Do("MulVVS", [width |-> K], t)
    [] OTHER ->
         Code(<<"x", "y">>, << Let("x", "v2s", <<"x">>), Let("y", "v2s", <<"y">>),
                               Line(<<"r">>, ss, par, <<"x", "y">>) >>, <<"r">>)

-----------------------------------------------------------------------------
(* Between kinds.                                                          *)
p2s(par, t) == Do(IF par.bool THEN "P2B" ELSE "P2A", NoPar, t)
v2s(t) == Do("V2A", [numel |-> t[1].numel, owner |-> t[1].n], t)
s2v(par, t, program) ==
  IF IsB(t[1]) /\ Has(program, "b2v") THEN Do("B2V", par, t) ELSE OnA("A2V", par, t)
s2p(t) == Do(IF IsA(t[1]) THEN "A2P" ELSE "B2P", NoPar, t)
rand_s(par) ==
  Code(<<>>, << Line(<<"r">>, IF par.bool THEN "RandB" ELSE "RandA",
                     [numel |-> par.numel], <<>>) >>, <<"r">>)
rand_perm_s(par) ==
  Code(<<>>, << Line(<<"r">>, "RandPermM", par, <<>>) >>, <<"r">>)
make_p(par, t) ==
  Code(<<"x">>, << Line(<<"r">>, "MakeP",
                     [value |-> par.value % Pow2[K], numel |-> t[1].numel], <<>>) >>,
       <<"r">>)
(* To the type of another secret.                                          *)
cast_type_s(par, t) ==
  CASE IsA(t[1]) /\ par.k = "A" -> Code(<<"x">>, <<>>, <<"x">>)
    [] IsA(t[1]) /\ par.k = "B" -> Code(<<"x">>, _2b("x", t[1]), <<"x">>)
    [] IsB(t[1]) /\ par.k = "A" -> Code(<<"x">>, _2a("x", t[1]), <<"x">>)
    [] IsB(t[1]) /\ par.k = "B" -> Do("CastTypeB", [nbits |-> par.n], t)

(* -x - 1, or every bit of storage inverted.                               *)
not_(negate, add) ==
  Code(<<"x">>, << Constant("k1", 1, "x"), Let("x", negate, <<"x">>),
                   Let("k1", "negate_p", <<"k1">>), Let("r", add, <<"x", "k1">>) >>,
       <<"r">>)
not_s(t) ==
  IF IsB(t[1])
  THEN Code(<<"x">>, << Constant("ones", Ones, "x"), Let("r", "XorBP", <<"x", "ones">>) >>,
            <<"r">>)
  ELSE not_("negate_s", "add_sp")

msb_s(t, program) ==
  CASE IsA(t[1]) /\ Has(program, "msb_a2b") -> Do("MsbA2B", NoPar, t)
    [] OTHER -> OnB("RShiftB", By(K - 1), t)

(* Not of every pair of kinds: see _equal.                                 *)
HasEqual(t, program) ==
  \/ t[2].k = "P" /\ IsA(t[1]) /\ Has(program, "equal_ap")
  \/ t[2].k # "P" /\ (IsA(t[1]) \/ IsA(t[2])) /\ Has(program, "equal_aa")

add(form, t, program) ==
  CASE form = "ss" -> OnA("AddAA", NoPar, t)
    [] form = "sp" -> OnA("AddAP", NoPar, t)
    [] form = "sv" -> ByShares("add_ss", NoPar)
    [] form = "vv" -> OfOwners("add_vvv", "add_vvs", "add_ss", NoPar, t, program)

(* A bit by a word, or by a bit, without a conversion.                     *)
OneBit(t) == IsB(t) /\ t.n = 1
mul_ss(t, program) ==
  CASE Has(program, "mul_a1b") /\ IsA(t[2]) /\ OneBit(t[1]) -> Swap("MulA1B", NoPar)
    [] Has(program, "mul_a1b") /\ IsA(t[1]) /\ OneBit(t[2]) -> Do("MulA1B", NoPar, t)
    [] OneBit(t[1]) /\ OneBit(t[2]) -> Do("AndBB", NoPar, t)
    [] OTHER -> OnA("MulAA", NoPar, t)
mul(form, t, program) ==
  CASE form = "ss" -> mul_ss(t, program)
    [] form = "sp" -> OnA("MulAP", NoPar, t)
    [] form = "sv" -> ByShares("mul_ss", NoPar)
    [] form = "vv" -> OfOwners("mul_vvv", "mul_vvs", "mul_ss", NoPar, t, program)
Twice(op) == Code(<<"x">>, << Let("r", op, <<"x", "x">>) >>, <<"r">>)
square_s(t, program) ==
  IF IsA(t[1]) /\ Has(program, "square_a") THEN Do("SquareA", NoPar, t)
  ELSE Twice("mul_ss")

mmul(form, par, t, program) ==
  CASE form = "ss" -> OnA("MatMulAA", par, t)
    [] form = "sp" -> OnA("MatMulAP", par, t)
    [] form = "sv" -> ByShares("mmul_ss", par)
    [] form = "vv" -> OfOwners("mmul_vvv", "mmul_vvs", "mmul_ss", par, t, program)
and(form, t, program) ==
  CASE form = "ss" -> OnB("AndBB", NoPar, t)
    [] form = "sp" -> OnB("AndBP", NoPar, t)
    [] form = "sv" -> ByShares("and_ss", NoPar)
    [] form = "vv" -> OfOwners("and_vvv", "and_vvs", "and_ss", NoPar, t, program)
xor(form, t, program) ==
  CASE form = "ss" -> OnB("XorBB", NoPar, t)
    [] form = "sp" -> OnB("XorBP", NoPar, t)
    [] form = "sv" -> ByShares("xor_ss", NoPar)
    [] form = "vv" -> OfOwners("xor_vvv", "xor_vvs", "xor_ss", NoPar, t, program)

lshift_s(par, t) == Do(IF IsA(t[1]) THEN "LShiftA" ELSE "LShiftB", par, t)
rshift_s(par, t) == OnB("RShiftB", par, t)
arshift_s(par, t) == OnB("ARShiftB", par, t)
trunc_s(par, t, program) == OnA(trunc_a(program), par, t)
bitrev_s(par, t) == OnB("BitrevB", par, t)

(* By a permutation that is shared, public or one party's.                 *)
perm_ss(t) == OnA("PermAM", NoPar, t)
perm_sp(t) == OnA("PermAP", NoPar, t)
inv_perm_ss(t) == OnA("InvPermAM", NoPar, t)
inv_perm_sp(t) == OnA("InvPermAP", NoPar, t)
inv_perm_sv(t) == OnA("InvPermAV", [owner |-> t[2].n], t)

(* A family's operations by their names.                                   *)
Forms == {"ss", "sp", "sv", "vv"}
FormOf(f) == [op \in {f \o "_" \o s : s \in Forms} |-> CHOOSE s \in Forms : op = f \o "_" \o s]
AddForms == FormOf("add")
MulForms == FormOf("mul")
MmulForms == FormOf("mmul")
AndForms == FormOf("and")
XorForms == FormOf("xor")

Expand(c, t, program) ==
  CASE Has(program, c.op) -> NoCalls
    [] c.op \in DOMAIN AddForms -> add(AddForms[c.op], t, program)
    [] c.op \in DOMAIN MulForms -> mul(MulForms[c.op], t, program)
    [] c.op \in DOMAIN MmulForms -> mmul(MmulForms[c.op], c.par, t, program)
    [] c.op \in DOMAIN AndForms -> and(AndForms[c.op], t, program)
    [] c.op \in DOMAIN XorForms -> xor(XorForms[c.op], t, program)
    [] c.op = "p2s" -> p2s(c.par, t)
    [] c.op = "v2s" -> v2s(t)
    [] c.op = "s2v" -> s2v(c.par, t, program)
    [] c.op = "s2p" -> s2p(t)
    [] c.op = "cast_type_s" -> cast_type_s(c.par, t)
    [] c.op = "rand_s" -> rand_s(c.par)
    [] c.op = "rand_perm_s" -> rand_perm_s(c.par)
    [] c.op = "make_p" -> make_p(c.par, t)
    [] c.op = "not_s" -> not_s(t)
    [] c.op = "not_v" -> not_("negate_v", "add_vp")
    [] c.op = "not_p" -> not_("negate_p", "add_pp")
    [] c.op = "negate_s" -> OnA("NegateA", NoPar, t)
    [] c.op = "msb_s" -> msb_s(t, program)
    [] c.op = "equal_ss" -> OnA("EqualAA", NoPar, t)
    [] c.op = "equal_sp" -> OnA("EqualAP", NoPar, t)
    [] c.op = "square_s" -> square_s(t, program)
    [] c.op = "square_v" -> Twice("mul_vv")
    [] c.op = "square_p" -> Twice("mul_pp")
    [] c.op = "lshift_s" -> lshift_s(c.par, t)
    [] c.op = "rshift_s" -> rshift_s(c.par, t)
    [] c.op = "arshift_s" -> arshift_s(c.par, t)
    [] c.op = "trunc_s" -> trunc_s(c.par, t, program)
    [] c.op = "bitrev_s" -> bitrev_s(c.par, t)
    [] c.op = "perm_ss" -> perm_ss(t)
    [] c.op = "perm_sp" -> perm_sp(t)
    [] c.op = "inv_perm_ss" -> inv_perm_ss(t)
    [] c.op = "inv_perm_sp" -> inv_perm_sp(t)
    [] c.op = "inv_perm_sv" -> inv_perm_sv(t)
    [] OTHER -> NoCalls

-----------------------------------------------------------------------------
(* The type of a kernel's result, from those of its arguments: the kernels' *)
(* makeType and their bits; not of those that only kernels call.           *)
ToPublic == {"A2P", "B2P", "v2p", "s2p", "rand_p"}
ToArithmetic ==
  {"P2A", "V2A", "B2A", "RandA", "NegateA", "AddAP", "AddAA", "MulAP", "MulAA",
   "SquareA", "MulA1B", "MulVVS", "LShiftA", "TruncA", "TruncAPr", "TruncAPr2",
   "PermAM", "PermAP", "InvPermAM", "InvPermAP", "InvPermAV", "B2A_Disassemble"}
MatrixProducts == {"MatMulAA", "MatMulAP", "mmul_pp", "mmul_vvv", "mmul_vp",
                   "mmul_ss", "mmul_sp"}
LikeFirst ==
  {f \o "_v" : f \in {"negate", "msb", "lshift", "rshift", "arshift", "trunc", "bitrev",
                      "gen_inv_perm", "merge_keys", "group_mark"}}
  \cup {"equal_vvv", "equal_vp", "add_vvv", "add_vp", "mul_vvv", "mul_vp", "and_vvv",
        "and_vp", "xor_vvv", "xor_vp", "inv_perm_vv", "perm_vv", "BitIntlB", "BitDeintlB"}
  \cup (Ref2kKernels \ {"p2s", "s2p", "v2s", "s2v", "mmul_ss", "mmul_sp", "rand_s"})
OfPublics ==
  {f \o "_p" : f \in {"negate", "msb", "lshift", "rshift", "arshift", "trunc", "bitrev",
                      "gen_inv_perm", "merge_keys", "group_mark"}}
  \cup {"equal_pp", "add_pp", "mul_pp", "and_pp", "xor_pp", "inv_perm_pp", "perm_pp"}
Least(m, n) == Min({m, n})
Most(m, n) == Max({m, n})

BitsAfter(op, par, t, program) ==
  CASE op \in {"AndBB", "AndBP"} -> Least(t[1].n, t[2].n)
    [] op \in {"XorBB", "XorBP"} -> Most(t[1].n, t[2].n)
    [] op = "P2B" -> t[1].n
    [] op = "LShiftB" -> Least(t[1].n + par.bits, K)
    [] op = "RShiftB" -> t[1].n - Least(t[1].n, par.bits)
    [] op = "BitrevB" -> Most(t[1].n, par.end)
    [] op \in {"CastTypeB", "setNbits"} -> par.nbits
    [] op \in {"RandB", "MsbA2B"} -> 1
    [] op \in {"A2B", "ARShiftB"} -> K
    [] op \in {"EqualAA", "EqualAP"} ->
         IF program.protocol = "aby3" THEN Min(Widths) ELSE K
ToBoolean == {"AndBB", "AndBP", "XorBB", "XorBP", "P2B", "LShiftB", "RShiftB", "BitrevB",
              "CastTypeB", "setNbits", "RandB", "MsbA2B", "EqualAA", "EqualAP", "A2B",
              "ARShiftB"}

KernelType(c, t, program) ==
  LET numel == CASE "numel" \in DOMAIN c.par -> c.par.numel
                 [] c.op = "constant" -> Len(c.par.x)
                 [] c.op \in MatrixProducts -> c.par.m * c.par.n
                 [] c.op = "gather" -> Len(c.par.places)
                 [] c.op = "concatenate" -> FoldLeft(LAMBDA s, u : s + u.numel, 0, t)
                 [] OTHER -> t[1].numel
      like(u) == [u EXCEPT !.numel = numel]
  IN  CASE \E i \in DOMAIN t : t[i] = Unknown -> Unknown
        [] c.op = "MakeP" -> PType(BitWidth[c.par.value], numel)
        [] c.op = "constant" -> PType(maxBitWidth(c.par.x), numel)
        [] c.op \in ToPublic \cup OfPublics \cup {"mmul_pp"} -> PType(K, numel)
        [] c.op \in ToArithmetic \cup {"MatMulAA", "MatMulAP"} -> AType(numel)
        [] c.op \in ToBoolean -> BType(BitsAfter(c.op, c.par, t, program), numel)
        [] c.op \in {"p2v", "s2v", "A2V", "B2V"} -> VType(c.par.owner, numel)
        [] c.op \in {"p2s", "v2s", "rand_s"} -> Ty("S", K, numel)
        [] c.op = "RandPermM" -> Ty("M", K, numel)
        [] c.op \in LikeFirst \cup MatrixProducts \cup {"gather", "concatenate", "sort_public"} ->
             like(t[1])
        [] OTHER -> Unknown
=============================================================================
