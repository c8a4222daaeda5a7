------------------------------- MODULE Typing -------------------------------
(***************************************************************************)
(* The typing of expressions (fhec-check, exprs.rs and ops.rs) together     *)
(* with the text pass 1 renders for them (fhec-lower, expr.rs), as a stack  *)
(* machine: type_expr visits an expression after its operands, so a leaf    *)
(* pushes a node and an operator replaces its operands' nodes by its own.   *)
(* A node records the type the checker gives, the type the rendered text    *)
(* has for the library, what Solidity makes of the expression when it is    *)
(* plaintext, whether evaluating it has an effect, and whether              *)
(* side_effect_span finds one in it.                                        *)
(***************************************************************************)
EXTENDS Plaintext, FiniteSets

CONSTANTS
    Literals,     \* the literals considered
    MaxStack,     \* bound on the operands waiting
    MaxLeaves,    \* bound on the leaves of an expression
    Combines,     \* what plaintext operators combine: "literals", "widths"
    Acting        \* where effects may stand: "operand", "receiver", "target"

ASSUME TypingAssumption ==
    /\ Literals \subseteq Nat /\ MaxStack \in Nat /\ MaxLeaves \in Nat
    /\ Combines \subseteq {"literals", "widths"} /\ Acting \subseteq {"operand", "receiver", "target"}

VARIABLES
    stack,    \* the nodes of the operands, last first
    leaves,   \* leaves so far
    site,     \* the rewrite site the last step stated, if it did
    refused   \* a diagnostic has been reported

vars == <<stack, leaves, site, refused>>

NoLib == T("none", 0)
Node(ty, lib, sol, acts, seen) ==
    [ty |-> ty, lib |-> lib, sol |-> sol, acts |-> acts, seen |-> seen]
Plain(ty, sol, ns) ==
    Node(ty, NoLib, sol, \E x \in ns : x.acts, \E x \in ns : x.seen)
Secret(ty, lib, ns) ==
    Node(ty, lib, Cipher, \E x \in ns : x.acts, \E x \in ns : x.seen)
NoSite == [op |-> "none", args |-> << >>, plans |-> << >>, to |-> Unknown,
           result |-> Unknown, source |-> "none"]

\* wrap_operand: the library type of an operand once converted; FheOp::Widen
\* exists from a narrower width only.
Wrapped(x, plan, to) ==
    CASE plan = "already" -> x.lib
      [] plan = "widen"   -> IF IsEuint(x.lib) /\ x.lib.n < to.n THEN to ELSE Refused
      [] OTHER            -> to

\* render_operator_site, render_ternary_site: the library type of the call.
Rendered(s) ==
    LET arms == [i \in DOMAIN s.args |-> Wrapped(s.args[i], s.plans[i], s.to)]
    IN Profile(s.op, arms)

Pop(n)   == SubSeq(stack, n + 1, Len(stack))
Top      == stack[1]
Under    == stack[2]
Running  == ~refused
Binary2  == Running /\ Len(stack) >= 2
Unary1   == Running /\ Len(stack) >= 1

\* Every exit of a handler: a node and perhaps a site, or a diagnostic, after
\* which the expression is Unknown and the file is typed on in vain.
Yields(n, node, s) ==
    /\ stack' = <<node>> \o Pop(n)
    /\ site' = s
    /\ UNCHANGED <<leaves, refused>>
Refuses == refused' = TRUE /\ site' = NoSite /\ UNCHANGED <<stack, leaves>>

-----------------------------------------------------------------------------
Init == stack = << >> /\ leaves = 0 /\ site = NoSite /\ refused = FALSE

\* lit_ty, ident_ty, member_ty, index, and the calls whose type is declared:
\* an operand with its type; f() is one with an effect.
Leaf(ty, sol) ==
    /\ Running /\ leaves < MaxLeaves /\ Len(stack) < MaxStack
    /\ \E effect \in {FALSE} \cup (IF "operand" \in Acting THEN {TRUE} ELSE {}) :
          stack' = <<Node(ty, IF Encrypted(ty) THEN ty ELSE NoLib, sol, effect, effect)>>
                     \o stack
    /\ leaves' = leaves + 1 /\ site' = NoSite
    /\ UNCHANGED refused

PushSecret == \E t \in ETypes : Leaf(t, Cipher)
PushUint   == \E w \in PlainWidths : Leaf(Uint(w), SUint(w))
PushOther  == \/ Leaf(Bool, SBool)
              \/ Leaf(Address, SAddress)
              \/ Leaf(Opaque, Other)
              \/ Leaf(Unknown, Any)
PushLit    == \E v \in Literals : Leaf(Lit(IF Fits(v) THEN v ELSE None), Rat(v, 1))

-----------------------------------------------------------------------------
(* Operators of plaintext: solc types them, the checker follows.           *)

\* Whether the author computes with literals, and with uints of two widths
\* under a bit operator.
Allowed(op, l, r) ==
    /\ "lit" \in {l.ty.k, r.ty.k} => "literals" \in Combines
    /\ op \in Bits /\ l.sol # r.sol => "widths" \in Combines

ComputePlain ==
    /\ Binary2 /\ ~Encrypted(Under.ty) /\ ~Encrypted(Top.ty)
    /\ \E op \in BinOps \ {">>>"} :
          LET sol == SolBinary(op, Under.sol, Top.sol)
          IN /\ sol # Void /\ Allowed(op, Under, Top)
             /\ Yields(2, Plain(PlainBinary(op, Under.ty, Top.ty), sol, {Under, Top}), NoSite)

ComputeUnary ==
    /\ Unary1 /\ ~Encrypted(Top.ty)
    /\ \E op \in {"-", "~", "!"} :
          LET sol == SolUnary(op, Top.sol)
          IN /\ sol # Void /\ (op = "~" => Allowed(op, Top, Top))
             /\ Yields(1, Plain(PlainUnary(op, Top.ty), sol, {Top}), NoSite)

\* call: an elementary cast.
CastPlain ==
    /\ Unary1 /\ ~Encrypted(Top.ty)
    /\ \E w \in PlainWidths :
          /\ SolCast(w, Top.sol) # Void
          /\ Yields(1, Plain(Uint(w), SolCast(w, Top.sol), {Top}), NoSite)

-----------------------------------------------------------------------------
(* Operators with an encrypted operand.                                    *)

\* Fault: effects are refused only when both sides have one.
HiddenBoth(lazy, ns) == lazy /\ \A x \in ns : x.seen

\* Both sides always run: no effect that side_effect_span sees may be in one.
Hidden(lazy, ns) == lazy /\ \E x \in ns : x.seen
Planned(s)       == \A i \in DOMAIN s.plans : s.plans[i] \in Conversions
Target(op, l, r) == IF op \in Shifts THEN ShiftTarget(l, r) ELSE CommonTarget(l, r)

\* Fault: a comparison is given the type of its operands.
BinarySiteSame(op, l, r) ==
    LET to == Target(op, l.ty, r.ty)
    IN [op |-> FheOp(op), args |-> <<l, r>>, to |-> to, source |-> op,
        plans |-> <<Plan(l.ty, to), Plan(r.ty, to)>>, result |-> to]

BinarySite(op, l, r) ==
    LET to == Target(op, l.ty, r.ty)
    IN [op |-> FheOp(op), args |-> <<l, r>>, to |-> to, source |-> op,
        plans |-> <<Plan(l.ty, to), Plan(r.ty, to)>>,
        result |-> ResultOf(FheOp(op), to)]

\* binary, from the operands' types on.
Operate ==
    /\ Binary2 /\ (Encrypted(Under.ty) \/ Encrypted(Top.ty))
    /\ \E op \in BinOps :
          LET s == BinarySite(op, Under, Top)
          IN IF \/ op \in {"**", ">>>"} \/ Hidden(op \in Logic, {Under, Top})
                \/ Bad(s.to) \/ ~Legal(op, s.to) \/ ~Planned(s)
             THEN Refuses
             ELSE Yields(2, Secret(s.result, Rendered(s), {Under, Top}), s)

\* unary, unary_site
OperateUnary ==
    /\ Unary1 /\ Encrypted(Top.ty)
    /\ \E op \in {"-", "~", "!"} :
          LET to == UnaryTarget(op, Top.ty)
              s  == [op |-> "not", args |-> <<Top>>, to |-> to, source |-> op,
                     plans |-> <<"already">>, result |-> to]
          IN IF Bad(to) THEN Refuses ELSE Yields(1, Secret(to, Rendered(s), {Top}), s)

\* ternary.  A plaintext condition is solc's: one arm runs.
Cond == stack[3]
SelectSite ==
    LET to == ArmTarget(Under.ty, Top.ty)
    IN [op |-> "select", args |-> <<Cond, Under, Top>>, to |-> to, source |-> "?:",
        plans |-> <<"already", Plan(Under.ty, to), Plan(Top.ty, to)>>, result |-> to]
Select ==
    /\ Running /\ Len(stack) >= 3 /\ Encrypted(Cond.ty)
    /\ IF \/ Cond.ty # Ebool \/ Hidden(TRUE, {Under, Top})
          \/ Bad(SelectSite.to) \/ ~Planned(SelectSite)
       THEN Refuses
       ELSE Yields(3, Secret(SelectSite.to, Rendered(SelectSite), {Cond, Under, Top}),
                   SelectSite)

Choose ==
    LET ty  == IF Under.ty = Top.ty THEN Top.ty ELSE Unknown
        sol == SolEither(Under.sol, Top.sol)
    IN /\ Running /\ Len(stack) >= 3 /\ Cond.sol \in {SBool, Any}
       /\ Under.lib = Top.lib /\ sol # Void
       /\ Yields(3, Node(ty, Top.lib, sol, \E i \in 1 .. 3 : stack[i].acts,
                         \E i \in 1 .. 3 : stack[i].seen), NoSite)

-----------------------------------------------------------------------------
(* Calls the author writes.                                                *)

\* fhe_call_result, cast_sugar_call: a cast is typed by its name.
CallCast ==
    /\ Unary1
    /\ \E to \in ETypes :
          LET lib == IF ~Encrypted(Top.ty) \/ CanCast(Top.lib, to) THEN to ELSE Refused
          IN Yields(1, Secret(to, lib, {Top}), NoSite)

\* fhe_call_result: FHE.op(l, r); profile_method_result: l.op(r), whose
\* receiver side_effect_span does not look into.
CallOp(method) ==
    /\ Binary2
    /\ \E op \in {"+", "==", "<", "&"} :
          LET lib   == IF Encrypted(Under.ty) /\ Encrypted(Top.ty)
                       THEN Profile(op, <<Under.lib, Top.lib>>) ELSE Refused
              known == IF Encrypted(Under.ty) /\ Encrypted(Top.ty)
                       THEN Profile(op, <<Under.ty, Top.ty>>) ELSE Refused
          IN Yields(2, Node(IF known = Refused THEN Unknown ELSE known, lib, Cipher,
                            Under.acts \/ Top.acts,
                            Top.seen \/ (~method /\ Under.seen)), NoSite)
CallLibrary == CallOp(FALSE)
CallMethod ==
    /\ Binary2 /\ Encrypted(Under.ty) /\ (Under.acts => "receiver" \in Acting)
    /\ CallOp(TRUE)

(* Statements with an encrypted target L, whose text is rendered twice.    *)

TargetActs == IF "target" \in Acting THEN BOOLEAN ELSE {FALSE}
Targets    == {Node(t, t, Cipher, acts, acts) : t \in ETypes, acts \in TargetActs}
Stated(s) == /\ stack' = << >> /\ site' = s
             /\ UNCHANGED <<leaves, refused>>

\* compound: L op= R becomes L = FHE.op(L, R).
CompoundOps == (Arith \ {"**"}) \cup Bits \cup Shifts
Compound ==
    /\ Running /\ Len(stack) = 1
    /\ \E op \in CompoundOps \cup {">>>"}, L \in Targets :
          LET s == [op |-> op, args |-> <<L, Top>>, to |-> L.ty, source |-> "L op=",
                    plans |-> <<"already", Plan(Top.ty, L.ty)>>, result |-> L.ty]
          IN IF op \notin CompoundOps \/ ~Legal(op, L.ty) \/ ~Planned(s)
             THEN Refuses ELSE Stated(s)

\* type_root_expr: ++L and its like.
One == Node(Lit(1), NoLib, Rat(1, 1), FALSE, FALSE)
IncDec ==
    /\ Running /\ stack = << >>
    /\ \E op \in {"+", "-"}, L \in Targets :
          IF ~IsEuint(L.ty) THEN Refuses
          ELSE Stated([op |-> op, args |-> <<L, One>>, to |-> L.ty, source |-> "L op=",
                       plans |-> <<"already", "literal">>, result |-> L.ty])

Next ==
    \/ PushSecret \/ PushUint \/ PushOther \/ PushLit
    \/ ComputePlain \/ ComputeUnary \/ CastPlain
    \/ Operate \/ OperateUnary \/ Select \/ Choose
    \/ CallCast \/ CallLibrary \/ CallMethod \/ Compound \/ IncDec

Spec == Init /\ [][Next]_vars

-----------------------------------------------------------------------------
(* Correctness.                                                            *)

\* The text pass 1 renders for an expression has, for the library, exactly the
\* type the checker gave the expression: what is built on it (a wider operand,
\* a grant, a return) is sound.  solc refuses an author's own bad call; of every
\* site the checker states the library has the function, with the result the
\* site records, and "profile refused a checked operation" (expr.rs) is never
\* reported.
RendersAsTyped ==
    /\ \A i \in DOMAIN stack :
          Encrypted(stack[i].ty) => stack[i].lib \in {stack[i].ty, Refused}
    /\ (/\ site # NoSite
        /\ \A i \in DOMAIN site.args : site.args[i].lib # Refused)
       => Rendered(site) = site.result

\* A plaintext operand is encrypted only to a type that holds every value it
\* may have in Solidity: the conversion of the library, which takes any
\* uint256 and so compiles, does not truncate it.
ConversionsExact ==
    \A i \in DOMAIN site.args :
        site.plans[i] \in {"literal", "trivial"} /\ Converts(site.args[i].sol)
            => Exact(site.args[i].sol, site.to)

\* Every effect takes place as often as in the source: none in an operand
\* that Solidity would have skipped, none in a target that is rendered twice.
EffectsAsWritten ==
    /\ site.source \in Logic => \A i \in DOMAIN site.args : ~site.args[i].acts
    /\ site.source = "?:" => ~site.args[2].acts /\ ~site.args[3].acts
    /\ site.source = "L op=" => ~site.args[1].acts

\* An operator is lowered only for the operand types of the operator table.
TableOnly ==
    /\ site.source \in Logic \cup {"!"} => site.to = Ebool
    /\ site.source = "~" => IsEuint(site.to)
=============================================================================
