------------------------------- MODULE Types -------------------------------
(***************************************************************************)
(* The types of fhec-check (ty.rs, decl.rs), the conversions it plans       *)
(* (ops.rs, spec 3.2 and 3.3) and the signature table of the target library *)
(* (fhec-targets/cofhe.rs).  The widest encrypted integer is as wide as the *)
(* u128 the checker folds literals in.                                      *)
(***************************************************************************)
EXTENDS Integers, Sequences

CONSTANTS
    Widths,       \* the widths of euintN
    PlainWidths,  \* the widths of uintN
    MaxPower      \* bound on the exponents of literals

ASSUME WidthAssumption ==
    /\ Widths # {} /\ Widths \subseteq PlainWidths /\ PlainWidths \subseteq Nat
    /\ MaxPower \in Nat
    /\ \E w \in Widths : \A v \in Widths : v <= w
    /\ \E w \in PlainWidths : \A v \in PlainWidths : v <= w
    /\ \A w \in Widths : 1 < 2 ^ w

Wider(a, b) == IF a >= b THEN a ELSE b
Widest      == CHOOSE w \in Widths : \A v \in Widths : v <= w
WidestPlain == CHOOSE w \in PlainWidths : \A v \in PlainWidths : v <= w

-----------------------------------------------------------------------------
(* Ty: a kind, and a width or the value of a literal.                      *)

T(k, n) == [k |-> k, n |-> n]
Ebool    == T("ebool", 0)
Eaddress == T("eaddress", 0)
Euint(w) == T("euint", w)
Bool     == T("bool", 0)
Address  == T("address", 0)
Uint(w)  == T("uint", w)
Unit     == T("unit", 0)
Opaque   == T("opaque", 0)     \* and every plaintext type no rule is about
Unknown  == T("unknown", 0)

\* A refusal: n is the number of its diagnostic.
Failed(code) == T("error", code)
Bad(t) == t.k = "error"

\* A literal whose value the checker does not know, or that exceeds u128.
None   == -1
Lit(v) == T("lit", v)

ETypes    == {Ebool, Eaddress} \cup {Euint(w) : w \in Widths}
Encrypted(t) == t \in ETypes
IsEuint(t)   == t.k = "euint"

\* a ^ b, or Huge when it is at least Huge: every width is below.
Huge == 2 * 2 ^ Widest
Power(a, b) ==
    LET p[i \in 0 .. MaxPower] ==
            IF i = 0 THEN 1 ELSE IF a * p[i - 1] >= Huge THEN Huge ELSE a * p[i - 1]
    IN IF a < 2 \/ b <= MaxPower THEN p[IF b <= MaxPower THEN b ELSE MaxPower] ELSE Huge

\* Folding of two literals in u128, checked.
Fits(v) == v >= 0 /\ v < 2 ^ Widest
Fold(op, a, b) ==
    LET v == CASE op = "+" -> a + b
               [] op = "-" -> a - b
               [] op = "*" -> a * b
               [] op = "/" -> IF b = 0 THEN None ELSE a \div b
               [] op = "%" -> IF b = 0 THEN None ELSE a % b
               [] op = "**" -> Power(a, b)
               [] OTHER    -> None
    IN IF Fits(v) THEN v ELSE None

-----------------------------------------------------------------------------
(* Operators.                                                              *)

Arith   == {"+", "-", "*", "/", "%", "**"}
Bits    == {"&", "|", "^"}
Shifts  == {"<<", ">>"}
Order   == {"<", "<=", ">", ">="}
Equal   == {"==", "!="}
Logic   == {"&&", "||"}
Compare == Order \cup Equal
BinOps  == Arith \cup Bits \cup Shifts \cup Compare \cup Logic \cup {">>>"}

\* The library function of an operator on encrypted operands.
FheOp(op) == CASE op = "&&" -> "&" [] op = "||" -> "|" [] OTHER -> op

\* plain_binary: the type of an operator on plaintext operands.
PlainBinary(op, l, r) ==
    CASE Unknown \in {l, r} -> Unknown
      [] Unknown \notin {l, r} /\ op \in Compare \cup Logic -> Bool
      [] Unknown \notin {l, r} /\ op \in Arith ->
            CASE l.k = "lit" /\ r.k = "lit" /\ None \notin {l.n, r.n} -> Lit(Fold(op, l.n, r.n))
              [] l.k = "lit" /\ (r.k # "lit" \/ None \in {l.n, r.n}) -> r
              [] l.k # "lit" /\ r.k = "lit" -> l
              [] l.k = "uint" /\ r.k = "uint" -> Uint(Wider(l.n, r.n))
              [] OTHER -> Opaque
      [] OTHER ->
            CASE l.k = "uint" -> l
              [] l.k = "lit" /\ r.k = "lit" -> Lit(None)
              [] OTHER -> Opaque

\* unary, on a plaintext operand.  A negative literal is one without a value.
PlainUnary(op, t) ==
    CASE t = Unknown -> Unknown
      [] t # Unknown /\ op = "!" -> Bool
      [] t # Unknown /\ op = "-" -> IF t.k = "lit" THEN Lit(None) ELSE t
      [] OTHER -> t

\* unary, on an encrypted operand: the type of the site, if there is one.
UnaryTarget(op, t) ==
    CASE op = "!" /\ t = Ebool -> t
      [] op = "~" /\ IsEuint(t) -> t
      [] op = "-" -> Failed(2005)
      [] OTHER -> Failed(2006)

-----------------------------------------------------------------------------
(* Targets and conversions.                                                *)

\* common_target: the type both operands are brought to.
CommonTarget(l, r) ==
    CASE Encrypted(l) /\ Encrypted(r) ->
            CASE IsEuint(l) /\ IsEuint(r) -> Euint(Wider(l.n, r.n))
              [] ~(IsEuint(l) /\ IsEuint(r)) /\ l = r -> l
              [] OTHER -> Failed(2002)
      [] Unknown \in {l, r} -> Failed(2001)
      [] OTHER -> IF Encrypted(l) THEN l ELSE r

\* shift_target: the type of the shifted operand, if it is encrypted.
ShiftTarget(l, r) ==
    CASE IsEuint(l) -> IF IsEuint(r) /\ r.n > l.n THEN Failed(2004) ELSE l
      [] l = Unknown -> Failed(2001)
      [] l \in {Ebool, Eaddress} -> Failed(2006)
      [] OTHER -> IF IsEuint(r) THEN r ELSE Failed(2006)

\* The encrypted type of an arm when both arms of a ternary are plaintext.
ArmType(t) ==
    CASE t = Bool -> Ebool
      [] t = Address -> Eaddress
      [] t.k = "uint" /\ t.n \in Widths -> Euint(t.n)
      [] OTHER -> Unknown
ArmTarget(a, b) ==
    CASE Encrypted(a) \/ Encrypted(b) -> CommonTarget(a, b)
      [] Unknown \in {a, b} -> Failed(2001)
      [] OTHER ->
            LET x == ArmType(a)
                y == ArmType(b)
            IN CASE x # Unknown /\ x = y -> x
                 [] x # Unknown /\ y = Unknown /\ b.k = "lit" -> x
                 [] x = Unknown /\ y # Unknown /\ a.k = "lit" -> y
                 [] OTHER -> Failed(2008)

\* PlainTy::converts_to
ConvertsTo(t, target) ==
    \/ t = Bool /\ target = Ebool
    \/ t = Address /\ target = Eaddress
    \/ t.k = "uint" /\ IsEuint(target) /\ t.n <= target.n

\* Fault: a literal may be as large as 2^w.
LiteralFitsWide(v, target) == IsEuint(target) /\ v # None /\ v <= 2 ^ target.n
LiteralFits(v, target) == IsEuint(target) /\ v # None /\ v < 2 ^ target.n

\* plan_operand: the conversion of an operand, or the code of the refusal.
Plan(t, target) ==
    CASE t = target -> "already"
      [] t # target /\ IsEuint(t) /\ IsEuint(target) ->
            IF t.n < target.n THEN "widen" ELSE "2004"
      [] t # target /\ Encrypted(t) /\ ~(IsEuint(t) /\ IsEuint(target)) -> "2002"
      [] t.k = "lit" -> IF LiteralFits(t.n, target) THEN "literal" ELSE "2003"
      [] t = Unknown -> "2001"
      [] OTHER -> IF ConvertsTo(t, target) THEN "trivial" ELSE "2008"
Conversions == {"already", "widen", "literal", "trivial"}

\* Operator/type legality of binary (4.1).
Legal(op, target) ==
    \/ op \in Equal
    \/ op \in Bits \cup Logic /\ (IsEuint(target) \/ target = Ebool)
    \/ op \notin Equal \cup Bits \cup Logic /\ IsEuint(target)

-----------------------------------------------------------------------------
(* The library: the type of a call on encrypted operands, Refused when the  *)
(* pinned version has no such function.                                     *)

Refused == T("refused", 0)

\* COFHE_0_2_OPS
Accepts(op, t) ==
    CASE op \in Equal \cup {"select"}  -> Encrypted(t)
      [] op \in Bits \cup {"not"}      -> IsEuint(t) \/ t = Ebool
      [] op \in (Arith \ {"**"}) \cup Shifts \cup Order \cup {"min", "square"} -> IsEuint(t)
      [] op = "allow"                  -> Encrypted(t)
      [] OTHER                         -> FALSE
ResultOf(op, t) ==
    CASE op \in Compare -> Ebool [] op = "allow" -> Unit [] OTHER -> t

\* can_cast: the overloads of asE.
CanCast(from, to) == from # to /\ to # Eaddress

\* result_type, with the encrypted operands only.
Profile(op, args) ==
    LET values == IF op = "select" THEN Tail(args) ELSE args
    IN IF /\ op = "select" => Len(args) = 3 /\ args[1] = Ebool
          /\ Accepts(op, values[1])
          /\ \A i \in DOMAIN values : values[i] = values[1]
       THEN ResultOf(op, values[1]) ELSE Refused
=============================================================================
