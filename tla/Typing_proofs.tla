---------------------------- MODULE Typing_proofs ----------------------------
(***************************************************************************)
(* The typing of expressions and the text rendered for them, for every set *)
(* of widths, every literal and expressions of every size.  Each theorem   *)
(* rests on a property of the nodes on the stack that every handler hands  *)
(* on to the node it yields.                                               *)
(***************************************************************************)
EXTENDS Typing, SequenceTheorems, WellFoundedInduction, TLAPS

-----------------------------------------------------------------------------
(* Sequences and numbers.                                                  *)

\* The library states this with an operator for "<", which no prover takes.
NatLess == {ss \in Nat \X Nat : ss[1] < ss[2]}

LEMMA Least ==
    ASSUME NEW D \in SUBSET Nat, D # {}
    PROVE  \E x \in D : \A y \in D : x <= y
<1>1. IsWellFoundedOn(NatLess, Nat)
  BY NatLessThanWellFounded DEF OpToRel, NatLess
<1>2. PICK x \in D : \A y \in D : ~(<<y, x>> \in NatLess)
  BY <1>1, WFMin
<1>3. ASSUME NEW y \in D PROVE x <= y
  <2>1. x \in Nat /\ y \in Nat /\ <<y, x>> \in Nat \X Nat
    OBVIOUS
  <2>2. ~(y < x)
    BY <1>2, <2>1 DEF NatLess
  <2> QED BY <2>1, <2>2
<1> QED BY <1>3

-----------------------------------------------------------------------------
(* The stack                                                               *)

\* a sequence, whatever its elements
Proper(s) == s \in Seq({s[i] : i \in DOMAIN s})

LEMMA ProperOf == ASSUME NEW Elems, NEW s \in Seq(Elems) PROVE Proper(s)
<1>1. Len(s) \in Nat /\ s \in [1..Len(s) -> {s[i] : i \in DOMAIN s}]
  OBVIOUS
<1> QED BY <1>1 DEF Proper

LEMMA Pushed ==
    ASSUME NEW s, Proper(s), NEW n \in 0..Len(s), NEW x
    PROVE  LET t == <<x>> \o SubSeq(s, n + 1, Len(s))
           IN /\ Proper(t)
              /\ Len(t) = Len(s) - n + 1
              /\ \A i \in DOMAIN t : t[i] = x \/ \E j \in DOMAIN s : t[i] = s[j]
<1> DEFINE Elems == {x} \cup {s[i] : i \in DOMAIN s}
           u == SubSeq(s, n + 1, Len(s))
           t == <<x>> \o u
<1>1. s \in Seq(Elems) /\ Len(s) \in Nat
  BY DEF Proper
<1>2. /\ u \in Seq(Elems) /\ Len(u) = Len(s) - n
      /\ \A i \in 1..Len(u) : u[i] = s[n + i]
  BY <1>1
<1>3. <<x>> \in Seq(Elems) /\ Len(<<x>>) = 1
  OBVIOUS
<1>4. t \in Seq(Elems) /\ Len(t) = Len(s) - n + 1
  <2> HIDE DEF u, Elems
  <2> QED BY <1>1, <1>2, <1>3
<1>5. Proper(t)
  <2> HIDE DEF t, S
  <2> QED BY <1>4, ProperOf
<1>6. \A i \in DOMAIN t : t[i] = x \/ \E j \in DOMAIN s : t[i] = s[j]
  BY <1>4
<1> QED BY <1>4, <1>5, <1>6

-----------------------------------------------------------------------------
(* Types, plans and calls                                                  *)

\* the checker knows no encrypted integer but those of Widths
Formed(t) == IsEuint(t) => Encrypted(t)

LEMMA EncryptedKinds ==
    ASSUME NEW t, Encrypted(t)
    PROVE  /\ t.k \in {"ebool", "eaddress", "euint"}
           /\ t # Unknown /\ t # Refused /\ t # NoLib /\ t # Bool /\ t # Address
           /\ IsEuint(t) => t.n \in Widths /\ t = Euint(t.n)
           /\ ~IsEuint(t) => t \in {Ebool, Eaddress}
BY DEF Encrypted, ETypes, Ebool, Eaddress, Euint, T, IsEuint, Unknown, Refused, NoLib, Bool, Address

LEMMA RefusedIsNone ==
    /\ ~Encrypted(Refused) /\ ~IsEuint(Refused) /\ Refused # Ebool
    /\ ~Encrypted(Unknown) /\ ~IsEuint(Unknown)
    /\ \A c : ~Encrypted(Failed(c)) /\ Bad(Failed(c)) /\ ~IsEuint(Failed(c))
BY DEF Encrypted, ETypes, Ebool, Eaddress, Euint, T, IsEuint, Refused, Failed, Bad, Unknown

LEMMA WiderIn ==
    ASSUME NEW Elems \in SUBSET Nat, NEW a \in Elems, NEW b \in Elems
    PROVE  /\ Wider(a, b) \in Elems /\ Wider(a, b) >= a /\ Wider(a, b) >= b
           /\ Wider(a, b) \in {a, b}
BY DEF Wider

\* a target is an encrypted type or a refusal
LEMMA CommonType ==
    ASSUME NEW l, NEW r, Formed(l), Formed(r), Encrypted(l) \/ Encrypted(r)
    PROVE  Encrypted(CommonTarget(l, r)) \/ Bad(CommonTarget(l, r))
<1>1. CASE Encrypted(l) /\ Encrypted(r)
  <2>1. CASE IsEuint(l) /\ IsEuint(r)
    <3>1. Wider(l.n, r.n) \in Widths
      BY <1>1, <2>1, EncryptedKinds, WiderIn, WidthAssumption
    <3>2. CommonTarget(l, r) = Euint(Wider(l.n, r.n))
      BY <1>1, <2>1, EncryptedKinds DEF CommonTarget
    <3> QED BY <3>1, <3>2 DEF Encrypted, ETypes
  <2>2. CASE ~(IsEuint(l) /\ IsEuint(r))
    <3>1. CommonTarget(l, r) \in {l, Failed(2002)}
      BY <1>1, <2>2, EncryptedKinds DEF CommonTarget
    <3> QED BY <1>1, <3>1, RefusedIsNone
  <2> QED BY <2>1, <2>2
<1>2. CASE ~(Encrypted(l) /\ Encrypted(r))
  <2>1. CommonTarget(l, r) \in {Failed(2001), IF Encrypted(l) THEN l ELSE r}
    BY <1>2 DEF CommonTarget
  <2> QED BY <2>1, RefusedIsNone
<1> QED BY <1>1, <1>2

LEMMA ShiftType ==
    ASSUME NEW l, NEW r, Formed(l), Formed(r), Encrypted(l) \/ Encrypted(r)
    PROVE  Encrypted(ShiftTarget(l, r)) \/ Bad(ShiftTarget(l, r))
<1>1. \/ ShiftTarget(l, r) = l /\ IsEuint(l)
      \/ ShiftTarget(l, r) = r /\ IsEuint(r)
      \/ ShiftTarget(l, r) \in {Failed(2004), Failed(2001), Failed(2006)}
  <2>1. CASE IsEuint(l)
    <3>1. l # Unknown /\ l \notin {Ebool, Eaddress}
      BY <2>1 DEF IsEuint, Unknown, Ebool, Eaddress, T
    <3> QED BY <2>1, <3>1 DEF ShiftTarget
  <2>2. CASE l = Unknown
    BY <2>2 DEF ShiftTarget, IsEuint, Unknown, Ebool, Eaddress, T
  <2>3. CASE l \in {Ebool, Eaddress}
    BY <2>3 DEF ShiftTarget, IsEuint, Unknown, Ebool, Eaddress, T
  <2>4. CASE ~IsEuint(l) /\ l # Unknown /\ l \notin {Ebool, Eaddress}
    BY <2>4 DEF ShiftTarget
  <2> QED BY <2>1, <2>2, <2>3, <2>4
<1> QED BY <1>1, RefusedIsNone DEF Formed

LEMMA ArmsType ==
    ASSUME NEW a, NEW b, Formed(a), Formed(b)
    PROVE  Encrypted(ArmTarget(a, b)) \/ Bad(ArmTarget(a, b))
<1>1. \A t : ArmType(t) = Unknown \/ Encrypted(ArmType(t))
  BY DEF ArmType, Encrypted, ETypes, Bool, Address, T, Euint
<1>2. CASE Encrypted(a) \/ Encrypted(b)
  <2>1. CASE Unknown \in {a, b}
    <3>1. ArmTarget(a, b) \in {CommonTarget(a, b), Failed(2001)}
      BY <1>2, <2>1 DEF ArmTarget
    <3> QED BY <1>2, <3>1, CommonType, RefusedIsNone
  <2>2. CASE Unknown \notin {a, b}
    BY <1>2, <2>2, CommonType DEF ArmTarget
  <2> QED BY <2>1, <2>2
<1>3. CASE ~(Encrypted(a) \/ Encrypted(b))
  <2>1. CASE Unknown \in {a, b}
    BY <1>3, <2>1, RefusedIsNone DEF ArmTarget
  <2>2. CASE Unknown \notin {a, b}
    <3> DEFINE x == ArmType(a)
               y == ArmType(b)
    <3>1. \/ ArmTarget(a, b) = Failed(2008)
          \/ ArmTarget(a, b) = x /\ x # Unknown
          \/ ArmTarget(a, b) = y /\ y # Unknown
      <4>1. ArmTarget(a, b) =
              CASE x # Unknown /\ x = y -> x
                [] x # Unknown /\ y = Unknown /\ b.k = "lit" -> x
                [] x = Unknown /\ y # Unknown /\ a.k = "lit" -> y
                [] OTHER -> Failed(2008)
        BY <1>3, <2>2 DEF ArmTarget
      <4> HIDE DEF x, y
      <4> QED BY <4>1
    <3> QED BY <1>1, <3>1, RefusedIsNone
  <2> QED BY <2>1, <2>2
<1> QED BY <1>2, <1>3

\* what the checker and the library think of an operand
Faithful(x) == Encrypted(x.ty) => x.lib \in {x.ty, Refused}

\* a planned operand reaches the library with the type planned for
LEMMA PlanWraps ==
    ASSUME NEW x, NEW to, Formed(x.ty), Faithful(x), Encrypted(to),
           Plan(x.ty, to) \in Conversions
    PROVE  /\ Wrapped(x, Plan(x.ty, to), to) \in {to, Refused}
           /\ x.lib # Refused => Wrapped(x, Plan(x.ty, to), to) = to
<1>1. CASE x.ty = to
  BY <1>1 DEF Plan, Wrapped, Faithful
<1>2. CASE x.ty # to /\ IsEuint(x.ty) /\ IsEuint(to)
  <2>1. x.ty.k # "lit" /\ x.ty # Unknown
    BY <1>2 DEF IsEuint, Unknown, T
  <2>2. Plan(x.ty, to) = "widen" /\ x.ty.n < to.n
    BY <1>2, <2>1 DEF Plan, Conversions
  <2>3. x.lib \in {x.ty, Refused}
    BY <1>2 DEF Formed, Faithful
  <2> QED BY <1>2, <2>2, <2>3, RefusedIsNone DEF Wrapped
<1>3. CASE x.ty # to /\ Encrypted(x.ty) /\ ~(IsEuint(x.ty) /\ IsEuint(to))
  <2>1. x.ty.k # "lit" /\ x.ty # Unknown
    BY <1>3, EncryptedKinds
  <2> QED BY <1>3, <2>1 DEF Plan, Conversions
<1>4. CASE x.ty # to /\ ~Encrypted(x.ty)
  <2>1. ~IsEuint(x.ty)
    BY <1>4 DEF Formed
  <2>2. Plan(x.ty, to) \in {"literal", "trivial"}
    <3>1. CASE x.ty.k = "lit"
      <4>1. x.ty # Unknown
        BY <3>1 DEF Unknown, T
      <4> QED BY <1>4, <2>1, <3>1, <4>1 DEF Plan, Conversions
    <3>2. CASE x.ty.k # "lit"
      BY <1>4, <2>1, <3>2 DEF Plan, Conversions
    <3> QED BY <3>1, <3>2
  <2> QED BY <2>2 DEF Wrapped
<1> QED BY <1>1, <1>2, <1>3, <1>4

\* no function of the library takes what another one refused to return
LEMMA NoneAccepted == ASSUME NEW op PROVE ~Accepts(op, Refused)
BY RefusedIsNone DEF Accepts

LEMMA ProfileTwo ==
    ASSUME NEW op, op # "select", NEW to, Accepts(op, to),
           NEW a \in {to, Refused}, NEW b \in {to, Refused}
    PROVE  /\ Profile(op, <<a, b>>) \in {ResultOf(op, to), Refused}
           /\ a = to /\ b = to => Profile(op, <<a, b>>) = ResultOf(op, to)
<1>1. /\ <<a, b>>[1] = a /\ <<a, b>>[2] = b
      /\ \A i \in DOMAIN <<a, b>> : i = 1 \/ i = 2
      /\ 1 \in DOMAIN <<a, b>> /\ 2 \in DOMAIN <<a, b>>
  OBVIOUS
<1> DEFINE v == <<a, b>>
<1>2. Profile(op, v) = IF /\ Accepts(op, v[1])
                          /\ \A i \in DOMAIN v : v[i] = v[1]
                       THEN ResultOf(op, v[1]) ELSE Refused
  BY DEF Profile
<1> HIDE DEF v
<1>3. v[1] = a /\ v[2] = b /\ 2 \in DOMAIN v /\ \A i \in DOMAIN v : i = 1 \/ i = 2
  BY <1>1 DEF v
<1>4. CASE a = to
  BY <1>2, <1>3, <1>4 DEF v
<1>5. CASE a # to
  BY <1>2, <1>3, <1>5, NoneAccepted DEF v
<1> QED BY <1>4, <1>5

LEMMA ProfileOne ==
    ASSUME NEW op, op # "select", NEW to, Accepts(op, to), NEW a \in {to, Refused}
    PROVE  /\ Profile(op, <<a>>) \in {ResultOf(op, to), Refused}
           /\ a = to => Profile(op, <<a>>) = ResultOf(op, to)
<1> DEFINE v == <<a>>
<1>1. v[1] = a /\ \A i \in DOMAIN v : v[i] = v[1]
  OBVIOUS
<1>2. Profile(op, v) = IF /\ Accepts(op, v[1])
                          /\ \A i \in DOMAIN v : v[i] = v[1]
                       THEN ResultOf(op, v[1]) ELSE Refused
  BY DEF Profile
<1> HIDE DEF v
<1>3. CASE a = to
  BY <1>1, <1>2, <1>3 DEF v
<1>4. CASE a # to
  BY <1>1, <1>2, <1>4, NoneAccepted DEF v
<1> QED BY <1>3, <1>4

LEMMA ProfileSelect ==
    ASSUME NEW to, Encrypted(to), NEW c \in {Ebool, Refused},
           NEW a \in {to, Refused}, NEW b \in {to, Refused}
    PROVE  /\ Profile("select", <<c, a, b>>) \in {to, Refused}
           /\ c = Ebool /\ a = to /\ b = to => Profile("select", <<c, a, b>>) = to
<1> DEFINE args == <<c, a, b>>
           v    == Tail(args)
<1>1. /\ args[1] = c /\ Len(args) = 3 /\ v[1] = a /\ v[2] = b /\ 2 \in DOMAIN v
      /\ \A i \in DOMAIN v : i = 1 \/ i = 2
  OBVIOUS
<1>2. Profile("select", args) = IF /\ Len(args) = 3 /\ args[1] = Ebool
                                   /\ Accepts("select", v[1])
                                   /\ \A i \in DOMAIN v : v[i] = v[1]
                                THEN ResultOf("select", v[1]) ELSE Refused
  BY DEF Profile
<1> HIDE DEF v, args
<1>3. \A t : ResultOf("select", t) = t /\ (Accepts("select", t) <=> Encrypted(t))
  BY DEF ResultOf, Accepts, Compare, Order, Equal, Bits, Arith, Shifts
<1>4. CASE a = to
  BY <1>1, <1>2, <1>3, <1>4 DEF args
<1>5. CASE a # to
  BY <1>1, <1>2, <1>3, <1>5, RefusedIsNone DEF args
<1> QED BY <1>4, <1>5

\* the library has a function for every operator the checker lets pass
LEMMA LegalAccepted ==
    ASSUME NEW op \in BinOps \ {"**", ">>>"}, NEW to, Encrypted(to), Legal(op, to)
    PROVE  Accepts(FheOp(op), to) /\ FheOp(op) # "select"
<1>1. CASE op \in Equal
  BY <1>1 DEF Equal, FheOp, Accepts, Bits, Arith, Shifts, Order
<1>2. CASE op \in Bits
  BY <1>2 DEF Legal, Equal, FheOp, Accepts, Bits, Arith, Shifts, Order, Logic
<1>3. CASE op \in Logic
  BY <1>3 DEF Legal, Equal, FheOp, Accepts, Bits, Arith, Shifts, Order, Logic
<1>4. CASE op \in Order
  BY <1>4 DEF Legal, Equal, FheOp, Accepts, Bits, Arith, Shifts, Order, Logic
<1>5. CASE op \in Shifts
  BY <1>5 DEF Legal, Equal, FheOp, Accepts, Bits, Arith, Shifts, Order, Logic
<1>6. CASE op \in Arith \ {"**"}
  BY <1>6 DEF Legal, Equal, FheOp, Accepts, Bits, Arith, Shifts, Order, Logic
<1> QED BY <1>1, <1>2, <1>3, <1>4, <1>5, <1>6 DEF BinOps, Compare

LEMMA RenderedTwo ==
    ASSUME NEW s, NEW l, NEW r, NEW p, NEW q, s.args = <<l, r>>, s.plans = <<p, q>>
    PROVE  Rendered(s) = Profile(s.op, <<Wrapped(l, p, s.to), Wrapped(r, q, s.to)>>)
<1>1. [i \in DOMAIN <<l, r>> |-> Wrapped(<<l, r>>[i], <<p, q>>[i], s.to)]
         = <<Wrapped(l, p, s.to), Wrapped(r, q, s.to)>>
  OBVIOUS
<1> QED BY <1>1 DEF Rendered

-----------------------------------------------------------------------------
(* What the nodes and the site satisfy                                     *)

\* an effect of the operand is one that side_effect_span finds
Seen(x) == x.acts => x.seen

\* what solc makes of a plaintext operand, by the type the checker gave it
Sound(x) ==
    /\ x.sol.k = "any" => x.ty = Unknown
    /\ x.sol.k = "rat" => x.ty.k = "lit"
    /\ x.ty = Bool => x.sol = SBool
    /\ x.ty = Address => x.sol = SAddress
    /\ x.ty.k = "uint" => /\ x.ty.n \in PlainWidths
                          /\ \E w \in PlainWidths : x.sol = SUint(w) /\ w <= x.ty.n
    /\ x.ty.k = "lit" /\ x.ty.n # None =>
          /\ x.ty.n \in Nat
          /\ \/ x.sol = S("rat", x.ty.n, 1)
             \/ \E w \in PlainWidths :
                   /\ x.sol = SUint(w)
                   /\ \A v \in PlainWidths : x.ty.n < 2 ^ v => w <= v

NodeOK(x) == /\ Formed(x.ty) /\ Faithful(x)
             /\ "receiver" \notin Acting => Seen(x)
             /\ Combines = {} => Sound(x)

\* the three properties, of a site
SiteTyped(s) ==
    (s # NoSite /\ \A i \in DOMAIN s.args : s.args[i].lib # Refused)
        => Rendered(s) = s.result
SiteExact(s) ==
    \A i \in DOMAIN s.args :
        s.plans[i] \in {"literal", "trivial"} /\ Converts(s.args[i].sol)
            => Exact(s.args[i].sol, s.to)
SiteEffects(s) ==
    /\ s.source \in Logic => \A i \in DOMAIN s.args : ~s.args[i].acts
    /\ s.source = "?:" => ~s.args[2].acts /\ ~s.args[3].acts
    /\ s.source = "L op=" => ~s.args[1].acts

SiteOK(s) == /\ SiteTyped(s)
             /\ {"receiver", "target"} \cap Acting = {} => SiteEffects(s)
             /\ Combines = {} => SiteExact(s)

TInv == /\ Proper(stack)
        /\ \A i \in DOMAIN stack : NodeOK(stack[i])
        /\ SiteOK(site)

LEMMA NoSiteOK == SiteOK(NoSite)
<1>1. NoSite.args = << >> /\ NoSite.source = "none"
  BY DEF NoSite
<1>2. DOMAIN << >> = {}
  OBVIOUS
<1> QED BY <1>1, <1>2 DEF SiteOK, SiteTyped, SiteExact, SiteEffects, Logic

LEMMA NextState ==
    ASSUME Proper(stack'), \A i \in DOMAIN stack' : NodeOK(stack'[i]), SiteOK(site')
    PROVE  TInv'
BY DEF TInv, Proper, NodeOK, Faithful, Seen, SiteOK, SiteTyped, SiteExact, SiteEffects, Rendered

LEMMA Replaced ==
    ASSUME TInv, NEW n \in 0..Len(stack), NEW x, NodeOK(x),
           stack' = <<x>> \o SubSeq(stack, n + 1, Len(stack)), SiteOK(site')
    PROVE  TInv'
<1>1. /\ Proper(stack')
      /\ \A i \in DOMAIN stack' : stack'[i] = x \/ \E j \in DOMAIN stack : stack'[i] = stack[j]
  <2>1. Proper(stack)
    BY DEF TInv
  <2> QED BY <2>1, Pushed
<1>2. \A i \in DOMAIN stack' : NodeOK(stack'[i])
  BY <1>1 DEF TInv
<1> QED BY <1>1, <1>2, NextState

\* an expression is visited after its operands
LEMMA Yielded ==
    ASSUME TInv, NEW n \in 0..Len(stack), NEW x, NodeOK(x), NEW s, SiteOK(s), Yields(n, x, s)
    PROVE  TInv'
<1>1. /\ stack' = <<x>> \o SubSeq(stack, n + 1, Len(stack)) /\ site' = s
  BY DEF Yields, Pop
<1> QED BY <1>1, Replaced

\* refused: the stack is left as it is
LEMMA Refusing == ASSUME TInv, Refuses PROVE TInv'
<1>1. stack' = stack /\ site' = NoSite
  BY DEF Refuses
<1> QED BY <1>1, NoSiteOK DEF TInv

LEMMA TopTwo ==
    ASSUME TInv, Len(stack) >= 2
    PROVE  /\ 1 \in DOMAIN stack /\ 2 \in DOMAIN stack /\ NodeOK(Top) /\ NodeOK(Under)
           /\ 1 \in 0..Len(stack) /\ 2 \in 0..Len(stack) /\ Len(stack) \in Nat
BY DEF TInv, Proper, Top, Under

LEMMA TopOne ==
    ASSUME TInv, Len(stack) >= 1
    PROVE  1 \in DOMAIN stack /\ NodeOK(Top) /\ 1 \in 0..Len(stack)
BY DEF TInv, Proper, Top

-----------------------------------------------------------------------------
(* What solc makes of plaintext                                            *)

\* an operand that is converted loses nothing
LEMMA PlanExact ==
    ASSUME NEW x, Sound(x), NEW to, Encrypted(to),
           Plan(x.ty, to) \in {"literal", "trivial"}, Converts(x.sol)
    PROVE  Exact(x.sol, to)
<1>1. x.ty # to /\ ~(IsEuint(x.ty) /\ IsEuint(to)) /\ ~Encrypted(x.ty)
  <2>1. x.ty # to
    BY EncryptedKinds DEF Plan
  <2>2. ~(IsEuint(x.ty) /\ IsEuint(to))
    BY <2>1 DEF Plan, IsEuint, Unknown, T
  <2>3. ~Encrypted(x.ty)
    BY <2>1, <2>2, EncryptedKinds DEF Plan
  <2> QED BY <2>1, <2>2, <2>3
<1>2. CASE x.ty.k = "lit"
  <2>1. x.ty # Unknown
    BY <1>2 DEF Unknown, T
  <2>2. LiteralFits(x.ty.n, to)
    BY <1>1, <1>2, <2>1 DEF Plan
  <2>3. IsEuint(to) /\ x.ty.n \in Nat /\ x.ty.n < 2 ^ to.n /\ to.n \in PlainWidths
    BY <1>2, <2>2, EncryptedKinds, WidthAssumption DEF LiteralFits, Sound
  <2>4. CASE x.sol = S("rat", x.ty.n, 1)
    BY <2>3, <2>4 DEF Exact, Whole, S
  <2>5. CASE x.sol # S("rat", x.ty.n, 1)
    <3>1. PICK w \in PlainWidths : x.sol = SUint(w) /\ w <= to.n
      BY <1>2, <2>2, <2>3, <2>5 DEF Sound, LiteralFits
    <3> QED BY <2>3, <3>1 DEF Exact, SUint, S
  <2> QED BY <2>4, <2>5
<1>3. CASE x.ty.k # "lit"
  <2>1. ConvertsTo(x.ty, to)
    BY <1>1, <1>3 DEF Plan
  <2>2. CASE x.ty = Bool /\ to = Ebool
    BY <2>2 DEF Sound, Exact
  <2>3. CASE x.ty = Address /\ to = Eaddress
    BY <2>3 DEF Sound, Exact
  <2>4. CASE x.ty.k = "uint" /\ IsEuint(to) /\ x.ty.n <= to.n
    <3>1. PICK w \in PlainWidths : x.sol = SUint(w) /\ w <= x.ty.n
      BY <2>4 DEF Sound
    <3>2. x.ty.n \in Nat /\ w \in Nat /\ to.n \in Nat
      BY <2>4, EncryptedKinds, WidthAssumption DEF Sound
    <3> QED BY <2>4, <3>1, <3>2 DEF Exact, SUint, S
  <2> QED BY <2>1, <2>2, <2>3, <2>4 DEF ConvertsTo
<1> QED BY <1>2, <1>3

\* the type a literal takes on is the narrowest that holds it
LEMMA MobileLeast ==
    ASSUME NEW v \in Nat, Mobile(S("rat", v, 1)).k = "uint"
    PROVE  \E w \in PlainWidths :
              /\ Mobile(S("rat", v, 1)) = SUint(w)
              /\ \A u \in PlainWidths : v < 2 ^ u => w <= u
<1> DEFINE r == S("rat", v, 1)
           fit == {w \in PlainWidths : v < 2 ^ w}
<1>1. Whole(r) /\ r.n = v /\ r.k = "rat" /\ r.n >= 0
  BY DEF Whole, S
<1>2. fit # {}
  <2> SUFFICES ASSUME fit = {} PROVE FALSE
    OBVIOUS
  <2>1. ~\E w \in PlainWidths : r.n < 2 ^ w
    BY <1>1
  <2>2. Mobile(r) = Void
    <3> HIDE DEF r
    <3> QED BY <1>1, <2>1 DEF Mobile
  <2> QED BY <2>2 DEF Void, S
<1>3. fit \in SUBSET Nat
  BY WidthAssumption
<1>4. \E w \in fit : \A u \in fit : w <= u
  <2> HIDE DEF fit
  <2> QED BY <1>2, <1>3, Least
<1> DEFINE m == CHOOSE w \in PlainWidths :
                    /\ v < 2 ^ w
                    /\ \A u \in PlainWidths : v < 2 ^ u => w <= u
<1>5. /\ m \in PlainWidths
      /\ \A u \in PlainWidths : v < 2 ^ u => m <= u
  BY <1>4
<1>6. Mobile(r) = SUint(m)
  <2>1. \E w \in PlainWidths : r.n < 2 ^ w
    BY <1>1, <1>2
  <2>2. Mobile(r) = SUint(CHOOSE w \in PlainWidths :
                    /\ r.n < 2 ^ w
                    /\ \A u \in PlainWidths : r.n < 2 ^ u => w <= u)
    <3> HIDE DEF r
    <3> QED BY <1>1, <2>1 DEF Mobile
  <2> QED BY <1>1, <2>2
<1> QED BY <1>5, <1>6

LEMMA MobileUint == \A w : Mobile(SUint(w)) = SUint(w) /\ SUint(w).k = "uint" /\ SUint(w).n = w
BY DEF Mobile, SUint, S, Whole

\* a cast, a leaf
LEMMA CastSound ==
    ASSUME NEW x, NEW w \in PlainWidths, x.ty = Uint(w), x.sol = SUint(w)
    PROVE  Sound(x)
BY WidthAssumption DEF Sound, Uint, SUint, S, T, Unknown, Bool, Address

LEMMA LeafSound ==
    ASSUME NEW x, NEW t, NEW s, x.ty = t, x.sol = s,
           \/ t \in ETypes /\ s = Cipher
           \/ <<t, s>> \in {<<Bool, SBool>>, <<Address, SAddress>>, <<Opaque, Other>>,
                            <<Unknown, Any>>}
           \/ \E v \in Nat : t = Lit(IF Fits(v) THEN v ELSE None) /\ s = Rat(v, 1)
    PROVE  Sound(x)
<1>1. CASE t \in ETypes /\ s = Cipher
  BY <1>1, EncryptedKinds DEF Encrypted, Sound, Cipher, S
<1>2. CASE <<t, s>> \in {<<Bool, SBool>>, <<Address, SAddress>>, <<Opaque, Other>>,
                         <<Unknown, Any>>}
  BY <1>2 DEF Sound, Bool, Address, Opaque, Unknown, SBool, SAddress, Other, Any, T, S
<1>3. CASE \E v \in Nat : t = Lit(IF Fits(v) THEN v ELSE None) /\ s = Rat(v, 1)
  <2>1. PICK v \in Nat : t = Lit(IF Fits(v) THEN v ELSE None) /\ s = Rat(v, 1)
    BY <1>3
  <2>2. t.k = "lit" /\ t.n \in {v, None} /\ (t.n = v => v = None \/ Fits(v)) /\ None \notin Nat
    BY <2>1 DEF Lit, T, None
  <2>3. s = Void \/ s = S("rat", v, 1)
    BY <2>1 DEF Rat
  <2>4. Fits(v) => s = S("rat", v, 1)
    <3>1. Widest \in Nat
      BY WidthAssumption DEF Widest
    <3> QED BY <2>1, <3>1 DEF Rat, Small, Huge, Fits
  <2> QED BY <1>3, <2>1, <2>2, <2>3, <2>4 DEF Sound, Bool, Address, Unknown, T, S, Void
<1> QED BY <1>1, <1>2, <1>3

\* solc's types of the operators, without literals
LEMMA SolTypes ==
    ASSUME NEW op \in BinOps \ {">>>"}, NEW a, NEW b, a.k # "rat", b.k # "rat",
           SolBinary(op, a, b) # Void
    PROVE  \/ Any \in {a, b} /\ SolBinary(op, a, b) = Any
           \/ op \in Compare \cup Logic /\ SolBinary(op, a, b) = SBool
           \/ /\ op \in {"**"} \cup Shifts /\ a.k = "uint"
              /\ SolBinary(op, a, b) = a
           \/ /\ op \in (Arith \ {"**"}) \cup Bits /\ a.k = "uint" /\ b.k = "uint"
              /\ SolBinary(op, a, b) = SUint(Wider(a.n, b.n))
<1> DEFINE pair == {a.k, b.k}
<1>1. pair \in {{"uint"}, {"uint", "rat"}} => a.k = "uint" /\ b.k = "uint"
  OBVIOUS
<1>2. pair \in {{"uint"}, {"uint", "rat"}} => Void \notin {a, b} /\ Any \notin {a, b}
  BY <1>1 DEF Void, Any, S
<1>3. Mobile(a) = a /\ Mobile(b) = b
  BY DEF Mobile, Whole
<1>4. CASE Void \in {a, b}
  <2>1. pair \notin {{"uint"}, {"uint", "rat"}, {"bool"}, {"address"}, {"other"}} /\ Void.k = "void"
    BY <1>4 DEF Void, S
  <2>2. ~(a = SBool /\ b = SBool)
    BY <1>4 DEF Void, SBool, S
  <2>3. SolBinary(op, a, b) = Void
    BY <1>4, <2>1, <2>2 DEF SolBinary
  <2> QED BY <2>3
<1>5. CASE Void \notin {a, b} /\ Any \in {a, b}
  <2>1. pair \notin {{"uint"}, {"uint", "rat"}, {"bool"}, {"address"}, {"other"}}
    BY <1>5 DEF Any, S
  <2>2. ~(a = SBool /\ b = SBool)
    BY <1>5 DEF Any, SBool, S
  <2> QED BY <1>5, <2>1, <2>2 DEF SolBinary
<1>6. CASE Void \notin {a, b} /\ Any \notin {a, b}
  <2>1. CASE op \in {"**"} \cup Shifts
    <3>1. op \notin (Arith \ {"**"}) \cup Bits \cup Order \cup Equal \cup Logic
      BY <2>1 DEF Shifts, Arith, Bits, Order, Equal, Logic
    <3>2. pair \in {{"uint"}, {"uint", "rat"}}
      BY <1>6, <2>1, <3>1 DEF SolBinary
    <3>3. SolBinary(op, a, b) = a
      BY <1>1, <1>3, <1>6, <2>1, <3>1, <3>2 DEF SolBinary
    <3> QED BY <1>1, <2>1, <3>2, <3>3
  <2>2. CASE op \in (Arith \ {"**"}) \cup Bits
    <3>1. op \notin {"**"} \cup Shifts \cup Order \cup Equal \cup Logic
      BY <2>2 DEF Shifts, Arith, Bits, Order, Equal, Logic
    <3>2. pair \in {{"uint"}, {"uint", "rat"}}
      BY <1>6, <2>2, <3>1 DEF SolBinary
    <3>3. SolBinary(op, a, b) = SUint(Wider(a.n, b.n))
      BY <1>1, <1>3, <1>6, <2>2, <3>1, <3>2 DEF SolBinary
    <3> QED BY <1>1, <2>2, <3>2, <3>3
  <2>3. CASE op \in Order \cup Equal \cup Logic
    <3>1. op \notin {"**"} \cup Shifts \cup (Arith \ {"**"}) \cup Bits
      BY <2>3 DEF Shifts, Arith, Bits, Order, Equal, Logic
    <3>2. SolBinary(op, a, b) \in {SBool, Void}
      BY <1>6, <2>3, <3>1 DEF SolBinary, Order, Equal, Logic
    <3> QED BY <2>3, <3>2 DEF Compare
  <2> QED BY <2>1, <2>2, <2>3 DEF BinOps, Compare
<1> QED BY <1>4, <1>5, <1>6

\* an operator of plaintext, where the author combines no literals and no
\* two widths under a bit operator
LEMMA PlainSound ==
    ASSUME Combines = {}, NEW l, NEW r, Sound(l), Sound(r),
           NEW op \in BinOps \ {">>>"}, NEW x,
           Allowed(op, l, r), SolBinary(op, l.sol, r.sol) # Void,
           x.ty = PlainBinary(op, l.ty, r.ty), x.sol = SolBinary(op, l.sol, r.sol)
    PROVE  Sound(x)
<1>1. /\ l.ty.k # "lit" /\ r.ty.k # "lit" /\ l.sol.k # "rat" /\ r.sol.k # "rat"
      /\ op \in Bits => l.sol = r.sol
  BY DEF Allowed, Sound
<1>2. \/ Any \in {l.sol, r.sol} /\ x.sol = Any
      \/ op \in Compare \cup Logic /\ x.sol = SBool
      \/ op \in {"**"} \cup Shifts /\ l.sol.k = "uint" /\ x.sol = l.sol
      \/ /\ op \in (Arith \ {"**"}) \cup Bits /\ l.sol.k = "uint" /\ r.sol.k = "uint"
         /\ x.sol = SUint(Wider(l.sol.n, r.sol.n))
  BY <1>1, SolTypes
<1>3. CASE Unknown \in {l.ty, r.ty}
  <2>1. x.ty = Unknown
    BY <1>3 DEF PlainBinary
  <2>2. x.sol.k # "rat"
    BY <1>1, <1>2 DEF Any, SBool, SUint, S
  <2> QED BY <2>1, <2>2 DEF Sound, Unknown, Bool, Address, T
<1>4. CASE Unknown \notin {l.ty, r.ty}
  <2>1. Any \notin {l.sol, r.sol}
    BY <1>4 DEF Sound, Any, S
  <2>2. CASE op \in Compare \cup Logic
    <3>1. op \notin {"**"} \cup Shifts \cup (Arith \ {"**"}) \cup Bits \cup Arith
      BY <2>2 DEF Shifts, Arith, Bits, Order, Equal, Logic, Compare
    <3>2. x.sol = SBool /\ x.ty = Bool
      BY <1>2, <1>4, <2>1, <2>2, <3>1 DEF PlainBinary
    <3> QED BY <3>2 DEF Sound, SBool, S, Bool, Address, T
  <2>3. CASE op \in Arith
    <3>1. op \notin Compare \cup Logic \cup Bits \cup Shifts
      BY <2>3 DEF Shifts, Arith, Bits, Order, Equal, Logic, Compare
    <3>2. CASE l.ty.k = "uint" /\ r.ty.k = "uint"
      <4>1. x.ty = Uint(Wider(l.ty.n, r.ty.n))
        BY <1>1, <1>4, <2>3, <3>1, <3>2 DEF PlainBinary
      <4>2. PICK a \in PlainWidths : l.sol = SUint(a) /\ a <= l.ty.n
        BY <3>2 DEF Sound
      <4>3. PICK b \in PlainWidths : r.sol = SUint(b) /\ b <= r.ty.n
        BY <3>2 DEF Sound
      <4>4. /\ l.ty.n \in PlainWidths /\ r.ty.n \in PlainWidths /\ PlainWidths \in SUBSET Nat
            /\ l.sol.n = a /\ r.sol.n = b
        BY <3>2, <4>2, <4>3, MobileUint, WidthAssumption DEF Sound
      <4>5. /\ Wider(l.ty.n, r.ty.n) \in PlainWidths /\ Wider(a, b) \in PlainWidths
            /\ Wider(a, b) <= Wider(l.ty.n, r.ty.n) /\ a <= Wider(l.ty.n, r.ty.n)
        <5>1. /\ a \in Nat /\ b \in Nat /\ l.ty.n \in Nat /\ r.ty.n \in Nat
              /\ a <= l.ty.n /\ b <= r.ty.n
          BY <4>2, <4>3, <4>4
        <5>2. \A m, n \in Nat : /\ Wider(m, n) \in {m, n}
                                /\ m <= Wider(m, n) /\ n <= Wider(m, n)
          BY DEF Wider
        <5>3. Wider(l.ty.n, r.ty.n) \in PlainWidths /\ Wider(a, b) \in PlainWidths
          BY <4>4, <5>1, <5>2
        <5>4. /\ Wider(l.ty.n, r.ty.n) \in Nat
              /\ l.ty.n <= Wider(l.ty.n, r.ty.n) /\ r.ty.n <= Wider(l.ty.n, r.ty.n)
          BY <4>4, <5>1, <5>2, <5>3
        <5>5. a <= Wider(l.ty.n, r.ty.n) /\ b <= Wider(l.ty.n, r.ty.n)
          BY <5>1, <5>4
        <5> QED BY <5>1, <5>2, <5>3, <5>5
      <4>6. PICK w \in PlainWidths : x.sol = SUint(w) /\ w <= Wider(l.ty.n, r.ty.n)
        BY <1>2, <2>1, <3>1, <4>2, <4>4, <4>5
      <4> QED BY <4>1, <4>5, <4>6 DEF Sound, Uint, SUint, S, T, Unknown, Bool, Address
    <3>3. CASE ~(l.ty.k = "uint" /\ r.ty.k = "uint")
      <4>1. x.ty = Opaque
        BY <1>1, <1>4, <2>3, <3>1, <3>3 DEF PlainBinary
      <4>2. x.sol.k = "uint"
        BY <1>2, <2>1, <3>1 DEF SUint, S
      <4> QED BY <4>1, <4>2 DEF Sound, Opaque, T, Unknown, Bool, Address
    <3> QED BY <3>2, <3>3
  <2>4. CASE op \in Bits \cup Shifts
    <3>1. op \notin Compare \cup Logic \cup Arith
      BY <2>4 DEF Shifts, Arith, Bits, Order, Equal, Logic, Compare
    <3>2. x.ty = IF l.ty.k = "uint" THEN l.ty ELSE Opaque
      BY <1>1, <1>4, <3>1 DEF PlainBinary
    <3>3. x.sol.k = "uint"
      BY <1>2, <2>1, <3>1 DEF SUint, S
    <3>4. CASE l.ty.k = "uint"
      <4>1. PICK a \in PlainWidths : l.sol = SUint(a) /\ a <= l.ty.n
        BY <3>4 DEF Sound
      <4>2. Wider(a, a) = a /\ l.sol.n = a
        BY <4>1, MobileUint DEF Wider
      <4>3. op \in Shifts => op \notin Bits
        BY DEF Shifts, Bits
      <4>4. x.sol = SUint(a)
        BY <1>1, <1>2, <2>1, <2>4, <3>1, <4>1, <4>2, <4>3
      <4> QED BY <3>2, <3>3, <3>4, <4>1, <4>4 DEF Sound, SUint, S, Unknown, Bool, Address, T
    <3>5. CASE l.ty.k # "uint"
      BY <3>2, <3>3, <3>5 DEF Sound, Opaque, T, Unknown, Bool, Address
    <3> QED BY <3>4, <3>5
  <2> QED BY <2>2, <2>3, <2>4 DEF BinOps
<1> QED BY <1>3, <1>4

LEMMA UnarySound ==
    ASSUME Combines = {}, NEW t, Sound(t), NEW op \in {"-", "~", "!"}, NEW x,
           SolUnary(op, t.sol) # Void, op = "~" => Allowed(op, t, t),
           x.ty = PlainUnary(op, t.ty), x.sol = SolUnary(op, t.sol)
    PROVE  Sound(x)
<1>1. CASE t.sol = Any
  <2>1. t.ty = Unknown /\ t.sol.k = "any" /\ ~Whole(t.sol) /\ t.sol # SBool
    BY <1>1 DEF Sound, Any, S, Whole, SBool
  <2>2. x.ty = Unknown /\ x.sol = Any
    BY <1>1, <2>1 DEF PlainUnary, SolUnary
  <2> QED BY <2>2 DEF Sound, Unknown, Any, S, T, Bool, Address
<1>2. CASE t.sol # Any /\ op = "-"
  <2>1. t.sol.k = "rat" /\ x.sol = Rat(-t.sol.n, t.sol.d)
    BY <1>2 DEF SolUnary
  <2>2. x.sol.k = "rat"
    BY <2>1 DEF Rat, S
  <2>3. t.ty.k = "lit" /\ t.ty # Unknown
    BY <2>1 DEF Sound, Unknown, T
  <2>4. x.ty = Lit(None)
    BY <1>2, <2>3 DEF PlainUnary
  <2> QED BY <2>2, <2>4 DEF Sound, Lit, T, Unknown, Bool, Address
<1>3. CASE t.sol # Any /\ op = "~"
  <2>1. t.ty.k # "lit" /\ t.sol.k # "rat"
    BY <1>3 DEF Allowed, Sound
  <2>2. t.sol.k = "uint" /\ x.sol = t.sol
    BY <1>3, <2>1 DEF SolUnary, Whole
  <2>3. x.ty = t.ty
    BY <1>3 DEF PlainUnary
  <2> QED BY <2>2, <2>3 DEF Sound
<1>4. CASE t.sol # Any /\ op = "!"
  <2>1. t.sol = SBool /\ x.sol = SBool
    BY <1>4 DEF SolUnary
  <2>2. x.ty \in {Unknown, Bool}
    BY <1>4 DEF PlainUnary
  <2> QED BY <2>1, <2>2 DEF Sound, SBool, S, Unknown, Bool, Address, T
<1> QED BY <1>1, <1>2, <1>3, <1>4

\* the width that a value of a literal type takes on
LEMMA LitMobile ==
    ASSUME NEW x, Sound(x), x.ty.k = "lit", x.ty.n # None, Mobile(x.sol).k = "uint"
    PROVE  \E w \in PlainWidths : /\ Mobile(x.sol) = SUint(w)
                                  /\ \A v \in PlainWidths : x.ty.n < 2 ^ v => w <= v
<1>1. CASE x.sol = S("rat", x.ty.n, 1)
  <2>1. x.ty.n \in Nat
    BY DEF Sound
  <2> QED BY <1>1, <2>1, MobileLeast
<1>2. CASE x.sol # S("rat", x.ty.n, 1)
  BY <1>2, MobileUint DEF Sound
<1> QED BY <1>1, <1>2

\* c ? l : r, whose type is that of both arms or unknown
LEMMA ChooseSound ==
    ASSUME NEW l, NEW r, Sound(l), Sound(r), NEW x, SolEither(l.sol, r.sol) # Void,
           x.ty = IF l.ty = r.ty THEN r.ty ELSE Unknown, x.sol = SolEither(l.sol, r.sol)
    PROVE  Sound(x)
<1>1. \/ l.sol = r.sol /\ l.sol.k # "rat" /\ x.sol = l.sol
      \/ /\ Mobile(l.sol).k = "uint" /\ Mobile(r.sol).k = "uint"
         /\ x.sol = SUint(Wider(Mobile(l.sol).n, Mobile(r.sol).n))
      \/ Any \in {l.sol, r.sol} /\ x.sol = Any
  BY DEF SolEither
<1>2. CASE l.sol = r.sol /\ l.sol.k # "rat" /\ x.sol = l.sol
  <2>1. CASE l.ty = r.ty
    BY <1>2, <2>1 DEF Sound
  <2>2. CASE l.ty # r.ty
    BY <1>2, <2>2 DEF Sound, Unknown, T, Bool, Address
  <2> QED BY <2>1, <2>2
<1>3. CASE Any \in {l.sol, r.sol} /\ x.sol = Any
  <2>1. x.ty = Unknown
    BY <1>3 DEF Sound, Any, S
  <2> QED BY <1>3, <2>1 DEF Sound, Any, S, Unknown, T, Bool, Address
<1>4. CASE /\ Mobile(l.sol).k = "uint" /\ Mobile(r.sol).k = "uint"
           /\ x.sol = SUint(Wider(Mobile(l.sol).n, Mobile(r.sol).n))
  <2>1. x.sol.k = "uint"
    BY <1>4, MobileUint
  <2>2. CASE l.ty # r.ty
    BY <2>1, <2>2 DEF Sound, Unknown, T, Bool, Address
  <2>3. CASE l.ty = r.ty /\ x.ty.k = "uint"
    <3>1. PICK a \in PlainWidths : l.sol = SUint(a) /\ a <= x.ty.n
      BY <2>3 DEF Sound
    <3>2. PICK b \in PlainWidths : r.sol = SUint(b) /\ b <= x.ty.n
      BY <2>3 DEF Sound
    <3>3. x.sol = SUint(Wider(a, b)) /\ Wider(a, b) \in {a, b}
      BY <1>4, <3>1, <3>2, MobileUint DEF Wider
    <3>4. x.ty.n \in PlainWidths
      BY <2>3 DEF Sound
    <3> QED BY <2>1, <2>3, <3>1, <3>2, <3>3, <3>4 DEF Sound, Unknown, T, Bool, Address
  <2>4. CASE l.ty = r.ty /\ x.ty.k = "lit" /\ x.ty.n # None
    <3>1. PICK a \in PlainWidths : /\ Mobile(l.sol) = SUint(a)
                                   /\ \A v \in PlainWidths : x.ty.n < 2 ^ v => a <= v
      BY <1>4, <2>4, LitMobile
    <3>2. PICK b \in PlainWidths : /\ Mobile(r.sol) = SUint(b)
                                   /\ \A v \in PlainWidths : x.ty.n < 2 ^ v => b <= v
      BY <1>4, <2>4, LitMobile
    <3>3. x.sol = SUint(Wider(a, b)) /\ Wider(a, b) \in {a, b}
      BY <1>4, <3>1, <3>2, MobileUint DEF Wider
    <3>4. x.ty.n \in Nat
      BY <2>4 DEF Sound
    <3>5. \E w \in PlainWidths : /\ x.sol = SUint(w)
                                 /\ \A v \in PlainWidths : x.ty.n < 2 ^ v => w <= v
      BY <3>1, <3>2, <3>3
    <3> QED BY <2>1, <2>4, <3>4, <3>5 DEF Sound, Unknown, T, Bool, Address
  <2>5. CASE l.ty = r.ty /\ x.ty \in {Bool, Address}
    <3>1. l.sol \in {SBool, SAddress}
      BY <2>5 DEF Sound
    <3>2. Mobile(l.sol) = l.sol /\ l.sol.k # "uint"
      BY <3>1 DEF Mobile, SBool, SAddress, S, Whole
    <3> QED BY <1>4, <3>2
  <2>6. CASE /\ l.ty = r.ty /\ x.ty \notin {Bool, Address} /\ x.ty.k # "uint"
             /\ ~(x.ty.k = "lit" /\ x.ty.n # None)
    BY <2>1, <2>6 DEF Sound
  <2> QED BY <2>2, <2>3, <2>4, <2>5, <2>6
<1> QED BY <1>1, <1>2, <1>3, <1>4

-----------------------------------------------------------------------------
(* The handlers                                                            *)

LEMMA NodeFields ==
    ASSUME NEW ty, NEW lib, NEW sol, NEW acts, NEW seen
    PROVE  /\ Node(ty, lib, sol, acts, seen).ty = ty
           /\ Node(ty, lib, sol, acts, seen).lib = lib
           /\ Node(ty, lib, sol, acts, seen).sol = sol
           /\ Node(ty, lib, sol, acts, seen).acts = acts
           /\ Node(ty, lib, sol, acts, seen).seen = seen
BY DEF Node

\* an expression has the effects of its operands, and is searched with them
LEMMA SeenAll ==
    ASSUME NEW ns, \A x \in ns : Seen(x), NEW ty, NEW lib, NEW sol
    PROVE  /\ Seen(Plain(ty, sol, ns)) /\ Seen(Secret(ty, lib, ns))
           /\ Plain(ty, sol, ns).ty = ty /\ Plain(ty, sol, ns).lib = NoLib
           /\ Plain(ty, sol, ns).sol = sol
           /\ Secret(ty, lib, ns).ty = ty /\ Secret(ty, lib, ns).lib = lib
           /\ Secret(ty, lib, ns).sol = Cipher
BY DEF Seen, Plain, Secret, Node

LEMMA PlainFields ==
    ASSUME NEW ns, NEW ty, NEW lib, NEW sol
    PROVE  /\ Plain(ty, sol, ns).ty = ty /\ Plain(ty, sol, ns).lib = NoLib
           /\ Plain(ty, sol, ns).sol = sol
           /\ Secret(ty, lib, ns).ty = ty /\ Secret(ty, lib, ns).lib = lib
           /\ Secret(ty, lib, ns).sol = Cipher
BY DEF Plain, Secret, Node

\* no plaintext operator makes an encrypted type
LEMMA StillPlain ==
    ASSUME NEW op, NEW l, NEW r, ~Encrypted(l), ~IsEuint(l), ~Encrypted(r), ~IsEuint(r)
    PROVE  /\ ~Encrypted(PlainBinary(op, l, r)) /\ ~IsEuint(PlainBinary(op, l, r))
           /\ ~Encrypted(PlainUnary(op, l)) /\ ~IsEuint(PlainUnary(op, l))
<1>1. \A t : t.k \in {"unknown", "bool", "lit", "uint", "opaque"} => ~Encrypted(t) /\ ~IsEuint(t)
  BY EncryptedKinds DEF IsEuint
<1>2. /\ Unknown.k = "unknown" /\ Bool.k = "bool" /\ Opaque.k = "opaque"
      /\ \A v : Lit(v).k = "lit" /\ Uint(v).k = "uint"
  BY DEF Unknown, Bool, Opaque, Lit, Uint, T
<1>3. \/ PlainBinary(op, l, r) \in {l, r, Unknown, Bool, Opaque}
      \/ \E v : PlainBinary(op, l, r) \in {Lit(v), Uint(v)}
  <2> DEFINE X == PlainBinary(op, l, r)
  <2>1. CASE Unknown \in {l, r}
    BY <2>1 DEF PlainBinary
  <2>2. CASE Unknown \notin {l, r} /\ op \in Compare \cup Logic
    <3>1. op \notin Arith
      BY <2>2 DEF Compare, Order, Equal, Logic, Arith
    <3> QED BY <2>2, <3>1 DEF PlainBinary
  <2>3. CASE Unknown \notin {l, r} /\ op \in Arith
    <3>1. op \notin Compare \cup Logic
      BY <2>3 DEF Compare, Order, Equal, Logic, Arith
    <3> QED BY <2>3, <3>1 DEF PlainBinary
  <2>4. CASE Unknown \notin {l, r} /\ op \notin Compare \cup Logic \cup Arith
    BY <2>4 DEF PlainBinary
  <2> QED BY <2>1, <2>2, <2>3, <2>4
<1>4. PlainUnary(op, l) \in {l, Unknown, Bool, Lit(None)}
  BY DEF PlainUnary
<1> QED BY <1>1, <1>2, <1>3, <1>4

LEMMA PlainNode ==
    ASSUME NEW x, ~Encrypted(x.ty), ~IsEuint(x.ty), Combines = {} => Sound(x),
           "receiver" \notin Acting => Seen(x)
    PROVE  NodeOK(x)
BY DEF NodeOK, Formed, Faithful

LEMMA ComputePlainOK == ASSUME TInv, ComputePlain PROVE TInv'
<1>1. /\ Len(stack) >= 2 /\ ~Encrypted(Under.ty) /\ ~Encrypted(Top.ty)
  BY DEF ComputePlain, Binary2
<1>2. PICK op \in BinOps \ {">>>"} :
          /\ SolBinary(op, Under.sol, Top.sol) # Void /\ Allowed(op, Under, Top)
          /\ Yields(2, Plain(PlainBinary(op, Under.ty, Top.ty),
                             SolBinary(op, Under.sol, Top.sol), {Under, Top}), NoSite)
  BY DEF ComputePlain
<1>3. NodeOK(Top) /\ NodeOK(Under) /\ 2 \in 0..Len(stack)
  BY <1>1, TopTwo
<1> DEFINE x == Plain(PlainBinary(op, Under.ty, Top.ty),
                      SolBinary(op, Under.sol, Top.sol), {Under, Top})
<1>4. x.ty = PlainBinary(op, Under.ty, Top.ty) /\ x.sol = SolBinary(op, Under.sol, Top.sol)
  BY PlainFields
<1>5. ~Encrypted(x.ty) /\ ~IsEuint(x.ty)
  BY <1>1, <1>3, <1>4, StillPlain DEF NodeOK, Formed
<1>6. "receiver" \notin Acting => Seen(x)
  BY <1>3, SeenAll DEF NodeOK
<1>7. Combines = {} => Sound(x)
  <2> HIDE DEF x
  <2> QED BY <1>2, <1>3, <1>4, PlainSound DEF NodeOK
<1> HIDE DEF x
<1>8. NodeOK(x)
  BY <1>5, <1>6, <1>7, PlainNode
<1>9. Yields(2, x, NoSite)
  BY <1>2 DEF x
<1> QED BY <1>3, <1>8, <1>9, NoSiteOK, Yielded

LEMMA ComputeUnaryOK == ASSUME TInv, ComputeUnary PROVE TInv'
<1>1. Len(stack) >= 1 /\ ~Encrypted(Top.ty)
  BY DEF ComputeUnary, Unary1
<1>2. PICK op \in {"-", "~", "!"} :
          /\ SolUnary(op, Top.sol) # Void /\ (op = "~" => Allowed(op, Top, Top))
          /\ Yields(1, Plain(PlainUnary(op, Top.ty), SolUnary(op, Top.sol), {Top}), NoSite)
  BY DEF ComputeUnary
<1>3. NodeOK(Top) /\ 1 \in 0..Len(stack)
  BY <1>1, TopOne
<1> DEFINE x == Plain(PlainUnary(op, Top.ty), SolUnary(op, Top.sol), {Top})
<1>4. x.ty = PlainUnary(op, Top.ty) /\ x.sol = SolUnary(op, Top.sol)
  BY PlainFields
<1>5. ~Encrypted(x.ty) /\ ~IsEuint(x.ty)
  BY <1>1, <1>3, <1>4, StillPlain DEF NodeOK, Formed
<1>6. "receiver" \notin Acting => Seen(x)
  BY <1>3, SeenAll DEF NodeOK
<1>7. Combines = {} => Sound(x)
  <2> HIDE DEF x
  <2> QED BY <1>2, <1>3, <1>4, UnarySound DEF NodeOK
<1> HIDE DEF x
<1>8. NodeOK(x)
  BY <1>5, <1>6, <1>7, PlainNode
<1>9. Yields(1, x, NoSite)
  BY <1>2 DEF x
<1> QED BY <1>3, <1>8, <1>9, NoSiteOK, Yielded

LEMMA CastPlainOK == ASSUME TInv, CastPlain PROVE TInv'
<1>1. Len(stack) >= 1 /\ ~Encrypted(Top.ty)
  BY DEF CastPlain, Unary1
<1>2. PICK w \in PlainWidths :
          /\ SolCast(w, Top.sol) # Void
          /\ Yields(1, Plain(Uint(w), SolCast(w, Top.sol), {Top}), NoSite)
  BY DEF CastPlain
<1>3. NodeOK(Top) /\ 1 \in 0..Len(stack)
  BY <1>1, TopOne
<1> DEFINE x == Plain(Uint(w), SolCast(w, Top.sol), {Top})
<1>4. x.ty = Uint(w) /\ x.sol = SUint(w)
  BY <1>2, PlainFields DEF SolCast
<1>5. ~Encrypted(x.ty) /\ ~IsEuint(x.ty)
  BY <1>4, EncryptedKinds DEF IsEuint, Uint, T
<1>6. "receiver" \notin Acting => Seen(x)
  BY <1>3, SeenAll DEF NodeOK
<1>7. Sound(x)
  <2> HIDE DEF x
  <2> QED BY <1>4, CastSound
<1> HIDE DEF x
<1>8. NodeOK(x)
  BY <1>5, <1>6, <1>7, PlainNode
<1>9. Yields(1, x, NoSite)
  BY <1>2 DEF x
<1> QED BY <1>3, <1>8, <1>9, NoSiteOK, Yielded

LEMMA SecretNode ==
    ASSUME NEW ty, Encrypted(ty), NEW lib \in {ty, Refused}, NEW ns, \A n \in ns : NodeOK(n)
    PROVE  NodeOK(Secret(ty, lib, ns))
<1> DEFINE x == Secret(ty, lib, ns)
<1>1. x.ty = ty /\ x.lib = lib /\ x.sol = Cipher
  BY PlainFields
<1>2. "receiver" \notin Acting => Seen(x)
  BY SeenAll DEF NodeOK
<1> HIDE DEF x
<1>3. Sound(x)
  BY <1>1, EncryptedKinds DEF Sound, Cipher, S
<1>4. NodeOK(x)
  BY <1>1, <1>2, <1>3 DEF NodeOK, Formed, Faithful
<1> QED BY <1>4 DEF x

\* a site of two operands, each planned for
LEMMA SiteTwo ==
    ASSUME NEW s, NEW l, NEW r, NEW p, NEW q, s.args = <<l, r>>, s.plans = <<p, q>>,
           s.op # "select", Accepts(s.op, s.to), s.result = ResultOf(s.op, s.to),
           Wrapped(l, p, s.to) \in {s.to, Refused}, Wrapped(r, q, s.to) \in {s.to, Refused},
           l.lib # Refused => Wrapped(l, p, s.to) = s.to,
           r.lib # Refused \/ q = "literal" => Wrapped(r, q, s.to) = s.to
    PROVE  Rendered(s) \in {s.result, Refused} /\ SiteTyped(s)
<1>1. Rendered(s) = Profile(s.op, <<Wrapped(l, p, s.to), Wrapped(r, q, s.to)>>)
  BY RenderedTwo
<1> DEFINE a == Wrapped(l, p, s.to)
           b == Wrapped(r, q, s.to)
<1>2. a \in {s.to, Refused} /\ b \in {s.to, Refused}
  OBVIOUS
<1>3. /\ Rendered(s) \in {s.result, Refused}
      /\ a = s.to /\ b = s.to => Rendered(s) = s.result
  <2> HIDE DEF a, b
  <2>1. /\ Profile(s.op, <<a, b>>) \in {ResultOf(s.op, s.to), Refused}
        /\ a = s.to /\ b = s.to => Profile(s.op, <<a, b>>) = ResultOf(s.op, s.to)
    BY <1>2, ProfileTwo
  <2>2. Rendered(s) = Profile(s.op, <<a, b>>)
    BY <1>1 DEF a, b
  <2> QED BY <2>1, <2>2
<1>4. (\A i \in DOMAIN s.args : s.args[i].lib # Refused) => l.lib # Refused /\ r.lib # Refused
  <2>1. s.args[1] = l /\ s.args[2] = r /\ 1 \in DOMAIN s.args /\ 2 \in DOMAIN s.args
    OBVIOUS
  <2> QED BY <2>1
<1> QED BY <1>3, <1>4 DEF SiteTyped

\* of two operands converted as planned
LEMMA ExactTwo ==
    ASSUME NEW s, NEW l, NEW r, NEW p, s.args = <<l, r>>, Encrypted(s.to), Sound(l), Sound(r),
           s.plans = <<p, Plan(r.ty, s.to)>>, p \in {"already", Plan(l.ty, s.to)}
    PROVE  SiteExact(s)
<1> SUFFICES ASSUME NEW i \in DOMAIN s.args,
                    s.plans[i] \in {"literal", "trivial"}, Converts(s.args[i].sol)
             PROVE  Exact(s.args[i].sol, s.to)
  BY DEF SiteExact
<1>1. \/ i = 1 /\ s.args[i] = l /\ s.plans[i] = p
      \/ i = 2 /\ s.args[i] = r /\ s.plans[i] = Plan(r.ty, s.to)
  OBVIOUS
<1>2. Sound(s.args[i]) /\ Plan(s.args[i].ty, s.to) \in {"literal", "trivial"}
  BY <1>1
<1> QED BY <1>2, PlanExact

LEMMA BinarySiteOK ==
    ASSUME NEW l, NEW r, NodeOK(l), NodeOK(r), Encrypted(l.ty) \/ Encrypted(r.ty),
           NEW op \in BinOps \ {"**", ">>>"}, NEW s, s = BinarySite(op, l, r),
           ~Hidden(op \in Logic, {l, r}), ~Bad(s.to), Legal(op, s.to), Planned(s)
    PROVE  /\ Encrypted(s.result) /\ Rendered(s) \in {s.result, Refused} /\ SiteOK(s)
<1>1. /\ s.args = <<l, r>> /\ s.plans = <<Plan(l.ty, s.to), Plan(r.ty, s.to)>>
      /\ s.op = FheOp(op) /\ s.result = ResultOf(s.op, s.to) /\ s.source = op
      /\ s.to = Target(op, l.ty, r.ty)
  BY DEF BinarySite
<1>2. Encrypted(s.to)
  BY <1>1, CommonType, ShiftType DEF Target, NodeOK
<1>3. Plan(l.ty, s.to) \in Conversions /\ Plan(r.ty, s.to) \in Conversions
  <2>1. s.plans[1] \in Conversions /\ s.plans[2] \in Conversions
    BY <1>1 DEF Planned
  <2> QED BY <1>1, <2>1
<1>4. Accepts(s.op, s.to) /\ s.op # "select"
  BY <1>1, <1>2, LegalAccepted
<1>5. Rendered(s) \in {s.result, Refused} /\ SiteTyped(s)
  <2>1. /\ Wrapped(l, Plan(l.ty, s.to), s.to) \in {s.to, Refused}
        /\ l.lib # Refused => Wrapped(l, Plan(l.ty, s.to), s.to) = s.to
    BY <1>2, <1>3, PlanWraps DEF NodeOK
  <2>2. /\ Wrapped(r, Plan(r.ty, s.to), s.to) \in {s.to, Refused}
        /\ r.lib # Refused => Wrapped(r, Plan(r.ty, s.to), s.to) = s.to
    BY <1>2, <1>3, PlanWraps DEF NodeOK
  <2>3. Plan(r.ty, s.to) = "literal" => Wrapped(r, Plan(r.ty, s.to), s.to) = s.to
    BY DEF Wrapped
  <2> QED BY <1>1, <1>4, <2>1, <2>2, <2>3, SiteTwo
<1>6. Encrypted(s.result)
  <2>1. FheOp(op) # "allow"
    BY DEF FheOp, BinOps, Arith, Bits, Shifts, Compare, Order, Equal, Logic
  <2>2. s.result \in {Ebool, s.to}
    BY <1>1, <2>1 DEF ResultOf
  <2> QED BY <1>2, <2>2 DEF Encrypted, ETypes
<1>7. Combines = {} => SiteExact(s)
  BY <1>1, <1>2, ExactTwo DEF NodeOK
<1>8. "receiver" \notin Acting => SiteEffects(s)
  <2> SUFFICES ASSUME "receiver" \notin Acting PROVE SiteEffects(s)
    OBVIOUS
  <2>1. op # "?:" /\ op # "L op="
    BY DEF BinOps, Arith, Bits, Shifts, Compare, Order, Equal, Logic
  <2>2. \A i \in DOMAIN s.args : s.args[i] \in {l, r}
    BY <1>1
  <2>3. op \in Logic => ~l.acts /\ ~r.acts
    BY DEF Hidden, NodeOK, Seen
  <2> QED BY <1>1, <2>1, <2>2, <2>3 DEF SiteEffects
<1> QED BY <1>5, <1>6, <1>7, <1>8 DEF SiteOK

LEMMA OperateOK == ASSUME TInv, Operate PROVE TInv'
<1>1. Len(stack) >= 2 /\ (Encrypted(Under.ty) \/ Encrypted(Top.ty))
  BY DEF Operate, Binary2
<1>2. NodeOK(Top) /\ NodeOK(Under) /\ 2 \in 0..Len(stack)
  BY <1>1, TopTwo
<1>3. PICK op \in BinOps :
          LET s == BinarySite(op, Under, Top)
          IN IF \/ op \in {"**", ">>>"} \/ Hidden(op \in Logic, {Under, Top})
                \/ Bad(s.to) \/ ~Legal(op, s.to) \/ ~Planned(s)
             THEN Refuses
             ELSE Yields(2, Secret(s.result, Rendered(s), {Under, Top}), s)
  BY DEF Operate
<1> DEFINE s == BinarySite(op, Under, Top)
           x == Secret(s.result, Rendered(s), {Under, Top})
<1>4. CASE Refuses
  BY <1>4, Refusing
<1>5. CASE ~Refuses
  <2>1. /\ op \in BinOps \ {"**", ">>>"} /\ ~Hidden(op \in Logic, {Under, Top})
        /\ ~Bad(s.to) /\ Legal(op, s.to) /\ Planned(s) /\ Yields(2, x, s)
    BY <1>3, <1>5
  <2>2. Encrypted(s.result) /\ Rendered(s) \in {s.result, Refused} /\ SiteOK(s)
    BY <1>1, <1>2, <2>1, BinarySiteOK
  <2>3. NodeOK(x)
    <3> HIDE DEF s
    <3> QED BY <1>2, <2>2, SecretNode
  <2> HIDE DEF s, x
  <2> QED BY <1>2, <2>1, <2>2, <2>3, Yielded
<1> QED BY <1>4, <1>5

LEMMA UnarySiteOK ==
    ASSUME NEW t, NodeOK(t), Encrypted(t.ty), NEW op \in {"-", "~", "!"},
           NEW to, to = UnaryTarget(op, t.ty), ~Bad(to),
           NEW s, s = [op |-> "not", args |-> <<t>>, to |-> to, source |-> op,
                       plans |-> <<"already">>, result |-> to]
    PROVE  /\ Encrypted(to) /\ Rendered(s) \in {to, Refused} /\ SiteOK(s)
<1>1. /\ s.op = "not" /\ s.args = <<t>> /\ s.to = to /\ s.source = op
      /\ s.plans = <<"already">> /\ s.result = to
  OBVIOUS
<1>2. to = t.ty /\ (to = Ebool \/ IsEuint(to))
  BY RefusedIsNone DEF UnaryTarget
<1>3. Accepts("not", to) /\ ResultOf("not", to) = to
  BY <1>2 DEF Accepts, ResultOf, Equal, Bits, Compare, Order, Arith, Shifts
<1>4. Rendered(s) = Profile("not", <<t.lib>>)
  <2>1. [i \in DOMAIN <<t>> |-> Wrapped(<<t>>[i], <<"already">>[i], to)] = <<t.lib>>
    BY DEF Wrapped
  <2> QED BY <1>1, <2>1 DEF Rendered
<1>5. t.lib \in {to, Refused}
  BY <1>2 DEF NodeOK, Faithful
<1>6. Rendered(s) \in {to, Refused} /\ (t.lib = to => Rendered(s) = to)
  BY <1>3, <1>4, <1>5, ProfileOne
<1>7. SiteTyped(s)
  <2>1. s.args[1] = t /\ 1 \in DOMAIN s.args
    BY <1>1
  <2> QED BY <1>1, <1>5, <1>6, <2>1 DEF SiteTyped
<1>8. SiteExact(s)
  BY <1>1 DEF SiteExact
<1>9. SiteEffects(s)
  BY <1>1 DEF SiteEffects, Logic
<1> QED BY <1>2, <1>6, <1>7, <1>8, <1>9 DEF SiteOK

LEMMA OperateUnaryOK == ASSUME TInv, OperateUnary PROVE TInv'
<1>1. Len(stack) >= 1 /\ Encrypted(Top.ty)
  BY DEF OperateUnary, Unary1
<1>2. NodeOK(Top) /\ 1 \in 0..Len(stack)
  BY <1>1, TopOne
<1>3. PICK op \in {"-", "~", "!"} :
          LET to == UnaryTarget(op, Top.ty)
              s  == [op |-> "not", args |-> <<Top>>, to |-> to, source |-> op,
                     plans |-> <<"already">>, result |-> to]
          IN IF Bad(to) THEN Refuses ELSE Yields(1, Secret(to, Rendered(s), {Top}), s)
  BY DEF OperateUnary
<1> DEFINE to == UnaryTarget(op, Top.ty)
           s  == [op |-> "not", args |-> <<Top>>, to |-> to, source |-> op,
                  plans |-> <<"already">>, result |-> to]
           x  == Secret(to, Rendered(s), {Top})
<1>4. CASE Bad(to)
  BY <1>3, <1>4, Refusing
<1>5. CASE ~Bad(to)
  <2>1. Yields(1, x, s)
    BY <1>3, <1>5
  <2>2. Encrypted(to) /\ Rendered(s) \in {to, Refused} /\ SiteOK(s)
    BY <1>1, <1>2, <1>5, UnarySiteOK
  <2> HIDE DEF s, to
  <2>3. NodeOK(x)
    BY <1>2, <2>2, SecretNode
  <2> HIDE DEF x
  <2> QED BY <1>2, <2>1, <2>2, <2>3, Yielded
<1> QED BY <1>4, <1>5

LEMMA SelectSiteOK ==
    ASSUME NEW c, NEW l, NEW r, NodeOK(c), NodeOK(l), NodeOK(r), c.ty = Ebool,
           ~Hidden(TRUE, {l, r}), NEW to, to = ArmTarget(l.ty, r.ty), ~Bad(to),
           NEW s, s = [op |-> "select", args |-> <<c, l, r>>, to |-> to, source |-> "?:",
                       plans |-> <<"already", Plan(l.ty, to), Plan(r.ty, to)>>, result |-> to],
           Planned(s)
    PROVE  /\ Encrypted(to) /\ Rendered(s) \in {to, Refused} /\ SiteOK(s)
<1>1. /\ s.op = "select" /\ s.args = <<c, l, r>> /\ s.to = to /\ s.source = "?:"
      /\ s.plans = <<"already", Plan(l.ty, to), Plan(r.ty, to)>> /\ s.result = to
  OBVIOUS
<1>2. Encrypted(to)
  BY ArmsType DEF NodeOK
<1>3. Plan(l.ty, to) \in Conversions /\ Plan(r.ty, to) \in Conversions
  <2>1. s.plans[2] \in Conversions /\ s.plans[3] \in Conversions
    BY <1>1 DEF Planned
  <2> QED BY <1>1, <2>1
<1> DEFINE a == Wrapped(l, Plan(l.ty, to), to)
           b == Wrapped(r, Plan(r.ty, to), to)
<1>4. Rendered(s) = Profile("select", <<c.lib, a, b>>)
  <2>1. [i \in DOMAIN <<c, l, r>> |->
           Wrapped(<<c, l, r>>[i], <<"already", Plan(l.ty, to), Plan(r.ty, to)>>[i], to)]
          = <<Wrapped(c, "already", to), a, b>>
    OBVIOUS
  <2>2. Wrapped(c, "already", to) = c.lib
    BY DEF Wrapped
  <2> QED BY <1>1, <2>1, <2>2 DEF Rendered
<1>5. /\ a \in {to, Refused} /\ b \in {to, Refused}
      /\ l.lib # Refused => a = to
      /\ r.lib # Refused => b = to
  BY <1>2, <1>3, PlanWraps DEF NodeOK
<1>6. c.lib \in {Ebool, Refused}
  BY DEF NodeOK, Faithful, Encrypted, ETypes
<1> HIDE DEF a, b
<1>7. /\ Rendered(s) \in {to, Refused}
      /\ c.lib = Ebool /\ a = to /\ b = to => Rendered(s) = to
  <2>1. ASSUME NEW d \in {Ebool, Refused}, NEW m \in {to, Refused}, NEW n \in {to, Refused}
        PROVE  /\ Profile("select", <<d, m, n>>) \in {to, Refused}
               /\ d = Ebool /\ m = to /\ n = to => Profile("select", <<d, m, n>>) = to
    BY <1>2, ProfileSelect
  <2> QED BY <1>4, <1>5, <1>6, <2>1
<1>8. SiteTyped(s)
  <2>1. /\ s.args[1] = c /\ s.args[2] = l /\ s.args[3] = r
        /\ 1 \in DOMAIN s.args /\ 2 \in DOMAIN s.args /\ 3 \in DOMAIN s.args
    BY <1>1
  <2> QED BY <1>1, <1>5, <1>6, <1>7, <2>1 DEF SiteTyped
<1>9. Combines = {} => SiteExact(s)
  <2> SUFFICES ASSUME Combines = {}, NEW i \in DOMAIN s.args,
                      s.plans[i] \in {"literal", "trivial"}, Converts(s.args[i].sol)
               PROVE  Exact(s.args[i].sol, s.to)
    BY DEF SiteExact
  <2>1. \/ i = 1 /\ s.plans[i] = "already"
        \/ i = 2 /\ s.args[i] = l /\ s.plans[i] = Plan(l.ty, to)
        \/ i = 3 /\ s.args[i] = r /\ s.plans[i] = Plan(r.ty, to)
    BY <1>1
  <2>2. Sound(s.args[i]) /\ Plan(s.args[i].ty, to) \in {"literal", "trivial"}
    BY <2>1 DEF NodeOK
  <2> QED BY <1>1, <1>2, <2>2, PlanExact
<1>10. "receiver" \notin Acting => SiteEffects(s)
  BY <1>1 DEF SiteEffects, Logic, Hidden, NodeOK, Seen
<1> QED BY <1>2, <1>7, <1>8, <1>9, <1>10 DEF SiteOK

LEMMA TopThree ==
    ASSUME TInv, Len(stack) >= 3
    PROVE  /\ 3 \in DOMAIN stack /\ NodeOK(Top) /\ NodeOK(Under) /\ NodeOK(stack[3])
           /\ 3 \in 0..Len(stack) /\ \A i \in 1..3 : i \in DOMAIN stack
BY DEF TInv, Proper, Top, Under

LEMMA SelectOK == ASSUME TInv, Select PROVE TInv'
<1>1. Len(stack) >= 3 /\ Encrypted(Cond.ty)
  BY DEF Select
<1>2. NodeOK(Top) /\ NodeOK(Under) /\ NodeOK(Cond) /\ 3 \in 0..Len(stack)
  BY <1>1, TopThree DEF Cond
<1> DEFINE to == ArmTarget(Under.ty, Top.ty)
           s  == [op |-> "select", args |-> <<Cond, Under, Top>>, to |-> to, source |-> "?:",
                  plans |-> <<"already", Plan(Under.ty, to), Plan(Top.ty, to)>>, result |-> to]
           x  == Secret(to, Rendered(s), {Cond, Under, Top})
<1>3. s = SelectSite /\ s.to = to
  BY DEF SelectSite
<1>4. CASE Refuses
  BY <1>4, Refusing
<1>5. CASE ~Refuses
  <2>1. /\ Cond.ty = Ebool /\ ~Hidden(TRUE, {Under, Top}) /\ ~Bad(s.to) /\ Planned(s)
        /\ Yields(3, Secret(s.to, Rendered(s), {Cond, Under, Top}), s)
    BY <1>3, <1>5 DEF Select
  <2>2. Encrypted(to) /\ Rendered(s) \in {to, Refused} /\ SiteOK(s)
    BY <1>2, <1>3, <2>1, SelectSiteOK
  <2> HIDE DEF s, to
  <2>3. NodeOK(x)
    BY <1>2, <2>2, SecretNode
  <2>4. Yields(3, x, s)
    BY <1>3, <2>1
  <2> HIDE DEF x
  <2> QED BY <1>2, <2>2, <2>3, <2>4, Yielded
<1> QED BY <1>4, <1>5

LEMMA ChooseOK == ASSUME TInv, Choose PROVE TInv'
<1> DEFINE ty  == IF Under.ty = Top.ty THEN Top.ty ELSE Unknown
           sol == SolEither(Under.sol, Top.sol)
           acts == \E i \in 1 .. 3 : stack[i].acts
           seen == \E i \in 1 .. 3 : stack[i].seen
           x   == Node(ty, Top.lib, sol, acts, seen)
<1>1. /\ Len(stack) >= 3 /\ sol # Void /\ Under.lib = Top.lib /\ Yields(3, x, NoSite)
  BY DEF Choose
<1>2. /\ NodeOK(Top) /\ NodeOK(Under) /\ 3 \in 0..Len(stack)
      /\ \A i \in 1..3 : NodeOK(stack[i])
  BY <1>1, TopThree DEF TInv
<1>4. "receiver" \notin Acting => (acts => seen)
  BY <1>2 DEF NodeOK, Seen
<1> HIDE DEF acts, seen, sol, ty
<1>3. x.ty = ty /\ x.lib = Top.lib /\ x.sol = sol /\ x.acts = acts /\ x.seen = seen
  BY NodeFields
<1>5. "receiver" \notin Acting => Seen(x)
  <2> HIDE DEF x
  <2> QED BY <1>3, <1>4 DEF Seen
<1>6. Combines = {} => Sound(x)
  <2> HIDE DEF x
  <2> QED BY <1>1, <1>2, <1>3, ChooseSound DEF NodeOK, ty, sol
<1>7. ty = Top.ty \/ ty = Unknown
  BY DEF ty
<1> HIDE DEF x
<1>8. Formed(x.ty) /\ Faithful(x)
  BY <1>2, <1>3, <1>7, RefusedIsNone DEF NodeOK, Formed, Faithful
<1>9. NodeOK(x)
  BY <1>5, <1>6, <1>8 DEF NodeOK
<1> QED BY <1>1, <1>2, <1>9, NoSiteOK, Yielded

LEMMA CallCastOK == ASSUME TInv, CallCast PROVE TInv'
<1>1. PICK to \in ETypes :
        Yields(1, Secret(to, IF ~Encrypted(Top.ty) \/ CanCast(Top.lib, to) THEN to ELSE Refused,
                         {Top}), NoSite)
  BY DEF CallCast
<1> DEFINE lib == IF ~Encrypted(Top.ty) \/ CanCast(Top.lib, to) THEN to ELSE Refused
           x   == Secret(to, lib, {Top})
<1>2. NodeOK(Top) /\ 1 \in 0..Len(stack)
  BY TopOne DEF CallCast, Unary1
<1>3. Yields(1, x, NoSite) /\ lib \in {to, Refused} /\ Encrypted(to)
  BY <1>1 DEF Encrypted
<1> HIDE DEF lib
<1>4. NodeOK(x)
  BY <1>2, <1>3, SecretNode
<1> HIDE DEF x
<1> QED BY <1>2, <1>3, <1>4, NoSiteOK, Yielded

\* the author's own call, typed by the operator table on both sides
LEMMA CallOpOK ==
    ASSUME TInv, Len(stack) >= 2, NEW method \in BOOLEAN, CallOp(method),
           method /\ Under.acts => "receiver" \in Acting
    PROVE  TInv'
<1>1. PICK op \in {"+", "==", "<", "&"} :
          LET lib   == IF Encrypted(Under.ty) /\ Encrypted(Top.ty)
                       THEN Profile(op, <<Under.lib, Top.lib>>) ELSE Refused
              known == IF Encrypted(Under.ty) /\ Encrypted(Top.ty)
                       THEN Profile(op, <<Under.ty, Top.ty>>) ELSE Refused
          IN Yields(2, Node(IF known = Refused THEN Unknown ELSE known, lib, Cipher,
                            Under.acts \/ Top.acts,
                            Top.seen \/ (~method /\ Under.seen)), NoSite)
  BY DEF CallOp
<1> DEFINE lib   == IF Encrypted(Under.ty) /\ Encrypted(Top.ty)
                    THEN Profile(op, <<Under.lib, Top.lib>>) ELSE Refused
           known == IF Encrypted(Under.ty) /\ Encrypted(Top.ty)
                    THEN Profile(op, <<Under.ty, Top.ty>>) ELSE Refused
           ty    == IF known = Refused THEN Unknown ELSE known
           acts  == Under.acts \/ Top.acts
           seen  == Top.seen \/ (~method /\ Under.seen)
           x     == Node(ty, lib, Cipher, acts, seen)
<1>2. NodeOK(Top) /\ NodeOK(Under) /\ 2 \in 0..Len(stack)
  BY TopTwo
<1>3. x.ty = ty /\ x.lib = lib /\ x.sol = Cipher /\ x.acts = acts /\ x.seen = seen
  BY NodeFields
<1>4. "receiver" \notin Acting => (acts => seen)
  BY <1>2 DEF NodeOK, Seen
<1>5. "receiver" \notin Acting => Seen(x)
  <2> HIDE DEF x, acts, seen
  <2> QED BY <1>3, <1>4 DEF Seen
<1>6. ty = Unknown \/ (Encrypted(ty) /\ lib \in {ty, Refused})
  <2>1. CASE known = Refused
    BY <2>1
  <2>2. CASE known # Refused
    <3>1. /\ Encrypted(Under.ty) /\ Encrypted(Top.ty)
          /\ known = Profile(op, <<Under.ty, Top.ty>>)
          /\ lib = Profile(op, <<Under.lib, Top.lib>>)
      BY <2>2
    <3>2. op # "select"
      OBVIOUS
    <3>3. /\ Accepts(op, Under.ty) /\ Top.ty = Under.ty /\ known = ResultOf(op, Under.ty)
      <4> DEFINE v == <<Under.ty, Top.ty>>
      <4>1. v[1] = Under.ty /\ v[2] = Top.ty /\ 2 \in DOMAIN v
        OBVIOUS
      <4>2. Profile(op, v) = IF /\ Accepts(op, v[1])
                                /\ \A i \in DOMAIN v : v[i] = v[1]
                             THEN ResultOf(op, v[1]) ELSE Refused
        BY <3>2 DEF Profile
      <4>3. known = Profile(op, v)
        BY <3>1
      <4> HIDE DEF v, known
      <4> QED BY <2>2, <4>1, <4>2, <4>3
    <3>4. Under.lib \in {Under.ty, Refused} /\ Top.lib \in {Under.ty, Refused}
      BY <1>2, <3>1, <3>3 DEF NodeOK, Faithful
    <3>5. Profile(op, <<Under.lib, Top.lib>>) \in {ResultOf(op, Under.ty), Refused}
      BY <3>2, <3>3, <3>4, ProfileTwo
    <3>6. known \in {Ebool, Under.ty}
      BY <3>3 DEF ResultOf, Compare, Order, Equal
    <3>7. Encrypted(known)
      BY <3>1, <3>6 DEF Encrypted, ETypes
    <3> HIDE DEF known, lib
    <3>8. lib \in {known, Refused}
      BY <3>1, <3>3, <3>5
    <3> QED BY <2>2, <3>7, <3>8
  <2> QED BY <2>1, <2>2
<1>7. Yields(2, x, NoSite)
  BY <1>1
<1> HIDE DEF x, ty, lib
<1>8. Formed(x.ty) /\ Faithful(x)
  BY <1>3, <1>6, RefusedIsNone DEF Formed, Faithful
<1>9. Sound(x)
  <2>1. x.ty.k \in {"unknown", "ebool", "eaddress", "euint"} /\ x.ty # Bool /\ x.ty # Address
    BY <1>3, <1>6, EncryptedKinds DEF Unknown, T, Bool, Address
  <2> QED BY <1>3, <2>1 DEF Sound, Cipher, S
<1>10. NodeOK(x)
  BY <1>5, <1>8, <1>9 DEF NodeOK
<1> QED BY <1>2, <1>7, <1>10, NoSiteOK, Yielded

-----------------------------------------------------------------------------
(* The leaves                                                              *)

\* f() has its effect wherever it stands, and is always found
LEMMA LeafOK ==
    ASSUME TInv, NEW t, NEW s, Leaf(t, s),
           \/ t \in ETypes /\ s = Cipher
           \/ \E w \in PlainWidths : t = Uint(w) /\ s = SUint(w)
           \/ <<t, s>> \in {<<Bool, SBool>>, <<Address, SAddress>>, <<Opaque, Other>>,
                            <<Unknown, Any>>}
           \/ \E v \in Nat : t = Lit(IF Fits(v) THEN v ELSE None) /\ s = Rat(v, 1)
    PROVE  TInv'
<1> DEFINE lib == IF Encrypted(t) THEN t ELSE NoLib
<1>1. PICK effect \in BOOLEAN :
        stack' = <<Node(t, lib, s, effect, effect)>> \o stack
  BY DEF Leaf
<1> DEFINE x == Node(t, lib, s, effect, effect)
<1>3. site' = NoSite
  BY DEF Leaf
<1>4. x.ty = t /\ x.lib = lib /\ x.sol = s /\ (x.acts => x.seen)
  BY NodeFields
<1> HIDE DEF x, lib
<1>5. Sound(x)
  BY <1>4, LeafSound, CastSound
<1>6. Formed(t)
  <2>1. \/ t \in ETypes \/ t.k \in {"uint", "bool", "address", "opaque", "unknown", "lit"}
    BY DEF Uint, Bool, Address, Opaque, Unknown, Lit, T
  <2> QED BY <2>1 DEF Formed, Encrypted, IsEuint
<1>7. NodeOK(x)
  BY <1>4, <1>5, <1>6 DEF NodeOK, Faithful, Seen, lib
<1>8. PICK n \in 0..Len(stack) : SubSeq(stack, n + 1, Len(stack)) = stack
  <2>1. 0 \in 0..Len(stack) /\ SubSeq(stack, 0 + 1, Len(stack)) = stack
    BY DEF TInv, Proper
  <2> QED BY <2>1
<1>9. stack' = <<x>> \o SubSeq(stack, n + 1, Len(stack))
  BY <1>1, <1>8 DEF x
<1> QED BY <1>3, <1>7, <1>9, Replaced, NoSiteOK

LEMMA LeavesOK ==
    ASSUME TInv, PushSecret \/ PushUint \/ PushOther \/ PushLit
    PROVE  TInv'
<1>1. CASE PushSecret
  BY <1>1, LeafOK DEF PushSecret
<1>2. CASE PushUint
  BY <1>2, LeafOK DEF PushUint
<1>3. CASE PushOther
  BY <1>3, LeafOK DEF PushOther
<1>4. CASE PushLit
  <2>1. PICK v \in Literals : Leaf(Lit(IF Fits(v) THEN v ELSE None), Rat(v, 1))
    BY <1>4 DEF PushLit
  <2>2. v \in Nat
    BY TypingAssumption
  <2> QED BY <2>1, <2>2, LeafOK
<1> QED BY <1>1, <1>2, <1>3, <1>4

-----------------------------------------------------------------------------
(* Statements                                                              *)

\* a target is encrypted, and has no effect unless effects may stand there
LEMMA TargetNode ==
    ASSUME NEW L \in Targets
    PROVE  /\ Encrypted(L.ty) /\ L.lib = L.ty /\ L.sol = Cipher /\ Sound(L)
           /\ "target" \notin Acting => ~L.acts
<1>1. PICK t \in ETypes, acts \in TargetActs : L = Node(t, t, Cipher, acts, acts)
  BY DEF Targets
<1>2. "target" \notin Acting => ~acts
  BY DEF TargetActs
<1>3. L.ty = t /\ L.lib = t /\ L.sol = Cipher /\ L.acts = acts
  BY <1>1, NodeFields
<1>4. Sound(L)
  BY <1>3, LeafSound
<1> QED BY <1>2, <1>3, <1>4 DEF Encrypted

LEMMA PlannedTwo ==
    ASSUME NEW s, NEW p, NEW q, s.plans = <<p, q>>, Planned(s) PROVE q \in Conversions
<1>1. 2 \in DOMAIN s.plans /\ s.plans[2] = q
  OBVIOUS
<1> QED BY <1>1 DEF Planned

LEMMA EffectsTwo ==
    ASSUME NEW s, NEW l, NEW r, s.args = <<l, r>>, s.source = "L op=", ~l.acts
    PROVE  SiteEffects(s)
<1>1. s.args[1] = l
  <2>1. <<l, r>>[1] = l
    OBVIOUS
  <2> QED BY <2>1, Zenon
<1>2. s.source \notin Logic /\ s.source # "?:"
  BY DEF Logic
<1>3. ~s.args[1].acts
  BY <1>1, Zenon
<1> QED BY <1>2, <1>3, Zenon DEF SiteEffects

LEMMA ExactSecond ==
    ASSUME NEW s, NEW l, NEW r, s.args = <<l, r>>, s.plans = <<"already", "literal">>,
           Exact(r.sol, s.to)
    PROVE  SiteExact(s)
<1> SUFFICES ASSUME NEW i \in DOMAIN s.args, s.plans[i] \in {"literal", "trivial"}
             PROVE  s.args[i] = r
  BY DEF SiteExact
<1>1. i = 1 \/ i = 2
  OBVIOUS
<1>2. s.plans[1] = "already"
  OBVIOUS
<1>3. s.args[2] = r
  OBVIOUS
<1> QED BY <1>1, <1>2, <1>3

LEMMA StatedOK == ASSUME TInv, NEW s, SiteOK(s), Stated(s) PROVE TInv'
<1>1. stack' = << >> /\ site' = s
  BY DEF Stated
<1>2. Proper(stack') /\ DOMAIN stack' = {}
  BY <1>1 DEF Proper
<1> QED BY <1>1, <1>2, NextState

\* an operator with a target is one of the table
LEMMA CompoundOp ==
    ASSUME NEW op \in CompoundOps, NEW t, Encrypted(t), Legal(op, t)
    PROVE  op # "select" /\ Accepts(op, t) /\ ResultOf(op, t) = t
<1>1. op \in BinOps \ {"**", ">>>"}
  BY DEF CompoundOps, BinOps, Arith, Bits, Shifts
<1>2. FheOp(op) = op
  BY DEF CompoundOps, Arith, Bits, Shifts, FheOp
<1>3. op \notin Compare /\ op # "allow"
  BY DEF CompoundOps, Arith, Bits, Shifts, Compare, Order, Equal
<1> QED BY <1>1, <1>2, <1>3, LegalAccepted DEF ResultOf

LEMMA CompoundOK == ASSUME TInv, Compound PROVE TInv'
<1>1. PICK op \in CompoundOps \cup {">>>"}, L \in Targets :
          LET s == [op |-> op, args |-> <<L, Top>>, to |-> L.ty, source |-> "L op=",
                    plans |-> <<"already", Plan(Top.ty, L.ty)>>, result |-> L.ty]
          IN IF op \notin CompoundOps \/ ~Legal(op, L.ty) \/ ~Planned(s)
             THEN Refuses ELSE Stated(s)
  BY DEF Compound
<1> DEFINE s == [op |-> op, args |-> <<L, Top>>, to |-> L.ty, source |-> "L op=",
                 plans |-> <<"already", Plan(Top.ty, L.ty)>>, result |-> L.ty]
<1>0. Len(stack) = 1
  BY DEF Compound
<1>2. CASE Refuses
  BY <1>2, Refusing
<1>3. CASE ~Refuses
  <2>1. op \in CompoundOps /\ Legal(op, L.ty) /\ Planned(s) /\ Stated(s)
    BY <1>1, <1>3
  <2>2. NodeOK(Top)
    BY <1>0, TopOne
  <2>3. /\ s.op = op /\ s.args = <<L, Top>> /\ s.to = L.ty /\ s.source = "L op="
        /\ s.plans = <<"already", Plan(Top.ty, s.to)>> /\ s.result = L.ty
    OBVIOUS
  <2> HIDE DEF s
  <2>4. Encrypted(s.to) /\ L.lib = s.to
    BY <2>3, TargetNode
  <2>5. op # "select" /\ Accepts(op, s.to) /\ ResultOf(op, s.to) = s.to
    BY <2>1, <2>3, <2>4, CompoundOp
  <2>6. Plan(Top.ty, s.to) \in Conversions
    BY <2>1, <2>3, PlannedTwo
  <2>7. Wrapped(L, "already", s.to) = s.to
    BY <2>4 DEF Wrapped
  <2>8. /\ Wrapped(Top, Plan(Top.ty, s.to), s.to) \in {s.to, Refused}
        /\ Top.lib # Refused \/ Plan(Top.ty, s.to) = "literal"
              => Wrapped(Top, Plan(Top.ty, s.to), s.to) = s.to
    BY <2>2, <2>4, <2>6, PlanWraps DEF NodeOK, Wrapped
  <2>9. SiteTyped(s)
    BY <2>3, <2>5, <2>7, <2>8, SiteTwo
  <2>10. Combines = {} => SiteExact(s)
    BY <2>2, <2>3, <2>4, TargetNode, ExactTwo DEF NodeOK
  <2>11. "target" \notin Acting => SiteEffects(s)
    BY <2>3, TargetNode, EffectsTwo
  <2>12. SiteOK(s)
    BY <2>9, <2>10, <2>11 DEF SiteOK
  <2> QED BY <2>1, <2>12, StatedOK
<1> QED BY <1>2, <1>3

\* 1 is a value of every encrypted integer
LEMMA OneExact == ASSUME NEW t, Encrypted(t), IsEuint(t) PROVE Exact(One.sol, t)
<1>1. One.sol = Rat(1, 1)
  BY DEF One, Node
<1>2. t.n \in Widths /\ 1 < 2 ^ t.n
  BY EncryptedKinds, WidthAssumption
<1>3. Rat(1, 1) = Void \/ Rat(1, 1) = S("rat", 1, 1)
  <2>1. 1 % 1 = 0 /\ 1 \div 1 = 1
    OBVIOUS
  <2> QED BY <2>1 DEF Rat
<1>4. Small(1)
  <2>1. Widest \in Widths
    BY WidthAssumption DEF Widest
  <2>2. 2 ^ Widest \in Int /\ 1 < 2 ^ Widest
    BY <2>1, WidthAssumption
  <2> QED BY <2>2 DEF Small, Huge
<1>5. Rat(1, 1) = S("rat", 1, 1)
  <2>1. 1 % 1 = 0 /\ 1 \div 1 = 1
    OBVIOUS
  <2> QED BY <1>4, <2>1 DEF Rat
<1> QED BY <1>1, <1>2, <1>5 DEF Exact, Whole, S

LEMMA IncDecOK == ASSUME TInv, IncDec PROVE TInv'
<1>1. PICK op \in {"+", "-"}, L \in Targets :
          IF ~IsEuint(L.ty) THEN Refuses
          ELSE Stated([op |-> op, args |-> <<L, One>>, to |-> L.ty, source |-> "L op=",
                       plans |-> <<"already", "literal">>, result |-> L.ty])
  BY DEF IncDec
<1> DEFINE s == [op |-> op, args |-> <<L, One>>, to |-> L.ty, source |-> "L op=",
                 plans |-> <<"already", "literal">>, result |-> L.ty]
<1>2. CASE ~IsEuint(L.ty)
  BY <1>1, <1>2, Refusing
<1>3. CASE IsEuint(L.ty)
  <2>1. Stated(s)
    BY <1>1, <1>3
  <2>2. /\ s.op = op /\ s.args = <<L, One>> /\ s.to = L.ty /\ s.source = "L op="
        /\ s.plans = <<"already", "literal">> /\ s.result = L.ty
    OBVIOUS
  <2> HIDE DEF s
  <2>3. Encrypted(s.to) /\ IsEuint(s.to) /\ L.lib = s.to
    BY <1>3, <2>2, TargetNode
  <2>4. op \in CompoundOps /\ Legal(op, s.to)
    BY <2>3 DEF CompoundOps, Legal, Arith, Equal, Bits, Logic
  <2>5. op # "select" /\ Accepts(op, s.to) /\ ResultOf(op, s.to) = s.to
    BY <2>3, <2>4, CompoundOp
  <2>6. Wrapped(L, "already", s.to) = s.to /\ Wrapped(One, "literal", s.to) = s.to
    BY <2>3 DEF Wrapped
  <2>7. SiteTyped(s)
    BY <2>2, <2>5, <2>6, SiteTwo
  <2>8. SiteExact(s)
    BY <2>2, <2>3, OneExact, ExactSecond
  <2>9. "target" \notin Acting => SiteEffects(s)
    BY <2>2, TargetNode, EffectsTwo
  <2>10. SiteOK(s)
    BY <2>7, <2>8, <2>9 DEF SiteOK
  <2> QED BY <2>1, <2>10, StatedOK
<1> QED BY <1>2, <1>3

-----------------------------------------------------------------------------
(* Every handler                                                           *)

LEMMA TypingInit == Init => TInv
<1> SUFFICES ASSUME Init PROVE TInv
  OBVIOUS
<1>1. stack = << >> /\ site = NoSite
  BY DEF Init
<1>2. Proper(stack) /\ DOMAIN stack = {}
  BY <1>1 DEF Proper
<1> QED BY <1>1, <1>2, NoSiteOK DEF TInv

LEMMA TypingStep == ASSUME TInv, [Next]_vars PROVE TInv'
<1>1. CASE PushSecret \/ PushUint \/ PushOther \/ PushLit
  BY <1>1, LeavesOK
<1>2. CASE ComputePlain
  BY <1>2, ComputePlainOK
<1>3. CASE ComputeUnary
  BY <1>3, ComputeUnaryOK
<1>4. CASE CastPlain
  BY <1>4, CastPlainOK
<1>5. CASE Operate
  BY <1>5, OperateOK
<1>6. CASE OperateUnary
  BY <1>6, OperateUnaryOK
<1>7. CASE Select
  BY <1>7, SelectOK
<1>8. CASE Choose
  BY <1>8, ChooseOK
<1>9. CASE CallCast
  BY <1>9, CallCastOK
<1>10. CASE CallLibrary
  <2>1. Len(stack) >= 2 /\ CallOp(FALSE)
    BY <1>10 DEF CallLibrary, CallOp, Binary2
  <2> QED BY <2>1, CallOpOK
<1>11. CASE CallMethod
  <2>1. Len(stack) >= 2 /\ CallOp(TRUE) /\ (Under.acts => "receiver" \in Acting)
    BY <1>11 DEF CallMethod, Binary2
  <2> QED BY <2>1, CallOpOK
<1>12. CASE Compound
  BY <1>12, CompoundOK
<1>13. CASE IncDec
  BY <1>13, IncDecOK
<1>14. CASE UNCHANGED vars
  BY <1>14 DEF vars, TInv
<1> QED BY <1>1, <1>2, <1>3, <1>4, <1>5, <1>6, <1>7, <1>8, <1>9, <1>10, <1>11, <1>12,
           <1>13, <1>14 DEF Next

\* Every node a handler yields is one the checker, the library and solc agree
\* on, whatever is on the stack below.
THEOREM NodesAgree == Spec => []TInv
BY TypingInit, TypingStep, PTL DEF Spec

\* render_operator_site never meets a type the checker did not give: the text
\* of an expression has the checker's type, and of every stated site the library
\* has the function, with the result the site records.
THEOREM TextIsTyped == Spec => []RendersAsTyped
<1>1. TInv => RendersAsTyped
  BY DEF TInv, NodeOK, Faithful, SiteOK, SiteTyped, RendersAsTyped
<1> QED BY <1>1, NodesAgree, PTL

\* plan_operand encrypts a plaintext operand to a type that holds every value
\* of it, as long as no plaintext operator has a literal for an operand, or uints
\* of two widths under a bit operator.
THEOREM NothingTruncated == ASSUME Combines = {} PROVE Spec => []ConversionsExact
<1>1. TInv => ConversionsExact
  BY DEF TInv, SiteOK, SiteExact, ConversionsExact
<1> QED BY <1>1, NodesAgree, PTL

\* side_effect_span finds the effects of every operand that runs though
\* Solidity would skip it, as long as none hides in the receiver of a method or
\* in a target.
THEOREM EffectsOnce ==
    ASSUME {"receiver", "target"} \cap Acting = {} PROVE Spec => []EffectsAsWritten
<1>1. TInv => EffectsAsWritten
  BY DEF TInv, SiteOK, SiteEffects, EffectsAsWritten
<1> QED BY <1>1, NodesAgree, PTL
=============================================================================
