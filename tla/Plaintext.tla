----------------------------- MODULE Plaintext -----------------------------
(***************************************************************************)
(* What Solidity makes of a plaintext expression: the exact rational value  *)
(* of one made of literals, the type of any other.  Void is an expression   *)
(* solc rejects, or one beyond Huge.  Beside Types, which is what the       *)
(* checker makes of the same expression.                                    *)
(***************************************************************************)
EXTENDS Types

S(k, n, d) == [k |-> k, n |-> n, d |-> d]
Void       == S("void", 0, 1)
Any        == S("any", 0, 1)        \* a type the checker could not find out
Other      == S("other", 0, 1)      \* neither a number, bool nor address
SBool      == S("bool", 0, 1)
SAddress   == S("address", 0, 1)
SUint(w)   == S("uint", w, 1)
Cipher     == S("cipher", 0, 1)

Small(v)    == -Huge < v /\ v < Huge
Rat(n, d)   == IF ~(Small(n) /\ Small(d)) \/ d = 0 THEN Void
               ELSE IF d < 0 THEN S("rat", -n, -d)
               ELSE IF n % d = 0 THEN S("rat", n \div d, 1)
               ELSE S("rat", n, d)
Whole(s)    == s.k = "rat" /\ s.d = 1

\* The type a literal takes on next to a value that is not one.
Mobile(s) ==
    CASE s.k # "rat" -> s
      [] Whole(s) /\ s.n >= 0 /\ \E w \in PlainWidths : s.n < 2 ^ w ->
            SUint(CHOOSE w \in PlainWidths :
                    /\ s.n < 2 ^ w
                    /\ \A v \in PlainWidths : s.n < 2 ^ v => w <= v)
      [] OTHER -> Void

RatBinary(op, a, b) ==
    CASE op = "+" -> Rat(a.n * b.d + b.n * a.d, a.d * b.d)
      [] op = "-" -> Rat(a.n * b.d - b.n * a.d, a.d * b.d)
      [] op = "*" -> Rat(a.n * b.n, a.d * b.d)
      [] op = "/" -> Rat(a.n * b.d, a.d * b.n)
      [] op = "%" /\ Whole(a) /\ Whole(b) /\ a.n >= 0 /\ b.n > 0 -> Rat(a.n % b.n, 1)
      [] op \in {"**", "<<"} /\ Whole(a) /\ Whole(b) /\ a.n >= 0 /\ b.n >= 0 ->
            IF op = "**" THEN Rat(Power(a.n, b.n), 1) ELSE Rat(a.n * Power(2, b.n), 1)
      [] op \in Compare -> SBool
      [] OTHER -> Void

SolBinary(op, l, r) ==
    CASE Void \in {l, r} -> Void
      [] Void \notin {l, r} /\ Any \in {l, r} -> Any
      [] l.k = "rat" /\ r.k = "rat" -> RatBinary(op, l, r)
      [] op \in {"**"} \cup Shifts /\ {l.k, r.k} \in {{"uint"}, {"uint", "rat"}} ->
            IF Mobile(r) = Void THEN Void
            ELSE IF l.k = "uint" THEN l ELSE SUint(WidestPlain)
      [] op \in (Arith \ {"**"}) \cup Bits /\ {l.k, r.k} \in {{"uint"}, {"uint", "rat"}} ->
            IF Void \in {Mobile(l), Mobile(r)} THEN Void
            ELSE SUint(Wider(Mobile(l).n, Mobile(r).n))
      [] op \in Order /\ {l.k, r.k} \in {{"uint"}, {"uint", "rat"}} -> SBool
      [] op \in Equal /\ {l.k, r.k} \in {{"uint"}, {"uint", "rat"}, {"bool"},
                                          {"address"}, {"other"}} -> SBool
      [] op \in Logic /\ l = SBool /\ r = SBool -> SBool
      [] OTHER -> Void

SolUnary(op, s) ==
    CASE s = Any -> Any
      [] op = "-" /\ s.k = "rat" -> Rat(-s.n, s.d)
      [] op = "~" /\ Whole(s) -> Rat(-s.n - 1, 1)
      [] op = "~" /\ s.k = "uint" -> s
      [] op = "!" /\ s = SBool -> SBool
      [] OTHER -> Void

\* uintN(x)
SolCast(w, s) ==
    IF s.k \in {"uint", "any"} \/ (Whole(s) /\ 0 <= s.n /\ s.n < 2 ^ w) THEN SUint(w) ELSE Void

\* c ? l : r
SolEither(l, r) ==
    CASE l = r /\ l.k # "rat" -> l
      [] Mobile(l).k = "uint" /\ Mobile(r).k = "uint" ->
            SUint(Wider(Mobile(l).n, Mobile(r).n))
      [] OTHER -> IF Any \in {l, r} THEN Any ELSE Void

\* solc converts it to the uint256, bool or address that asE takes.
Converts(s) == s.k = "rat" => Whole(s) /\ s.n >= 0

\* Every value s may have is one of encrypted type t: asE does not truncate.
Exact(s, t) ==
    \/ s = SBool /\ t = Ebool
    \/ s = SAddress /\ t = Eaddress
    \/ s.k = "uint" /\ IsEuint(t) /\ s.n <= t.n
    \/ Whole(s) /\ IsEuint(t) /\ 0 <= s.n /\ s.n < 2 ^ t.n
=============================================================================
