---------------------------- MODULE Boundary_proofs ----------------------------
(***************************************************************************)
(* The edge of a function, for every function that the checks accept, every *)
(* library of callees and every run.  Shape says how far a run has come:   *)
(* what crosses the boundary is preceded by the guard alone, and every     *)
(* managed parameter is ready or still to cross.  The hypotheses are what  *)
(* solc sees to in the output, and one that nothing does.                  *)
(***************************************************************************)
EXTENDS Boundary, SequenceTheorems, WellFoundedInduction, TLAPS, FiniteSetTheorems

-----------------------------------------------------------------------------
(* Sequences and numbers.                                                  *)

\* The library states this with an operator for "<", which no prover takes.
NatLess == {ss \in Nat \X Nat : ss[1] < ss[2]}

LEMMA Least ==
    ASSUME NEW T \in SUBSET Nat, T # {}
    PROVE  \E x \in T : \A y \in T : x <= y
<1>1. IsWellFoundedOn(NatLess, Nat)
  BY NatLessThanWellFounded DEF OpToRel, NatLess
<1>2. PICK x \in T : \A y \in T : ~(<<y, x>> \in NatLess)
  BY <1>1, WFMin
<1>3. ASSUME NEW y \in T PROVE x <= y
  <2>1. x \in Nat /\ y \in Nat /\ <<y, x>> \in Nat \X Nat
    OBVIOUS
  <2>2. ~(y < x)
    BY <1>2, <2>1 DEF NatLess
  <2> QED BY <2>1, <2>2
<1> QED BY <1>3

\* Induction up to a number: the library's takes an operator, this a set.
LEMMA InductionTo ==
    ASSUME NEW n \in Nat, NEW S, 0 \in S, \A i \in 1..n : i - 1 \in S => i \in S
    PROVE  \A i \in 0..n : i \in S
<1> DEFINE Bad == {i \in 0..n : i \notin S}
<1>1. SUFFICES ASSUME Bad # {} PROVE FALSE
  OBVIOUS
<1>2. Bad \in SUBSET Nat
  OBVIOUS
<1>3. PICK m \in Bad : \A k \in Bad : m <= k
  <2> HIDE DEF Bad
  <2> QED BY <1>1, <1>2, Least
<1>4. m \in 1..n /\ m \notin S /\ m - 1 \in 0..n
  BY <1>3
<1>5. m - 1 \notin Bad
  BY <1>3, <1>4
<1> QED BY <1>4, <1>5

\* A function that starts at a and goes on by g.
Recursion(a, g, n, F) == F = [i \in 0..n |-> IF i = 0 THEN a ELSE g[<<i, F[i - 1]>>]]

LEMMA RecursionExists ==
    ASSUME NEW T, NEW a \in T, NEW n \in Nat, NEW g \in [(1..n) \X T -> T]
    PROVE  \E F \in [0..n -> T] : Recursion(a, g, n, F)
<1> DEFINE Up(k) == \E F \in [0..k -> T] : Recursion(a, g, k, F)
           S == {k \in 0..n : Up(k)}
<1>1. 0 \in S
  <2>1. [i \in 0..0 |-> a] \in [0..0 -> T] /\ Recursion(a, g, 0, [i \in 0..0 |-> a])
    BY DEF Recursion
  <2> QED BY <2>1
<1>2. ASSUME NEW k \in 1..n, k - 1 \in S PROVE k \in S
  <2>1. PICK F \in [0..k - 1 -> T] : Recursion(a, g, k - 1, F)
    BY <1>2
  <2> DEFINE G == [i \in 0..k |-> IF i = k THEN g[<<k, F[k - 1]>>] ELSE F[i]]
  <2>2. \A i \in 0..k - 1 : F[i] = IF i = 0 THEN a ELSE g[<<i, F[i - 1]>>]
    BY <2>1 DEF Recursion
  <2>3. k \in Nat /\ k - 1 \in 0..k - 1 /\ F[k - 1] \in T /\ <<k, F[k - 1]>> \in (1..n) \X T
    BY <2>1
  <2>4. ASSUME NEW i \in 0..k PROVE G[i] = IF i = 0 THEN a ELSE g[<<i, G[i - 1]>>]
    <3>1. CASE i = k
      <4>1. i # 0 /\ i - 1 \in 0..k /\ i - 1 # k
        BY <3>1
      <4>2. G[i] = g[<<i, F[i - 1]>>] /\ G[i - 1] = F[i - 1]
        BY <3>1, <4>1
      <4> QED BY <4>1, <4>2
    <3>2. CASE i # k
      <4>1. i \in 0..k - 1 /\ G[i] = F[i]
        BY <3>2
      <4>2. i # 0 => G[i - 1] = F[i - 1]
        BY <3>2
      <4> QED BY <2>2, <4>1, <4>2
    <3> QED BY <3>1, <3>2
  <2>5. G \in [0..k -> T]
    BY <2>3
  <2>6. G = [i \in 0..k |-> G[i]]
    OBVIOUS
  <2> HIDE DEF G
  <2>7. Recursion(a, g, k, G)
    BY <2>4, <2>6 DEF Recursion
  <2> QED BY <2>5, <2>7
<1> HIDE DEF S
<1>3. n \in S
  BY <1>1, <1>2, InductionTo
<1> QED BY <1>3 DEF S

LEMMA RangeEmpty == Range(<< >>) = {}
<1>1. DOMAIN << >> = {}
  OBVIOUS
<1> QED BY <1>1 DEF Range

LEMMA RangeAppend ==
    ASSUME NEW S, NEW s \in Seq(S), NEW e \in S
    PROVE  Range(Append(s, e)) = Range(s) \cup {e}
<1> DEFINE t == Append(s, e)
<1>1. t \in Seq(S) /\ Len(t) = Len(s) + 1 /\ t[Len(s) + 1] = e
      /\ \A i \in 1..Len(s) : t[i] = s[i]
  BY AppendProperties
<1> HIDE DEF t
<1>2. Range(t) = {t[i] : i \in 1..Len(t)} /\ Range(s) = {s[i] : i \in 1..Len(s)}
  BY <1>1, RangeEquality
<1>3. Len(s) \in Nat
  BY LenProperties
<1> QED BY <1>1, <1>2, <1>3 DEF t

-----------------------------------------------------------------------------
(* Trees.                                                                  *)

\* What the function in Reach is.
Grown(up, ops)  == up \cup Kids({m \in up : m.op \in ops})
Down(n, ops, F) == F = [d \in 0..Height |-> IF d = 0 THEN {n} ELSE Grown(F[d - 1], ops)]

LEMMA KidsAreNodes == \A ns \in SUBSET Nodes : Kids(ns) \subseteq Nodes
<1>1. ASSUME NEW n \in Nodes PROVE Range(n.kids) \subseteq Nodes
  <2>1. n.kids \in Seq(Nodes)
    BY NodeAssumption
  <2> QED BY <2>1, RangeEquality, ElementOfSeq
<1> QED BY <1>1 DEF Kids

LEMMA DownExists ==
    ASSUME NEW n \in Nodes, NEW ops
    PROVE  \E F : Down(n, ops, F)
<1> DEFINE T == SUBSET Nodes
           g == [x \in (1..Height) \X T |-> Grown(x[2], ops)]
<1>1. Height \in Nat /\ {n} \in T
  BY NodeAssumption
<1>2. \A s \in T : Grown(s, ops) \in T
  BY KidsAreNodes DEF Grown
<1>3. g \in [(1..Height) \X T -> T]
  BY <1>2
<1>4. \A d \in 1..Height : \A s \in T : g[<<d, s>>] = Grown(s, ops)
  OBVIOUS
<1> HIDE DEF T, g
<1>5. PICK F \in [0..Height -> T] : Recursion({n}, g, Height, F)
  BY <1>1, <1>3, RecursionExists
<1>6. F = [d \in 0..Height |-> IF d = 0 THEN {n} ELSE g[<<d, F[d - 1]>>]]
  BY <1>5 DEF Recursion
<1>7. \A d \in 0..Height : d # 0 => d \in 1..Height /\ F[d - 1] \in T
  BY <1>1, <1>5
<1>8. F = [d \in 0..Height |-> IF d = 0 THEN {n} ELSE Grown(F[d - 1], ops)]
  BY <1>4, <1>6, <1>7
<1> QED BY <1>8 DEF Down

LEMMA ReachFacts ==
    ASSUME NEW n \in Nodes, NEW ops
    PROVE  /\ n \in Reach(n, ops)
           /\ \A C : n \in C /\ (\A m \in C : m.op \in ops => Range(m.kids) \subseteq C)
                     => Reach(n, ops) \subseteq C
<1> DEFINE F == CHOOSE F : Down(n, ops, F)
<1>1. Down(n, ops, F)
  BY DownExists
<1>2. Reach(n, ops) = F[Height]
  BY DEF Reach, Down, Grown
<1> HIDE DEF F
<1>3. Height \in Nat
  BY NodeAssumption
<1>4. F[0] = {n} /\ \A d \in 1..Height : F[d] = Grown(F[d - 1], ops)
  <2>1. F = [d \in 0..Height |-> IF d = 0 THEN {n} ELSE Grown(F[d - 1], ops)]
    BY <1>1 DEF Down
  <2>2. 0 \in 0..Height /\ \A d \in 1..Height : d \in 0..Height /\ d # 0
    BY <1>3
  <2> QED BY <2>1, <2>2
<1>5. n \in F[Height]
  <2> DEFINE S == {d \in 0..Height : n \in F[d]}
  <2>1. 0 \in S
    BY <1>3, <1>4
  <2>2. ASSUME NEW d \in 1..Height, d - 1 \in S PROVE d \in S
    <3>1. n \in F[d - 1] /\ d \in 0..Height
      BY <2>2, <1>3
    <3>2. n \in F[d]
      BY <1>4, <3>1 DEF Grown
    <3> QED BY <3>1, <3>2
  <2> HIDE DEF S
  <2>3. Height \in S
    BY <1>3, <2>1, <2>2, InductionTo
  <2> QED BY <2>3 DEF S
<1>6. ASSUME NEW C, n \in C, \A m \in C : m.op \in ops => Range(m.kids) \subseteq C
      PROVE  F[Height] \subseteq C
  <2> DEFINE S == {d \in 0..Height : F[d] \subseteq C}
  <2>1. 0 \in S
    BY <1>3, <1>4, <1>6
  <2>2. ASSUME NEW d \in 1..Height, d - 1 \in S PROVE d \in S
    <3>1. F[d - 1] \subseteq C /\ d \in 0..Height
      BY <2>2, <1>3
    <3>2. Kids({m \in F[d - 1] : m.op \in ops}) \subseteq C
      BY <1>6, <3>1 DEF Kids
    <3> QED BY <1>4, <3>1, <3>2 DEF Grown
  <2> HIDE DEF S
  <2>3. Height \in S
    BY <1>3, <2>1, <2>2, InductionTo
  <2> QED BY <2>3 DEF S
<1> QED BY <1>2, <1>5, <1>6

\* A statement and all below it: nodes, and nothing outside what is closed.
LEMMA WithinFacts ==
    ASSUME NEW n \in Nodes
    PROVE  /\ n \in Within(n) /\ Within(n) \subseteq Nodes
           /\ \A m \in Within(n) : Range(m.kids) \subseteq Within(n) /\ Within(m) \subseteq Within(n)
           /\ \A t \in Reach(n, {"tuple"}) : t \in Within(n)
<1>1. n \in Within(n)
  BY ReachFacts DEF Within
<1>2. Kids(Nodes) \subseteq Nodes
  BY KidsAreNodes
<1>3. \A m \in Nodes : Range(m.kids) \subseteq Nodes
  BY <1>2 DEF Kids
<1>4. Within(n) \subseteq Nodes
  BY <1>3, ReachFacts DEF Within
<1>5. Kids(Within(n)) \subseteq Within(n)
  BY NodeAssumption
<1>6. \A m \in Within(n) : Range(m.kids) \subseteq Within(n)
  BY <1>5 DEF Kids
<1>7. ASSUME NEW m \in Within(n) PROVE Within(m) \subseteq Within(n)
  <2>1. m \in Nodes
    BY <1>4
  <2>2. Reach(m, Ops) \subseteq Within(n)
    BY <1>6, <2>1, ReachFacts
  <2> QED BY <2>2 DEF Within
<1>8. Reach(n, {"tuple"}) \subseteq Within(n)
  BY <1>1, <1>6, ReachFacts
<1> QED BY <1>1, <1>4, <1>6, <1>7, <1>8

-----------------------------------------------------------------------------
(* Parameters.                                                             *)

\* What the function in OfForm is.
Picked(ps, form, F) ==
    F = [i \in 0..Len(ps) |-> IF i = 0 THEN << >>
                              ELSE IF ps[i].form = form THEN Append(F[i - 1], ps[i])
                              ELSE F[i - 1]]

LEMMA PickedExists ==
    ASSUME NEW ps \in Seq(Parameter), NEW form
    PROVE  \E F : Picked(ps, form, F)
<1> DEFINE n == Len(ps)
           T == Seq(Parameter)
           g == [x \in (1..n) \X T |-> IF ps[x[1]].form = form THEN Append(x[2], ps[x[1]])
                                       ELSE x[2]]
<1>1. n \in Nat /\ \A i \in 1..n : ps[i] \in Parameter
  BY LenProperties, ElementOfSeq
<1>2. << >> \in T
  BY EmptySeq
<1>3. \A i \in 1..n : \A s \in T : Append(s, ps[i]) \in T
  BY <1>1, AppendProperties
<1>4. g \in [(1..n) \X T -> T]
  BY <1>3
<1>5. \A i \in 1..n : \A s \in T : g[<<i, s>>] = IF ps[i].form = form THEN Append(s, ps[i]) ELSE s
  OBVIOUS
<1> HIDE DEF n, T, g
<1>6. PICK F \in [0..n -> T] : Recursion(<< >>, g, n, F)
  BY <1>1, <1>2, <1>4, RecursionExists
<1>7. F = [i \in 0..n |-> IF i = 0 THEN << >> ELSE g[<<i, F[i - 1]>>]]
  BY <1>6 DEF Recursion
<1>8. \A i \in 0..n : i # 0 => i \in 1..n /\ F[i - 1] \in T
  BY <1>1, <1>6
<1>9. F = [i \in 0..n |-> IF i = 0 THEN << >>
                          ELSE IF ps[i].form = form THEN Append(F[i - 1], ps[i])
                          ELSE F[i - 1]]
  BY <1>5, <1>7, <1>8
<1> QED BY <1>9 DEF Picked, n

\* proof_mode and scan_params look at the parameters of one form, in order.
LEMMA OfFormFacts ==
    ASSUME NEW f \in Functions, NEW form
    PROVE  /\ OfForm(f, form) \in Seq(Parameter)
           /\ Range(OfForm(f, form)) = {p \in Params(f) : p.form = form}
<1> DEFINE ps == f.params
           n == Len(ps)
           F == CHOOSE F : Picked(ps, form, F)
           Got(i) == {ps[k] : k \in {j \in 1..i : ps[j].form = form}}
           S == {i \in 0..n : F[i] \in Seq(Parameter) /\ Range(F[i]) = Got(i)}
<1>0. ps \in Seq(Parameter)
  BY FunctionAssumption
<1>1. n \in Nat /\ \A i \in 1..n : ps[i] \in Parameter
  BY <1>0, LenProperties, ElementOfSeq
<1>2. Picked(ps, form, F)
  BY <1>0, PickedExists
<1>3. OfForm(f, form) = F[n]
  BY DEF OfForm, Picked
<1> HIDE DEF F
<1>4. F[0] = << >> /\ \A i \in 1..n : F[i] = IF ps[i].form = form THEN Append(F[i - 1], ps[i])
                                             ELSE F[i - 1]
  <2> HIDE DEF n, ps
  <2>1. F = [i \in 0..n |-> IF i = 0 THEN << >>
                            ELSE IF ps[i].form = form THEN Append(F[i - 1], ps[i])
                            ELSE F[i - 1]]
    BY <1>2 DEF Picked, n
  <2>2. 0 \in 0..n /\ \A i \in 1..n : i \in 0..n /\ i # 0
    BY <1>1
  <2> QED BY <2>1, <2>2
<1>5. 0 \in S
  <2>1. Got(0) = {}
    OBVIOUS
  <2>2. << >> \in Seq(Parameter) /\ 0 \in 0..n
    BY <1>1, EmptySeq
  <2> HIDE DEF Got, n
  <2> QED BY <1>4, <2>1, <2>2, RangeEmpty
<1>6. ASSUME NEW i \in 1..n, i - 1 \in S PROVE i \in S
  <2> HIDE DEF ps
  <2>1. F[i - 1] \in Seq(Parameter) /\ Range(F[i - 1]) = Got(i - 1) /\ i \in 0..n
    BY <1>6
  <2>2. CASE ps[i].form = form
    <3>1. Got(i) = Got(i - 1) \cup {ps[i]}
      <4>1. {j \in 1..i : ps[j].form = form} = {j \in 1..i - 1 : ps[j].form = form} \cup {i}
        BY <1>1, <2>2
      <4> QED BY <4>1
    <3> HIDE DEF Got, n
    <3>2. ps[i] \in Parameter /\ F[i] = Append(F[i - 1], ps[i])
      BY <1>1, <1>4, <2>2
    <3>3. F[i] \in Seq(Parameter) /\ Range(F[i]) = Range(F[i - 1]) \cup {ps[i]}
      BY <2>1, <3>2, AppendProperties, RangeAppend
    <3> QED BY <2>1, <3>1, <3>3
  <2>3. CASE ps[i].form # form
    <3>1. Got(i) = Got(i - 1)
      <4>1. {j \in 1..i : ps[j].form = form} = {j \in 1..i - 1 : ps[j].form = form}
        BY <1>1, <2>3
      <4> QED BY <4>1
    <3> HIDE DEF Got, n
    <3> QED BY <1>4, <2>1, <2>3, <3>1
  <2> QED BY <2>2, <2>3
<1>7. n \in S
  <2> HIDE DEF S, n
  <2>1. \A i \in 0..n : i \in S
    BY <1>1, <1>5, <1>6, InductionTo
  <2> QED BY <1>1, <2>1
<1>8. Got(n) = {p \in Params(f) : p.form = form}
  <2>1. DOMAIN ps = 1..n
    BY <1>0, LenProperties
  <2> QED BY <2>1 DEF Params
<1> QED BY <1>3, <1>7, <1>8

-----------------------------------------------------------------------------
(* What is left to run.                                                    *)

Crossing == {"verify", "receive"}
Closing  == Gen("close", << >>, "")
Item(f)    == Inside(f.body) \cup {Closing} \cup Range(Prelude(f))
Guarded(f) == GuardOf(f) \cup (IF HasGuard(f) THEN {f.body[1]} ELSE {})

\* What crosses the boundary comes after nothing but the guard, and scopes are
\* closed before it; the guard itself can only be first.
InOrder(f, s) ==
    /\ \A i, j \in DOMAIN s : s[j].op \in Crossing /\ i < j =>
          s[i].op \in Crossing \cup {"close"} \/ s[i] \in Guarded(f)
    /\ \A i, j \in DOMAIN s : s[j].op \in Crossing /\ j < i => s[i].op # "close"
    /\ \A i \in DOMAIN s : s[i].op = "pre" => i = 1

\* The scopes still to be closed, counted from the end.
Closers(s)    == {Len(s) - i : i \in {j \in DOMAIN s : s[j].op = "close"}}
Closes(s, n)  == IsFiniteSet(Closers(s)) /\ Cardinality(Closers(s)) = n

LEMMA RestTail ==
    ASSUME NEW f, NEW S, NEW s \in Seq(S), s # << >>, InOrder(f, s)
    PROVE  /\ Tail(s) \in Seq(S) /\ InOrder(f, Tail(s))
           /\ \A i \in DOMAIN Tail(s) : i + 1 \in DOMAIN s /\ Tail(s)[i] = s[i + 1]
           /\ \A i \in DOMAIN Tail(s) : Tail(s)[i].op # "pre"
<1> DEFINE t == Tail(s)
<1>1. /\ t \in Seq(S) /\ Len(t) = Len(s) - 1 /\ Len(s) \in Nat \ {0}
      /\ \A i \in 1..Len(t) : t[i] = s[i + 1]
  BY HeadTailProperties, EmptySeq
<1>2. DOMAIN t = 1..Len(t) /\ DOMAIN s = 1..Len(s)
  BY <1>1, LenProperties
<1> HIDE DEF t
<1>3. \A i \in DOMAIN t : i + 1 \in DOMAIN s /\ t[i] = s[i + 1] /\ i \in Nat \ {0}
  BY <1>1, <1>2
<1>4. \A i \in DOMAIN t : t[i].op # "pre"
  BY <1>3 DEF InOrder
<1>5. \A i, j \in DOMAIN t : i < j => i + 1 < j + 1
  BY <1>3
<1>6. InOrder(f, t)
  BY <1>3, <1>4, <1>5 DEF InOrder
<1> QED BY <1>1, <1>3, <1>4, <1>6 DEF t

LEMMA RestPush ==
    ASSUME NEW f, NEW S, NEW ks \in Seq(S), NEW t \in Seq(S), InOrder(f, t),
           \A i \in DOMAIN t : t[i].op # "pre",
           \A i \in DOMAIN ks : ks[i].op \notin Crossing \cup {"pre"},
           \A i \in DOMAIN ks : ks[i] \in Guarded(f) \/ \A j \in DOMAIN t : t[j].op \notin Crossing
    PROVE  ks \o t \in Seq(S) /\ InOrder(f, ks \o t)
<1> DEFINE s == ks \o t
           n == Len(ks)
<1>1. /\ s \in Seq(S) /\ Len(s) = n + Len(t) /\ n \in Nat /\ Len(t) \in Nat
      /\ \A i \in 1..n + Len(t) : s[i] = IF i <= n THEN ks[i] ELSE t[i - n]
  BY ConcatProperties, LenProperties
<1>2. DOMAIN s = 1..Len(s) /\ DOMAIN ks = 1..n /\ DOMAIN t = 1..Len(t)
  BY <1>1, LenProperties
<1> HIDE DEF s, n
<1>3. \A i \in DOMAIN s : \/ i <= n /\ i \in DOMAIN ks /\ s[i] = ks[i]
                          \/ i > n /\ i - n \in DOMAIN t /\ s[i] = t[i - n]
  BY <1>1, <1>2
<1>4. DOMAIN s \subseteq Nat
  BY <1>1, <1>2
<1>5. ASSUME NEW i \in DOMAIN s, NEW j \in DOMAIN s, s[j].op \in Crossing, i < j
      PROVE  s[i].op \in Crossing \cup {"close"} \/ s[i] \in Guarded(f)
  <2>1. j > n /\ j - n \in DOMAIN t /\ s[j] = t[j - n]
    BY <1>3, <1>5
  <2>2. CASE i <= n
    <3>1. i \in DOMAIN ks /\ s[i] = ks[i]
      BY <1>1, <1>3, <1>4, <2>2
    <3> QED BY <1>5, <2>1, <3>1
  <2>3. CASE i > n
    <3>1. i - n \in DOMAIN t /\ s[i] = t[i - n] /\ i - n < j - n
      BY <1>1, <1>3, <1>4, <1>5, <2>3
    <3> QED BY <1>5, <2>1, <3>1 DEF InOrder
  <2> QED BY <1>1, <1>4, <2>2, <2>3
<1>6. ASSUME NEW i \in DOMAIN s, NEW j \in DOMAIN s, s[j].op \in Crossing, j < i
      PROVE  s[i].op # "close"
  <2>1. j > n /\ j - n \in DOMAIN t /\ s[j] = t[j - n]
    BY <1>3, <1>6
  <2>2. i - n \in DOMAIN t /\ s[i] = t[i - n] /\ j - n < i - n
    BY <1>1, <1>3, <1>4, <1>6, <2>1
  <2> QED BY <1>6, <2>1, <2>2 DEF InOrder
<1>7. \A i \in DOMAIN s : s[i].op # "pre"
  BY <1>3
<1>8. InOrder(f, s)
  BY <1>5, <1>6, <1>7 DEF InOrder
<1> QED BY <1>1, <1>8 DEF s

\* A closing in front disturbs nothing.
LEMMA RestClosing ==
    ASSUME NEW f, NEW S, Closing \in S, NEW t \in Seq(S), InOrder(f, t), \A i \in DOMAIN t : t[i].op # "pre"
    PROVE  /\ <<Closing>> \o t \in Seq(S) /\ InOrder(f, <<Closing>> \o t)
           /\ \A i \in DOMAIN (<<Closing>> \o t) : (<<Closing>> \o t)[i].op # "pre"
           /\ \A j \in DOMAIN t : j + 1 \in DOMAIN (<<Closing>> \o t) /\ (<<Closing>> \o t)[j + 1] = t[j]
           /\ \A i \in DOMAIN (<<Closing>> \o t) : (<<Closing>> \o t)[i] = Closing \/ \E j \in DOMAIN t : (<<Closing>> \o t)[i] = t[j]
<1> DEFINE s == <<Closing>> \o t
<1>0. <<Closing>> \in Seq(S) /\ Len(<<Closing>>) = 1 /\ <<Closing>>[1] = Closing
  OBVIOUS
<1>1. /\ s \in Seq(S) /\ Len(s) = 1 + Len(t) /\ Len(t) \in Nat
      /\ \A i \in 1..1 + Len(t) : s[i] = IF i <= 1 THEN Closing ELSE t[i - 1]
  BY <1>0, ConcatProperties, LenProperties
<1>2. DOMAIN s = 1..Len(s) /\ DOMAIN t = 1..Len(t)
  BY <1>1, LenProperties
<1> HIDE DEF s
<1>3. \A i \in DOMAIN s : \/ i = 1 /\ s[i] = Closing
                          \/ i > 1 /\ i - 1 \in DOMAIN t /\ s[i] = t[i - 1]
  BY <1>1, <1>2
<1>4. DOMAIN s \subseteq Nat
  BY <1>1, <1>2
<1>5. Closing.op = "close"
  BY DEF Closing, Gen
<1>6. \A i \in DOMAIN s : s[i].op # "pre"
  BY <1>3, <1>5
<1>7. \A i, j \in DOMAIN s : s[j].op \in Crossing /\ i < j =>
          s[i].op \in Crossing \cup {"close"} \/ s[i] \in Guarded(f)
  <2> SUFFICES ASSUME NEW i \in DOMAIN s, NEW j \in DOMAIN s, s[j].op \in Crossing, i < j, i # 1
               PROVE  s[i].op \in Crossing \cup {"close"} \/ s[i] \in Guarded(f)
    BY <1>3, <1>5
  <2>1. /\ j - 1 \in DOMAIN t /\ s[j] = t[j - 1] /\ i - 1 \in DOMAIN t /\ s[i] = t[i - 1]
        /\ i - 1 < j - 1
    BY <1>3, <1>4
  <2> QED BY <2>1 DEF InOrder
<1>8. \A i, j \in DOMAIN s : s[j].op \in Crossing /\ j < i => s[i].op # "close"
  <2> SUFFICES ASSUME NEW i \in DOMAIN s, NEW j \in DOMAIN s, s[j].op \in Crossing, j < i
               PROVE  s[i].op # "close"
    OBVIOUS
  <2>0. j # 1
    BY <1>3, <1>5 DEF Crossing
  <2>1. /\ j - 1 \in DOMAIN t /\ s[j] = t[j - 1] /\ i - 1 \in DOMAIN t /\ s[i] = t[i - 1]
        /\ j - 1 < i - 1
    BY <1>3, <1>4, <2>0
  <2> QED BY <2>1 DEF InOrder
<1>9. InOrder(f, s)
  BY <1>6, <1>7, <1>8 DEF InOrder
<1>10. \A j \in DOMAIN t : j + 1 \in DOMAIN s /\ s[j + 1] = t[j]
  BY <1>1, <1>2
<1>11. \A i \in DOMAIN s : s[i] = Closing \/ \E j \in DOMAIN t : s[i] = t[j]
  BY <1>3
<1> QED BY <1>1, <1>6, <1>9, <1>10, <1>11 DEF s

LEMMA ClosersNone ==
    ASSUME NEW S, NEW s \in Seq(S), \A i \in DOMAIN s : s[i].op # "close"
    PROVE  Closes(s, 0)
<1>1. Closers(s) = {}
  BY DEF Closers
<1> QED BY <1>1, FS_EmptySet DEF Closes

LEMMA ClosersTail ==
    ASSUME NEW S, NEW s \in Seq(S), s # << >>, NEW n \in Nat, Closes(s, n)
    PROVE  /\ s[1].op = "close" => n >= 1 /\ Closes(Tail(s), n - 1)
           /\ s[1].op # "close" => Closes(Tail(s), n)
<1> DEFINE t == Tail(s)
           l == Len(s)
<1>1. /\ t \in Seq(S) /\ Len(t) = l - 1 /\ l \in Nat \ {0}
      /\ \A i \in 1..Len(t) : t[i] = s[i + 1]
  BY HeadTailProperties, EmptySeq
<1>2. DOMAIN t = 1..l - 1 /\ DOMAIN s = 1..l
  BY <1>1, LenProperties
<1> HIDE DEF t
<1>3. Closers(s) = {l - i : i \in {j \in 1..l : s[j].op = "close"}}
  BY <1>2 DEF Closers
<1>4. Closers(t) = {l - 1 - i : i \in {j \in 1..l - 1 : s[j + 1].op = "close"}}
  BY <1>1, <1>2 DEF Closers
<1> HIDE DEF l
<1>5. Closers(t) = Closers(s) \ {l - 1}
  <2>1. ASSUME NEW x \in Closers(t) PROVE x \in Closers(s) \ {l - 1}
    <3>1. PICK i \in 1..l - 1 : s[i + 1].op = "close" /\ x = l - 1 - i
      BY <1>4, <2>1
    <3>2. i + 1 \in 1..l /\ x = l - (i + 1) /\ x # l - 1
      BY <1>1, <3>1
    <3> QED BY <1>3, <3>1, <3>2
  <2>2. ASSUME NEW x \in Closers(s), x # l - 1 PROVE x \in Closers(t)
    <3>1. PICK i \in 1..l : s[i].op = "close" /\ x = l - i
      BY <1>3, <2>2
    <3>2. i - 1 \in 1..l - 1 /\ i = (i - 1) + 1 /\ x = l - 1 - (i - 1)
      BY <1>1, <2>2, <3>1
    <3> QED BY <1>4, <3>1, <3>2
  <2> QED BY <2>1, <2>2
<1>6. l - 1 \in Closers(s) <=> s[1].op = "close"
  <2>1. ASSUME l - 1 \in Closers(s) PROVE s[1].op = "close"
    <3>1. PICK i \in 1..l : s[i].op = "close" /\ l - 1 = l - i
      BY <1>3, <2>1
    <3>2. i = 1
      BY <1>1, <3>1
    <3> QED BY <3>1, <3>2
  <2>2. 1 \in 1..l
    BY <1>1
  <2> QED BY <1>3, <2>1, <2>2
<1>7. IsFiniteSet(Closers(t)) /\ Cardinality(Closers(t)) = IF s[1].op = "close" THEN n - 1 ELSE n
  BY <1>5, <1>6, FS_RemoveElement DEF Closes
<1>8. s[1].op = "close" => n # 0
  BY <1>6, FS_EmptySet DEF Closes
<1> QED BY <1>7, <1>8 DEF Closes, t

LEMMA ClosersPush ==
    ASSUME NEW S, NEW ks \in Seq(S), NEW t \in Seq(S), NEW n,
           \A i \in DOMAIN ks : ks[i].op # "close", Closes(t, n)
    PROVE  Closes(ks \o t, n)
<1> DEFINE s == ks \o t
           k == Len(ks)
           l == Len(t)
<1>1. /\ s \in Seq(S) /\ Len(s) = k + l /\ k \in Nat /\ l \in Nat
      /\ \A i \in 1..k + l : s[i] = IF i <= k THEN ks[i] ELSE t[i - k]
  BY ConcatProperties, LenProperties
<1>2. DOMAIN s = 1..k + l /\ DOMAIN ks = 1..k /\ DOMAIN t = 1..l
  BY <1>1, LenProperties
<1> HIDE DEF s
<1>3. /\ Closers(s) = {k + l - i : i \in {j \in 1..k + l : s[j].op = "close"}}
      /\ Closers(t) = {l - i : i \in {j \in 1..l : t[j].op = "close"}}
  BY <1>1, <1>2 DEF Closers
<1> HIDE DEF k, l
<1>4. ASSUME NEW x \in Closers(s) PROVE x \in Closers(t)
  <2>1. PICK i \in 1..k + l : s[i].op = "close" /\ x = k + l - i
    BY <1>3, <1>4
  <2>2. i > k
    BY <1>1, <1>2, <2>1
  <2>3. i - k \in 1..l /\ t[i - k].op = "close" /\ x = l - (i - k)
    BY <1>1, <2>1, <2>2
  <2> QED BY <1>3, <2>3
<1>5. ASSUME NEW x \in Closers(t) PROVE x \in Closers(s)
  <2>1. PICK i \in 1..l : t[i].op = "close" /\ x = l - i
    BY <1>3, <1>5
  <2>2. i + k \in 1..k + l /\ ~(i + k <= k) /\ (i + k) - k = i /\ x = k + l - (i + k)
    BY <1>1, <2>1
  <2>3. s[i + k] = t[i]
    BY <1>1, <2>2
  <2> QED BY <1>3, <2>1, <2>2, <2>3
<1>6. Closers(s) = Closers(t)
  BY <1>4, <1>5
<1> QED BY <1>6 DEF Closes, s

LEMMA ClosersClosing ==
    ASSUME NEW S, Closing \in S, NEW t \in Seq(S), NEW n \in Nat, Closes(t, n)
    PROVE  Closes(<<Closing>> \o t, n + 1)
<1> DEFINE s == <<Closing>> \o t
           l == Len(t)
<1>0. <<Closing>> \in Seq(S) /\ Len(<<Closing>>) = 1 /\ <<Closing>>[1] = Closing
  OBVIOUS
<1>1. /\ s \in Seq(S) /\ Len(s) = 1 + l /\ l \in Nat
      /\ \A i \in 1..1 + l : s[i] = IF i <= 1 THEN Closing ELSE t[i - 1]
  BY <1>0, ConcatProperties, LenProperties
<1>2. DOMAIN s = 1..1 + l /\ DOMAIN t = 1..l
  BY <1>1, LenProperties
<1> HIDE DEF s
<1>3. /\ Closers(s) = {1 + l - i : i \in {j \in 1..1 + l : s[j].op = "close"}}
      /\ Closers(t) = {l - i : i \in {j \in 1..l : t[j].op = "close"}}
  BY <1>1, <1>2 DEF Closers
<1> HIDE DEF l
<1>4. Closing.op = "close"
  BY DEF Closing, Gen
<1>5. ASSUME NEW x \in Closers(s) PROVE x \in Closers(t) \cup {l}
  <2>1. PICK i \in 1..1 + l : s[i].op = "close" /\ x = 1 + l - i
    BY <1>3, <1>5
  <2>2. CASE i = 1
    BY <1>1, <2>1, <2>2
  <2>3. CASE i # 1
    <3>1. i - 1 \in 1..l /\ t[i - 1].op = "close" /\ x = l - (i - 1)
      BY <1>1, <2>1, <2>3
    <3> QED BY <1>3, <3>1
  <2> QED BY <2>2, <2>3
<1>6. ASSUME NEW x \in Closers(t) PROVE x \in Closers(s)
  <2>1. PICK i \in 1..l : t[i].op = "close" /\ x = l - i
    BY <1>3, <1>6
  <2>2. i + 1 \in 1..1 + l /\ ~(i + 1 <= 1) /\ (i + 1) - 1 = i /\ x = 1 + l - (i + 1)
    BY <1>1, <2>1
  <2>3. s[i + 1] = t[i]
    BY <1>1, <2>2
  <2> QED BY <1>3, <2>1, <2>2, <2>3
<1>7. l \in Closers(s)
  <2>1. 1 \in 1..1 + l /\ s[1].op = "close" /\ l = 1 + l - 1
    BY <1>1, <1>4
  <2> QED BY <1>3, <2>1
<1>8. l \notin Closers(t)
  BY <1>1, <1>3
<1>9. Closers(s) = Closers(t) \cup {l}
  BY <1>5, <1>6, <1>7
<1> QED BY <1>8, <1>9, FS_AddElement DEF Closes, s

-----------------------------------------------------------------------------
(* Functions.                                                              *)

LEMMA InsideFacts ==
    ASSUME NEW s \in Seq(Nodes)
    PROVE  /\ Inside(s) \subseteq Nodes /\ s \in Seq(Inside(s)) /\ Range(s) \subseteq Inside(s)
           /\ \A n \in Inside(s) : n.kids \in Seq(Inside(s)) /\ Within(n) \subseteq Inside(s)
<1>1. \A i \in DOMAIN s : s[i] \in Nodes
  BY ElementOfSeq, LenProperties
<1>2. Inside(s) \subseteq Nodes
  BY <1>1, WithinFacts DEF Inside
<1>3. \A i \in DOMAIN s : s[i] \in Inside(s)
  BY <1>1, WithinFacts DEF Inside
<1>4. s \in Seq(Inside(s))
  <2>1. Range(s) \subseteq Inside(s)
    BY <1>3 DEF Range
  <2> QED BY <2>1, SeqOfRange
<1>5. ASSUME NEW n \in Inside(s)
      PROVE  n.kids \in Seq(Inside(s)) /\ Within(n) \subseteq Inside(s)
  <2>1. PICK i \in DOMAIN s : n \in Within(s[i])
    BY DEF Inside
  <2>2. Range(n.kids) \subseteq Within(s[i]) /\ Within(n) \subseteq Within(s[i])
    BY <1>1, <2>1, WithinFacts
  <2>3. Within(s[i]) \subseteq Inside(s)
    BY <2>1 DEF Inside
  <2>4. n.kids \in Seq(Nodes)
    BY <1>2, NodeAssumption
  <2>5. n.kids \in Seq(Range(n.kids))
    BY <2>4, SeqOfRange
  <2> QED BY <2>2, <2>3, <2>5
<1> QED BY <1>2, <1>3, <1>4, <1>5 DEF Range

LEMMA BodyFacts ==
    ASSUME NEW f \in Functions
    PROVE  /\ Inside(f.body) \subseteq Nodes /\ f.body \in Seq(Inside(f.body))
           /\ Range(f.body) \subseteq Inside(f.body) /\ f.params \in Seq(Parameter)
           /\ \A n \in Inside(f.body) :
                 /\ n.kids \in Seq(Inside(f.body)) /\ Within(n) \subseteq Inside(f.body)
                 /\ n \in Within(n) /\ n.op \in Ops
                 /\ n.op \in {"assign", "step", "delete", "if", "loop"} => n.kids # << >>
           /\ GuardOf(f) \subseteq Inside(f.body)
           /\ \A n \in GuardOf(f) : n.kids \in Seq(GuardOf(f)) /\ Within(n) \subseteq GuardOf(f)
           /\ HasGuard(f) => f.body[1] \in Inside(f.body) /\ f.body[1].kids \in Seq(GuardOf(f))
<1>1. f.body \in Seq(Nodes) /\ f.params \in Seq(Parameter)
  BY FunctionAssumption
<1>2. /\ Inside(f.body) \subseteq Nodes /\ f.body \in Seq(Inside(f.body))
      /\ Range(f.body) \subseteq Inside(f.body)
      /\ \A n \in Inside(f.body) : n.kids \in Seq(Inside(f.body)) /\ Within(n) \subseteq Inside(f.body)
  BY <1>1, InsideFacts
<1>3. \A n \in Inside(f.body) :
         /\ n \in Within(n) /\ n.op \in Ops
         /\ n.op \in {"assign", "step", "delete", "if", "loop"} => n.kids # << >>
  BY <1>2, WithinFacts, NodeAssumption
<1>4. CASE ~HasGuard(f)
  BY <1>1, <1>2, <1>3, <1>4 DEF GuardOf
<1>5. CASE HasGuard(f)
  <2>1. 1 \in DOMAIN f.body /\ 1 \in 1..Len(f.body)
    BY <1>1, <1>5, EmptySeq, LenProperties DEF HasGuard
  <2>2. f.body[1] \in Inside(f.body)
    BY <1>2, <2>1, ElementOfSeq
  <2>3. f.body[1].kids \in Seq(Nodes) /\ f.body[1].kids \in Seq(Inside(f.body))
    BY <1>2, <2>2, NodeAssumption
  <2>4. GuardOf(f) = Inside(f.body[1].kids)
    BY <1>5 DEF GuardOf
  <2>5. /\ f.body[1].kids \in Seq(GuardOf(f))
        /\ \A n \in GuardOf(f) : n.kids \in Seq(GuardOf(f)) /\ Within(n) \subseteq GuardOf(f)
    BY <2>3, <2>4, InsideFacts
  <2>6. GuardOf(f) \subseteq Inside(f.body)
    <3>1. ASSUME NEW i \in DOMAIN f.body[1].kids PROVE Within(f.body[1].kids[i]) \subseteq Inside(f.body)
      <4>1. f.body[1].kids[i] \in Inside(f.body)
        BY <2>3, ElementOfSeq, LenProperties
      <4> QED BY <1>2, <4>1
    <3> QED BY <2>4, <3>1 DEF Inside
  <2> QED BY <1>1, <1>2, <1>3, <2>2, <2>5, <2>6
<1> QED BY <1>4, <1>5

\* scan: a precondition is the first statement or none.
LEMMA PreOnlyFirst ==
    ASSUME NEW f \in Functions, PositionOk(f)
    PROVE  /\ \A n \in Inside(f.body) :
                 /\ n.op = "pre" => HasGuard(f) /\ n = f.body[1] /\ MayGuard(f)
                 /\ \A i \in DOMAIN n.kids : n.kids[i].op # "pre"
           /\ \A i \in DOMAIN f.body : f.body[i].op = "pre" => i = 1
<1>1. f.body \in Seq(Nodes)
  BY FunctionAssumption
<1>2. ASSUME NEW n \in Inside(f.body)
      PROVE  \E i \in DOMAIN f.body : n = f.body[i] \/ n \in Inside(f.body[i].kids)
  <2>1. PICK i \in DOMAIN f.body : n \in Within(f.body[i])
    BY DEF Inside
  <2> DEFINE b == f.body[i]
             C == {b} \cup Inside(b.kids)
  <2>2. b \in Nodes /\ b.kids \in Seq(Nodes)
    BY <1>1, ElementOfSeq, LenProperties, NodeAssumption
  <2>3. /\ Range(b.kids) \subseteq Inside(b.kids)
        /\ \A m \in Inside(b.kids) : m.kids \in Seq(Inside(b.kids))
    BY <2>2, InsideFacts
  <2>4. \A m \in C : Range(m.kids) \subseteq C
    BY <2>3, RangeEquality, ElementOfSeq
  <2>5. Within(b) \subseteq C
    <3> HIDE DEF C, b
    <3>1. b \in C
      BY DEF C
    <3> QED BY <2>2, <2>4, <3>1, ReachFacts DEF Within
  <2> QED BY <2>1, <2>5
<1>3. ASSUME NEW n \in Inside(f.body), NEW k \in DOMAIN n.kids PROVE n.kids[k].op # "pre"
  <2>1. PICK i \in DOMAIN f.body : n = f.body[i] \/ n \in Inside(f.body[i].kids)
    BY <1>2
  <2>2. f.body[i] \in Nodes /\ f.body[i].kids \in Seq(Nodes)
    BY <1>1, ElementOfSeq, LenProperties, NodeAssumption
  <2>3. n.kids \in Seq(Inside(f.body[i].kids))
    BY <2>1, <2>2, InsideFacts
  <2>4. n.kids[k] \in Inside(f.body[i].kids)
    BY <2>3, ElementOfSeq, LenProperties
  <2> QED BY <2>4 DEF PositionOk
<1>4. ASSUME NEW n \in Inside(f.body), n.op = "pre" PROVE HasGuard(f) /\ n = f.body[1] /\ MayGuard(f)
  <2>1. PICK i \in DOMAIN f.body : n = f.body[i] \/ n \in Inside(f.body[i].kids)
    BY <1>2
  <2>2. n = f.body[i] /\ i = 1 /\ MayGuard(f)
    BY <1>4, <2>1 DEF PositionOk
  <2>3. f.body # << >>
    BY <2>1
  <2> QED BY <1>4, <2>2, <2>3 DEF HasGuard
<1>5. \A i \in DOMAIN f.body : f.body[i].op = "pre" => i = 1
  BY DEF PositionOk
<1> QED BY <1>3, <1>4, <1>5

ProofOf(f)     == IF Appends(f) THEN "inputProof" ELSE Inputs(f)[1].proof
Verifying(f)   == Gen("verify", NamesOf(Inputs(f)), ProofOf(f))
Receiving(p)   == Gen("receive", <<p.name>>, "")

\* expand_function_sugar and expand_shared_inputs: every managed parameter
\* crosses the boundary, the inputs all at once.
LEMMA PreludeFacts ==
    ASSUME NEW f \in Functions
    PROVE  LET p == Prelude(f) IN
           /\ p \in Seq(Range(p))
           /\ \A i \in DOMAIN p : \/ i = 1 /\ p[i] = Verifying(f) /\ Inputs(f) # << >>
                                  \/ \E q \in Range(Shareds(f)) : p[i] = Receiving(q)
           /\ \A q \in Managed(f) : \E i \in DOMAIN p : q.name \in Range(p[i].of)
           /\ Inputs(f) # << >> /\ Shareds(f) = << >> => Len(p) = 1
<1> DEFINE p == Prelude(f)
           a == IF Inputs(f) = << >> THEN << >> ELSE <<Verifying(f)>>
           b == [i \in DOMAIN Shareds(f) |-> Receiving(Shareds(f)[i])]
           X == {Verifying(f)} \cup {Receiving(q) : q \in Range(Shareds(f))}
<1>1. /\ Inputs(f) \in Seq(Parameter) /\ Range(Inputs(f)) = {q \in Params(f) : q.form = "in"}
      /\ Shareds(f) \in Seq(Parameter) /\ Range(Shareds(f)) = {q \in Params(f) : q.form = "shared"}
  BY OfFormFacts DEF Inputs, Shareds
<1>2. p = a \o b
  BY DEF Prelude, Verifying, ProofOf, Receiving
<1>3. a \in Seq(X) /\ Len(a) = IF Inputs(f) = << >> THEN 0 ELSE 1
  <2>1. Verifying(f) \in X
    OBVIOUS
  <2> HIDE DEF X
  <2>2. CASE Inputs(f) = << >>
    BY <2>2, EmptySeq
  <2>3. CASE Inputs(f) # << >>
    BY <2>1, <2>3
  <2> QED BY <2>2, <2>3
<1>4. DOMAIN Shareds(f) = 1..Len(Shareds(f)) /\ Len(Shareds(f)) \in Nat
      /\ \A i \in DOMAIN Shareds(f) : Shareds(f)[i] \in Range(Shareds(f))
  BY <1>1, LenProperties DEF Range
<1>5. b \in Seq(X) /\ Len(b) = Len(Shareds(f))
      /\ \A i \in 1..Len(b) : b[i] = Receiving(Shareds(f)[i])
  <2>1. b \in [1..Len(Shareds(f)) -> X]
    BY <1>4
  <2> QED BY <1>4, <2>1
<1>6. /\ p \in Seq(X) /\ Len(p) = Len(a) + Len(b) /\ Len(a) \in Nat /\ Len(b) \in Nat
      /\ \A i \in 1..Len(a) + Len(b) : p[i] = IF i <= Len(a) THEN a[i] ELSE b[i - Len(a)]
  <2> HIDE DEF p, a, b, X
  <2>1. Len(a) \in Nat /\ Len(b) \in Nat
    BY <1>3, <1>5, LenProperties
  <2>2. a \in Seq(X) /\ b \in Seq(X)
    BY <1>3, <1>5
  <2>3. /\ a \o b \in Seq(X) /\ Len(a \o b) = Len(a) + Len(b)
        /\ \A i \in 1..Len(a) + Len(b) : (a \o b)[i] = IF i <= Len(a) THEN a[i] ELSE b[i - Len(a)]
    BY <2>2, ConcatProperties
  <2> QED BY <1>2, <2>1, <2>3
<1>7. DOMAIN p = 1..Len(a) + Len(b)
  <2> HIDE DEF p, a, b, X
  <2> QED BY <1>6, LenProperties
<1>8. Inputs(f) # << >> => a[1] = Verifying(f)
  OBVIOUS
<1> HIDE DEF p, a, b, X
<1>9. ASSUME NEW i \in DOMAIN p
      PROVE  \/ i = 1 /\ p[i] = Verifying(f) /\ Inputs(f) # << >>
             \/ \E q \in Range(Shareds(f)) : p[i] = Receiving(q)
  <2>1. CASE i <= Len(a)
    <3>1. i = 1 /\ Inputs(f) # << >> /\ p[i] = a[i]
      BY <1>3, <1>6, <1>7, <2>1
    <3> QED BY <1>8, <3>1
  <2>2. CASE ~(i <= Len(a))
    <3>1. i - Len(a) \in 1..Len(b) /\ p[i] = b[i - Len(a)]
      BY <1>6, <1>7, <2>2
    <3>2. p[i] = Receiving(Shareds(f)[i - Len(a)]) /\ i - Len(a) \in DOMAIN Shareds(f)
      BY <1>4, <1>5, <3>1
    <3> QED BY <1>4, <3>2
  <2> QED BY <2>1, <2>2
<1>10. ASSUME NEW q \in Managed(f) PROVE \E i \in DOMAIN p : q.name \in Range(p[i].of)
  <2>0. q \in Params(f) /\ q \in Parameter /\ q.form # "plain"
    <3>1. f.params \in Seq(Parameter)
      BY FunctionAssumption
    <3>2. q \in Params(f) /\ q.form # "plain"
      BY DEF Managed
    <3>3. PICK i \in DOMAIN f.params : q = f.params[i]
      BY <3>2 DEF Params
    <3>4. q \in Parameter
      BY <3>1, <3>3, ElementOfSeq, LenProperties
    <3> QED BY <3>2, <3>4
  <2>1. CASE q.form = "in"
    <3>1. q \in Range(Inputs(f)) /\ Inputs(f) # << >>
      BY <1>1, <2>0, <2>1, RangeEmpty
    <3>2. PICK k \in DOMAIN Inputs(f) : Inputs(f)[k] = q
      BY <3>1 DEF Range
    <3>3. k \in DOMAIN NamesOf(Inputs(f)) /\ NamesOf(Inputs(f))[k] = q.name
      BY <3>2 DEF NamesOf
    <3>4. 1 \in DOMAIN p /\ p[1] = Verifying(f)
      <4>1. Len(a) = 1
        BY <1>3, <3>1
      <4> QED BY <1>6, <1>7, <1>8, <3>1, <4>1
    <3>5. p[1].of = NamesOf(Inputs(f))
      BY <3>4 DEF Verifying, Gen
    <3>6. q.name \in Range(p[1].of)
      BY <3>3, <3>5 DEF Range
    <3> QED BY <3>4, <3>6
  <2>2. CASE q.form = "shared"
    <3>1. q \in Range(Shareds(f))
      BY <1>1, <2>0, <2>2
    <3>2. PICK k \in DOMAIN Shareds(f) : Shareds(f)[k] = q
      BY <3>1 DEF Range
    <3>3. k + Len(a) \in DOMAIN p /\ p[k + Len(a)] = b[k] /\ b[k] = Receiving(q)
      BY <1>4, <1>5, <1>6, <1>7, <3>2
    <3>4. p[k + Len(a)].of = <<q.name>>
      <4>1. p[k + Len(a)] = Receiving(q)
        BY <3>3
      <4>2. Receiving(q).of = <<q.name>>
        BY DEF Receiving, Gen
      <4> QED BY <4>1, <4>2
    <3>5. q.name \in Range(<<q.name>>)
      BY DEF Range
    <3> QED BY <3>3, <3>4, <3>5
  <2> QED BY <2>0, <2>1, <2>2 DEF Parameter
<1>11. Inputs(f) # << >> /\ Shareds(f) = << >> => Len(p) = 1
  BY <1>3, <1>5, <1>6
<1>12. p \in Seq(Range(p))
  BY <1>6, SeqOfRange
<1> QED BY <1>9, <1>10, <1>11, <1>12 DEF p

\* expand_sugar: the author's statements in their order, and what crosses the
\* boundary among them.
LEMMA EmittedFacts ==
    ASSUME NEW f \in Functions
    PROVE  LET e == Emitted(f)
               m == MaterializeAfter(f)
               n == Len(Prelude(f)) IN
           /\ m = (IF HasGuard(f) THEN 1 ELSE 0) /\ n \in Nat
           /\ e \in Seq(Inside(f.body) \cup Range(Prelude(f)))
           /\ \A i \in DOMAIN e :
                 \/ i <= m /\ i \in DOMAIN f.body /\ e[i] = f.body[i]
                 \/ m < i /\ i <= m + n /\ i - m \in DOMAIN Prelude(f) /\ e[i] = Prelude(f)[i - m]
                 \/ i > m + n /\ i - n \in DOMAIN f.body /\ i - n > m /\ e[i] = f.body[i - n]
           /\ \A k \in DOMAIN Prelude(f) : k + m \in DOMAIN e /\ e[k + m] = Prelude(f)[k]
<1> DEFINE e == Emitted(f)
           m == MaterializeAfter(f)
           p == Prelude(f)
           n == Len(p)
           b == f.body
           l == Len(b)
           X == Inside(b) \cup Range(p)
           a == SubSeq(b, 1, m)
           c == SubSeq(b, m + 1, l)
<1>1. m = IF HasGuard(f) THEN 1 ELSE 0
  BY DEF MaterializeAfter
<1>2. b \in Seq(Inside(b)) /\ l \in Nat /\ \A i \in 1..l : b[i] \in Inside(b)
  BY BodyFacts, LenProperties, ElementOfSeq
<1>3. p \in Seq(Range(p)) /\ n \in Nat
  BY PreludeFacts, LenProperties
<1>4. m <= l /\ m \in Nat
  BY <1>1, <1>2, EmptySeq DEF HasGuard
<1>5. b \in Seq(X) /\ p \in Seq(X) /\ \A i \in 1..l : b[i] \in X
  BY <1>2, <1>3
<1>6. e = a \o p \o c
  BY DEF Emitted
<1> HIDE DEF e, m, p, b, X
<1>7. /\ a \in Seq(X) /\ Len(a) = m /\ \A i \in 1..m : a[i] = b[i]
  <2>1. \A i \in 1..m : b[i] \in X
    BY <1>2, <1>4, <1>5
  <2>2. /\ a \in Seq(X) /\ Len(a) = (IF 1 <= m THEN m - 1 + 1 ELSE 0)
        /\ \A i \in 1..m - 1 + 1 : a[i] = b[1 + i - 1]
    BY <1>4, <2>1, SubSeqProperties
  <2>3. \A i \in 1..m : i \in 1..m - 1 + 1 /\ 1 + i - 1 = i
    BY <1>4
  <2> HIDE DEF a
  <2> QED BY <1>4, <2>2, <2>3
<1>8. /\ c \in Seq(X) /\ Len(c) = l - m /\ \A i \in 1..l - m : c[i] = b[i + m]
  <2>1. \A i \in m + 1..l : b[i] \in X
    BY <1>2, <1>4, <1>5
  <2>2. /\ c \in Seq(X) /\ Len(c) = (IF m + 1 <= l THEN l - (m + 1) + 1 ELSE 0)
        /\ \A i \in 1..l - (m + 1) + 1 : c[i] = b[m + 1 + i - 1]
    <3> HIDE DEF l
    <3>1. m + 1 \in Int /\ l \in Int
      BY <1>2, <1>4
    <3> QED BY <2>1, <3>1, SubSeqProperties
  <2>3. \A i \in 1..l - m : i \in 1..l - (m + 1) + 1 /\ m + 1 + i - 1 = i + m
    BY <1>2, <1>4
  <2> HIDE DEF c, l
  <2> QED BY <1>2, <1>4, <2>2, <2>3
<1> HIDE DEF a, c
<1>9. /\ a \o p \in Seq(X) /\ Len(a \o p) = m + n
      /\ \A i \in 1..m + n : (a \o p)[i] = IF i <= m THEN b[i] ELSE p[i - m]
  <2>1. /\ a \o p \in Seq(X) /\ Len(a \o p) = Len(a) + Len(p)
        /\ \A i \in 1..Len(a) + Len(p) : (a \o p)[i] = IF i <= Len(a) THEN a[i] ELSE p[i - Len(a)]
    BY <1>5, <1>7, ConcatProperties
  <2> HIDE DEF n
  <2>2. \A i \in 1..m + n : i <= m => i \in 1..m
    BY <1>3, <1>4
  <2> QED BY <1>7, <2>1, <2>2 DEF n
<1>10. /\ e \in Seq(X) /\ Len(e) = n + l
       /\ \A i \in 1..n + l : e[i] = IF i <= m + n THEN IF i <= m THEN b[i] ELSE p[i - m]
                                     ELSE b[i - n]
  <2> DEFINE d == a \o p
  <2>1. d \in Seq(X) /\ Len(d) = m + n
        /\ \A i \in 1..m + n : d[i] = IF i <= m THEN b[i] ELSE p[i - m]
    BY <1>9
  <2>2. e = d \o c
    BY <1>6
  <2> HIDE DEF d, n, l
  <2>3. /\ e \in Seq(X) /\ Len(e) = Len(d) + Len(c)
        /\ \A i \in 1..Len(d) + Len(c) : e[i] = IF i <= Len(d) THEN d[i] ELSE c[i - Len(d)]
    BY <1>8, <2>1, <2>2, ConcatProperties
  <2>4. Len(d) + Len(c) = n + l
    BY <1>2, <1>3, <1>4, <1>8, <2>1
  <2>5. \A i \in 1..n + l : /\ i <= m + n => i \in 1..m + n
                            /\ ~(i <= m + n) => i - (m + n) \in 1..l - m /\ i - (m + n) + m = i - n
    BY <1>2, <1>3, <1>4
  <2> QED BY <1>8, <2>1, <2>3, <2>4, <2>5
<1>11. DOMAIN e = 1..n + l /\ DOMAIN p = 1..n /\ DOMAIN b = 1..l
  <2>1. DOMAIN e = 1..Len(e) /\ DOMAIN p = 1..Len(p) /\ DOMAIN b = 1..Len(b)
    BY <1>5, <1>10, LenProperties
  <2> QED BY <1>10, <2>1
<1> HIDE DEF n, l
<1>12. ASSUME NEW i \in DOMAIN e
       PROVE  \/ i <= m /\ i \in DOMAIN b /\ e[i] = b[i]
              \/ m < i /\ i <= m + n /\ i - m \in DOMAIN p /\ e[i] = p[i - m]
              \/ i > m + n /\ i - n \in DOMAIN b /\ i - n > m /\ e[i] = b[i - n]
  <2>0. i \in 1..n + l /\ i \in Nat
    BY <1>2, <1>3, <1>11
  <2>1. CASE i <= m
    <3>1. i \in DOMAIN b /\ i <= m + n
      BY <1>2, <1>3, <1>4, <1>11, <2>0, <2>1
    <3> QED BY <1>10, <2>0, <2>1, <3>1
  <2>2. CASE m < i /\ i <= m + n
    <3>1. i - m \in DOMAIN p /\ ~(i <= m)
      BY <1>2, <1>3, <1>4, <1>11, <2>0, <2>2
    <3> QED BY <1>10, <2>0, <2>2, <3>1
  <2>3. CASE i > m + n
    <3>1. i - n \in DOMAIN b /\ i - n > m /\ ~(i <= m + n)
      BY <1>2, <1>3, <1>4, <1>11, <2>0, <2>3
    <3> QED BY <1>10, <2>0, <2>3, <3>1
  <2> QED BY <1>3, <1>4, <2>0, <2>1, <2>2, <2>3
<1>13. ASSUME NEW k \in DOMAIN p PROVE k + m \in DOMAIN e /\ e[k + m] = p[k]
  <2>1. k + m \in 1..n + l /\ k + m <= m + n /\ ~(k + m <= m) /\ (k + m) - m = k
    BY <1>2, <1>3, <1>4, <1>11
  <2> QED BY <1>10, <1>11, <2>1
<1> QED BY <1>1, <1>3, <1>10, <1>12, <1>13 DEF e, m, p, n, b, X

-----------------------------------------------------------------------------
(* The shape of a run.                                                     *)

Local(x)   == Entry(x, <<"local", x>>, "both")
Ready(x)   == Entry(x, <<"param", x>>, "emitted")
Locals(f)  == {Local(x) : x \in DeclaredIn(Inside(f.body))}
Readied(f) == {Ready(x) : x \in Names(Managed(f))}
Known(f)   == Locals(f) \cup Readied(f) \cup Header(f)

\* Two scopes are never closed while the body runs: the header's, and the
\* body's, where the expansion declares what has crossed the boundary.
Scoped(f, s, ss) ==
    LET n == Len(ss) IN
    /\ ss \in Seq(SUBSET Known(f)) /\ n >= 2 /\ Closes(s, n - 2)
    /\ ss[n] = Header(f) /\ ss[n - 1] \subseteq Locals(f) \cup Readied(f)
    /\ \A i \in 1..n - 2 : ss[i] \subseteq Locals(f)

\* A managed parameter is ready, or is still to cross.
Awaited(s, x) == \E i \in DOMAIN s : s[i].op \in Crossing /\ x \in Range(s[i].of)
Crossed(f, s, ss) ==
    \A x \in Names(Managed(f)) : Awaited(s, x) \/ Ready(x) \in ss[Len(ss) - 1]

AtDoor(f, s, ss) == s = <<Gen("enter", << >>, "")>> /\ ss = <<Header(f)>>
Underway(f, s, ss) ==
    s \in Seq(Item(f)) /\ InOrder(f, s) /\ Scoped(f, s, ss) /\ Crossed(f, s, ss)

NoShare(cs) == \A i \in DOMAIN cs : cs[i].op # "share"

Shape ==
    /\ fn \in Functions /\ Accepted(fn)
    /\ \/ AtDoor(fn, rest, scopes) /\ calls = << >> /\ ended = "no"
       \/ Underway(fn, rest, scopes)
    /\ rest # << >> /\ rest[1].op = "pre" => calls = << >>
    /\ \E S : calls \in Seq(S)
    /\ ended # "returned" => NoShare(calls)

LEMMA GenFacts ==
    \A op, of, proof : /\ Gen(op, of, proof).op = op /\ Gen(op, of, proof).of = of
                       /\ Gen(op, of, proof).proof = proof
BY DEF Gen

LEMMA ReceivingFacts == \A q : Receiving(q).op = "receive" /\ Receiving(q).of = <<q.name>>
<1>1. \A q : Receiving(q).op = "receive"
  BY DEF Receiving, Gen
<1>2. \A q : Receiving(q).of = <<q.name>>
  BY DEF Receiving, Gen
<1> QED BY <1>1, <1>2

LEMMA ItemFacts ==
    ASSUME NEW f \in Functions, NEW x \in Item(f)
    PROVE  \/ x \in Inside(f.body) /\ x.op \in Ops
           \/ x = Closing /\ x.op = "close"
           \/ /\ x = Verifying(f) /\ x.op = "verify" /\ x.of = NamesOf(Inputs(f))
              /\ x.proof = ProofOf(f) /\ Inputs(f) # << >>
           \/ x.op = "receive" /\ \E q \in Range(Shareds(f)) : x = Receiving(q) /\ x.of = <<q.name>>
<1>1. CASE x \in Inside(f.body)
  BY <1>1, BodyFacts
<1>2. CASE x = Closing
  BY <1>2 DEF Closing, Gen
<1>3. CASE x \in Range(Prelude(f))
  <2>1. PICK i \in DOMAIN Prelude(f) : x = Prelude(f)[i]
    BY <1>3 DEF Range
  <2>2. CASE x = Verifying(f) /\ Inputs(f) # << >>
    BY <2>2 DEF Verifying, Gen
  <2>3. CASE \E q \in Range(Shareds(f)) : x = Receiving(q)
    <3>1. PICK q \in Range(Shareds(f)) : x = Receiving(q)
      BY <2>3
    <3>2. Receiving(q).op = "receive" /\ Receiving(q).of = <<q.name>>
      BY ReceivingFacts
    <3> QED BY <3>1, <3>2
  <2> QED BY <2>1, <2>2, <2>3, PreludeFacts
<1> QED BY <1>1, <1>2, <1>3 DEF Item

\* What an author's statement is not.
LEMMA OpsFacts == Ops \cap {"enter", "verify", "receive", "close"} = {}
BY DEF Ops

LEMMA InitShape == Init => Shape
<1> SUFFICES ASSUME Init PROVE Shape
  OBVIOUS
<1>1. fn \in Functions /\ Accepted(fn)
  BY DEF Init
<1>2. AtDoor(fn, rest, scopes)
  BY DEF Init, AtDoor
<1>3. calls = << >> /\ ended = "no" /\ calls \in Seq({})
  BY EmptySeq DEF Init
<1>4. NoShare(calls)
  <2>1. DOMAIN calls = {}
    BY <1>3
  <2> QED BY <2>1 DEF NoShare
<1> QED BY <1>4, <1>1, <1>2, <1>3 DEF Shape

LEMMA EnterKeeps == Shape /\ Enter => Shape'
<1> SUFFICES ASSUME Shape, Enter PROVE Shape'
  OBVIOUS
<1> DEFINE f == fn
           e == Emitted(f)
           m == MaterializeAfter(f)
           p == Prelude(f)
           n == Len(p)
<1>1. f \in Functions /\ Accepted(f) /\ PositionOk(f)
  BY DEF Shape, Accepted
<1>2. fn' = fn /\ rest' = e /\ scopes' = <<{}>> \o scopes /\ UNCHANGED <<calls, ended>>
  BY DEF Enter, Uncrossed
<1>3. scopes = <<Header(f)>> /\ calls = << >> /\ ended = "no"
  <2>1. rest[1].op = "enter" /\ rest # << >>
    BY DEF Enter, Running
  <2>2. ~Underway(f, rest, scopes)
    <3> SUFFICES ASSUME rest \in Seq(Item(f)) PROVE FALSE
      BY DEF Underway
    <3>1. rest[1] \in Item(f)
      BY <2>1, EmptySeq, ElementOfSeq
    <3> QED BY <1>1, <2>1, <3>1, ItemFacts, OpsFacts
  <2> QED BY <2>2 DEF Shape, AtDoor
<1>4. /\ m = (IF HasGuard(f) THEN 1 ELSE 0) /\ n \in Nat
      /\ e \in Seq(Inside(f.body) \cup Range(p))
      /\ \A i \in DOMAIN e :
            \/ i <= m /\ i \in DOMAIN f.body /\ e[i] = f.body[i]
            \/ m < i /\ i <= m + n /\ i - m \in DOMAIN p /\ e[i] = p[i - m]
            \/ i > m + n /\ i - n \in DOMAIN f.body /\ i - n > m /\ e[i] = f.body[i - n]
      /\ \A k \in DOMAIN p : k + m \in DOMAIN e /\ e[k + m] = p[k]
  BY <1>1, EmittedFacts
<1>5. DOMAIN e \subseteq Nat /\ DOMAIN e = 1..Len(e)
  BY <1>4, LenProperties
<1>6. \A i \in DOMAIN f.body : f.body[i] \in Inside(f.body) /\ f.body[i].op \in Ops
  BY <1>1, BodyFacts, ElementOfSeq, LenProperties
<1>7. \A i \in DOMAIN p : p[i].op \in Crossing
  <2> TAKE i \in DOMAIN p
  <2>1. p[i] = Verifying(f) \/ \E q \in Range(Shareds(f)) : p[i] = Receiving(q)
    BY <1>1, PreludeFacts
  <2>2. Verifying(f).op = "verify" /\ \A q : Receiving(q).op = "receive"
    BY GenFacts DEF Verifying, Receiving
  <2> QED BY <2>1, <2>2 DEF Crossing
<1> HIDE DEF f, e, m, p, n
<1>8. e \in Seq(Item(f))
  BY <1>4 DEF Item, p
<1>9. \A i \in DOMAIN e : e[i].op # "close"
  BY <1>4, <1>6, <1>7, OpsFacts DEF Crossing
<1>10. \A i, j \in DOMAIN e : e[j].op \in Crossing /\ i < j =>
          e[i].op \in Crossing \cup {"close"} \/ e[i] \in Guarded(f)
  <2> SUFFICES ASSUME NEW i \in DOMAIN e, NEW j \in DOMAIN e, e[j].op \in Crossing, i < j
               PROVE  e[i].op \in Crossing \/ e[i] \in Guarded(f)
    OBVIOUS
  <2>1. m < j /\ j <= m + n
    BY <1>4, <1>5, <1>6, OpsFacts DEF Crossing
  <2>2. CASE i <= m
    <3>1. i = 1 /\ HasGuard(f) /\ e[i] = f.body[1]
      BY <1>4, <1>5, <2>2
    <3> QED BY <3>1 DEF Guarded
  <2>3. CASE ~(i <= m)
    <3>1. e[i] = p[i - m] /\ i - m \in DOMAIN p
      BY <1>4, <1>5, <2>1, <2>3
    <3> QED BY <1>7, <3>1
  <2> QED BY <2>2, <2>3
<1>11. \A i \in DOMAIN e : e[i].op = "pre" => i = 1
  <2> SUFFICES ASSUME NEW i \in DOMAIN e, e[i].op = "pre" PROVE i = 1
    OBVIOUS
  <2>1. CASE i <= m
    BY <1>4, <1>5, <2>1
  <2>2. CASE m < i /\ i <= m + n /\ i - m \in DOMAIN p /\ e[i] = p[i - m]
    BY <1>7, <2>2 DEF Crossing
  <2>3. CASE i > m + n /\ i - n \in DOMAIN f.body /\ i - n > m /\ e[i] = f.body[i - n]
    <3>1. i - n = 1 /\ m = 0
      BY <1>1, <1>4, <1>5, <2>3, PreOnlyFirst
    <3>2. f.body[1].op = "pre" /\ f.body # << >>
      BY <2>3, <3>1
    <3> QED BY <1>4, <3>1, <3>2 DEF HasGuard
  <2> QED BY <1>4, <2>1, <2>2, <2>3
<1>12. InOrder(f, e)
  BY <1>9, <1>10, <1>11 DEF InOrder
<1>13. scopes' \in Seq(SUBSET Known(f)) /\ Len(scopes') = 2 /\ scopes'[1] = {} /\ scopes'[2] = Header(f)
  <2>1. Header(f) \in SUBSET Known(f) /\ {} \in SUBSET Known(f)
    BY DEF Known
  <2>2. scopes' = <<{}>> \o <<Header(f)>>
    BY <1>2, <1>3 DEF f
  <2> DEFINE S == SUBSET Known(f)
             s == <<{}>>
             t == <<Header(f)>>
  <2>3. s \in Seq(S) /\ t \in Seq(S) /\ Len(s) = 1 /\ Len(t) = 1 /\ s[1] = {} /\ t[1] = Header(f)
    BY <2>1
  <2> HIDE DEF s, t
  <2>4. /\ s \o t \in Seq(S) /\ Len(s \o t) = Len(s) + Len(t)
        /\ \A i \in 1..Len(s) + Len(t) : (s \o t)[i] = IF i <= Len(s) THEN s[i] ELSE t[i - Len(s)]
    BY <2>3, ConcatProperties
  <2> QED BY <2>2, <2>3, <2>4 DEF s, t
<1>14. Closes(e, 0)
  BY <1>4, <1>9, ClosersNone
<1>15. Scoped(f, e, scopes')
  BY <1>13, <1>14 DEF Scoped
<1>16. Crossed(f, e, scopes')
  <2> SUFFICES ASSUME NEW x \in Names(Managed(f)) PROVE Awaited(e, x)
    BY DEF Crossed
  <2>1. PICK q \in Managed(f) : x = q.name
    BY DEF Names
  <2>2. PICK i \in DOMAIN p : x \in Range(p[i].of)
    BY <1>1, <2>1, PreludeFacts DEF p
  <2> QED BY <1>4, <1>7, <2>2 DEF Awaited
<1>17. Underway(f, e, scopes')
  BY <1>8, <1>12, <1>15, <1>16 DEF Underway
<1>18. NoShare(calls') /\ calls' = << >>
  BY <1>2, <1>3 DEF NoShare
<1> QED BY <1>1, <1>2, <1>17, <1>18 DEF Shape, f

-----------------------------------------------------------------------------
(* Steps of a run, as what they do to what is left and to the scopes.      *)

\* What may be pushed where s[1] stood is guarded if something is to cross.
LEMMA HeadFacts ==
    ASSUME NEW f \in Functions, PositionOk(f), NEW s, NEW ss, Underway(f, s, ss), s # << >>
    PROVE  /\ s \in Seq(Item(f)) /\ Tail(s) \in Seq(Item(f)) /\ 1 \in DOMAIN s /\ s[1] \in Item(f)
           /\ \A i \in DOMAIN s : i # 1 => s[i].op # "pre"
           /\ InOrder(f, Tail(s)) /\ \A i \in DOMAIN Tail(s) : Tail(s)[i].op # "pre"
           /\ \A i \in DOMAIN Tail(s) : i + 1 \in DOMAIN s /\ Tail(s)[i] = s[i + 1]
           /\ \A i \in DOMAIN s : i # 1 => i - 1 \in DOMAIN Tail(s) /\ Tail(s)[i - 1] = s[i]
           /\ s[1].op \in Ops =>
                 /\ s[1] \in Inside(f.body)
                 /\ \A i \in DOMAIN s[1].kids :
                       /\ s[1].kids[i] \in Inside(f.body) /\ s[1].kids[i].op # "pre"
                       /\ s[1].kids[i].op \in Ops
                 /\ (\E j \in DOMAIN s : s[j].op \in Crossing) =>
                       s[1] \in Guarded(f) /\ \A i \in DOMAIN s[1].kids : s[1].kids[i] \in GuardOf(f)
<1>1. s \in Seq(Item(f)) /\ InOrder(f, s)
  BY DEF Underway
<1>2. /\ Tail(s) \in Seq(Item(f)) /\ InOrder(f, Tail(s))
      /\ \A i \in DOMAIN Tail(s) : i + 1 \in DOMAIN s /\ Tail(s)[i] = s[i + 1]
      /\ \A i \in DOMAIN Tail(s) : Tail(s)[i].op # "pre"
  BY <1>1, RestTail
<1>3. DOMAIN s = 1..Len(s) /\ Len(s) \in Nat \ {0} /\ DOMAIN Tail(s) = 1..Len(s) - 1
  <2>1. Len(Tail(s)) = Len(s) - 1
    BY <1>1, HeadTailProperties
  <2> QED BY <1>1, <1>2, <2>1, LenProperties, EmptySeq
<1>4. 1 \in DOMAIN s /\ s[1] \in Item(f)
  BY <1>1, <1>3, ElementOfSeq
<1>5. \A i \in DOMAIN s : i # 1 => i - 1 \in DOMAIN Tail(s) /\ Tail(s)[i - 1] = s[i]
  <2> SUFFICES ASSUME NEW i \in DOMAIN s, i # 1
               PROVE  i - 1 \in DOMAIN Tail(s) /\ Tail(s)[i - 1] = s[i]
    OBVIOUS
  <2>1. i - 1 \in DOMAIN Tail(s) /\ (i - 1) + 1 = i
    BY <1>3
  <2> QED BY <1>2, <2>1
<1>6. \A i \in DOMAIN s : i # 1 => s[i].op # "pre"
  BY <1>1 DEF InOrder
<1>7. ASSUME s[1].op \in Ops
      PROVE  /\ s[1] \in Inside(f.body)
             /\ \A i \in DOMAIN s[1].kids :
                   /\ s[1].kids[i] \in Inside(f.body) /\ s[1].kids[i].op # "pre"
                   /\ s[1].kids[i].op \in Ops
             /\ (\E j \in DOMAIN s : s[j].op \in Crossing) =>
                   s[1] \in Guarded(f) /\ \A i \in DOMAIN s[1].kids : s[1].kids[i] \in GuardOf(f)
  <2>1. s[1] \in Inside(f.body)
    BY <1>4, <1>7, ItemFacts, OpsFacts
  <2>2. s[1].kids \in Seq(Inside(f.body))
    BY <2>1, BodyFacts
  <2>3. ASSUME NEW i \in DOMAIN s[1].kids
        PROVE  /\ s[1].kids[i] \in Inside(f.body) /\ s[1].kids[i].op # "pre"
               /\ s[1].kids[i].op \in Ops
    <3>1. s[1].kids[i] \in Inside(f.body)
      BY <2>2, ElementOfSeq, LenProperties
    <3> QED BY <2>1, <3>1, PreOnlyFirst, BodyFacts
  <2>4. ASSUME NEW j \in DOMAIN s, s[j].op \in Crossing
        PROVE  s[1] \in Guarded(f) /\ \A i \in DOMAIN s[1].kids : s[1].kids[i] \in GuardOf(f)
    <3>1. 1 < j
      BY <1>3, <1>7, <2>4, OpsFacts DEF Crossing
    <3>2. s[1] \in Guarded(f)
      BY <1>1, <1>4, <1>7, <2>4, <3>1, OpsFacts DEF InOrder, Crossing
    <3>3. s[1].kids \in Seq(GuardOf(f))
      BY <3>2, BodyFacts DEF Guarded
    <3> QED BY <3>2, <3>3, ElementOfSeq, LenProperties
  <2> QED BY <2>1, <2>3, <2>4
<1> QED BY <1>1, <1>2, <1>4, <1>5, <1>6, <1>7

\* A statement of the author is done with.
LEMMA DropKeeps ==
    ASSUME NEW f \in Functions, PositionOk(f), NEW s, NEW ss, Underway(f, s, ss),
           s # << >>, s[1].op \in Ops
    PROVE  Underway(f, Tail(s), ss)
<1>1. /\ s \in Seq(Item(f)) /\ Tail(s) \in Seq(Item(f)) /\ InOrder(f, Tail(s))
      /\ \A i \in DOMAIN s : i # 1 => i - 1 \in DOMAIN Tail(s) /\ Tail(s)[i - 1] = s[i]
  BY HeadFacts
<1>2. Scoped(f, s, ss) /\ Crossed(f, s, ss)
  BY DEF Underway
<1>3. Closes(Tail(s), Len(ss) - 2)
  <2>1. Len(ss) - 2 \in Nat /\ Closes(s, Len(ss) - 2)
    BY <1>2, LenProperties DEF Scoped
  <2>2. s[1].op # "close"
    BY OpsFacts
  <2> QED BY <1>1, <2>1, <2>2, ClosersTail
<1>4. Scoped(f, Tail(s), ss)
  BY <1>2, <1>3 DEF Scoped
<1>5. \A x : Awaited(s, x) => Awaited(Tail(s), x)
  <2> SUFFICES ASSUME NEW x, Awaited(s, x) PROVE Awaited(Tail(s), x)
    OBVIOUS
  <2>1. PICK i \in DOMAIN s : s[i].op \in Crossing /\ x \in Range(s[i].of)
    BY DEF Awaited
  <2>2. i # 1
    BY <2>1, OpsFacts DEF Crossing
  <2> QED BY <1>1, <2>1, <2>2 DEF Awaited
<1>6. Crossed(f, Tail(s), ss)
  BY <1>2, <1>5 DEF Crossed
<1> QED BY <1>1, <1>4, <1>6 DEF Underway

LEMMA FrontFacts ==
    ASSUME NEW S, NEW a \in S, NEW t \in Seq(S)
    PROVE  LET s == <<a>> \o t IN
           /\ s \in Seq(S) /\ Len(s) = Len(t) + 1 /\ DOMAIN s = 1..Len(t) + 1 /\ s[1] = a
           /\ \A i \in DOMAIN t : i + 1 \in DOMAIN s /\ s[i + 1] = t[i]
           /\ \A i \in DOMAIN s : i # 1 => i - 1 \in DOMAIN t /\ s[i] = t[i - 1]
<1> DEFINE s == <<a>> \o t
<1>0. <<a>> \in Seq(S) /\ Len(<<a>>) = 1 /\ <<a>>[1] = a
  OBVIOUS
<1>1. /\ s \in Seq(S) /\ Len(s) = 1 + Len(t) /\ Len(t) \in Nat
      /\ \A i \in 1..1 + Len(t) : s[i] = IF i <= 1 THEN a ELSE t[i - 1]
  BY <1>0, ConcatProperties, LenProperties
<1>2. DOMAIN s = 1..Len(s) /\ DOMAIN t = 1..Len(t)
  BY <1>1, LenProperties
<1> HIDE DEF s
<1> QED BY <1>1, <1>2 DEF s

NoPre(s) == \A i \in DOMAIN s : s[i].op # "pre"

LEMMA AwaitedAfter ==
    ASSUME NEW S, NEW ks \in Seq(S), NEW t \in Seq(S), NEW x, Awaited(t, x)
    PROVE  Awaited(ks \o t, x)
<1> DEFINE s == ks \o t
           n == Len(ks)
<1>1. /\ s \in Seq(S) /\ Len(s) = n + Len(t) /\ n \in Nat /\ Len(t) \in Nat
      /\ \A i \in 1..n + Len(t) : s[i] = IF i <= n THEN ks[i] ELSE t[i - n]
  BY ConcatProperties, LenProperties
<1>2. DOMAIN s = 1..Len(s) /\ DOMAIN t = 1..Len(t)
  BY <1>1, LenProperties
<1> HIDE DEF s, n
<1>3. PICK i \in DOMAIN t : t[i].op \in Crossing /\ x \in Range(t[i].of)
  BY DEF Awaited
<1>4. i + n \in DOMAIN s /\ ~(i + n <= n) /\ (i + n) - n = i
  BY <1>1, <1>2
<1>5. s[i + n] = t[i]
  BY <1>1, <1>2, <1>4
<1> QED BY <1>3, <1>4, <1>5 DEF Awaited, s

\* Statements of the author are put in front of what is left.
LEMMA PushKeeps ==
    ASSUME NEW f \in Functions, NEW ss, NEW t, Underway(f, t, ss), NoPre(t),
           NEW ks \in Seq(Inside(f.body)),
           \A i \in DOMAIN ks : ks[i].op \notin Crossing \cup {"pre", "close"},
           \A i \in DOMAIN ks : ks[i] \in Guarded(f) \/ \A j \in DOMAIN t : t[j].op \notin Crossing
    PROVE  Underway(f, ks \o t, ss) /\ NoPre(ks \o t)
<1>1. ks \in Seq(Item(f)) /\ t \in Seq(Item(f)) /\ InOrder(f, t)
  <2>1. Inside(f.body) \subseteq Item(f)
    BY DEF Item
  <2>2. \A i \in DOMAIN ks : ks[i] \in Item(f)
    BY <2>1, ElementOfSeq, LenProperties
  <2> QED BY <2>1, <2>2 DEF Underway
<1>2. ks \o t \in Seq(Item(f)) /\ InOrder(f, ks \o t)
  BY <1>1, RestPush DEF NoPre
<1>3. Closes(ks \o t, Len(ss) - 2)
  BY <1>1, ClosersPush DEF Underway, Scoped
<1>4. Scoped(f, ks \o t, ss)
  BY <1>3 DEF Underway, Scoped
<1>5. Crossed(f, ks \o t, ss)
  BY <1>1, AwaitedAfter DEF Underway, Crossed
<1>6. NoPre(ks \o t)
  <2> DEFINE s == ks \o t
             n == Len(ks)
  <2>1. /\ s \in Seq(Item(f)) /\ Len(s) = n + Len(t) /\ n \in Nat /\ Len(t) \in Nat
        /\ \A i \in 1..n + Len(t) : s[i] = IF i <= n THEN ks[i] ELSE t[i - n]
    BY <1>1, ConcatProperties, LenProperties
  <2>2. DOMAIN s = 1..Len(s) /\ DOMAIN t = 1..Len(t) /\ DOMAIN ks = 1..n
    BY <1>1, <2>1, LenProperties
  <2> HIDE DEF s, n
  <2>3. \A i \in DOMAIN s : \/ i \in DOMAIN ks /\ s[i] = ks[i]
                            \/ i - n \in DOMAIN t /\ s[i] = t[i - n]
    BY <2>1, <2>2
  <2> QED BY <2>3 DEF NoPre, s
<1> QED BY <1>2, <1>4, <1>5, <1>6 DEF Underway

\* A scope is opened, to be closed before what was left.
LEMMA ClosingKeeps ==
    ASSUME NEW f \in Functions, NEW t, NEW ss, Underway(f, t, ss), NoPre(t)
    PROVE  Underway(f, <<Closing>> \o t, <<{}>> \o ss) /\ NoPre(<<Closing>> \o t)
<1> DEFINE c == <<Closing>> \o t
           tt == <<{}>> \o ss
           n == Len(ss)
<1>1. t \in Seq(Item(f)) /\ InOrder(f, t) /\ Closing \in Item(f) /\ Scoped(f, t, ss) /\ Crossed(f, t, ss)
  BY DEF Underway, Item
<1>2. c \in Seq(Item(f)) /\ InOrder(f, c) /\ NoPre(c)
  <2>1. \A i \in DOMAIN t : t[i].op # "pre"
    BY DEF NoPre
  <2>2. c \in Seq(Item(f)) /\ InOrder(f, c)
    BY <1>1, <2>1, RestClosing
  <2>3. \A i \in DOMAIN c : c[i] = Closing \/ \E j \in DOMAIN t : c[i] = t[j]
    BY <1>1, <2>1, RestClosing
  <2>4. Closing.op = "close"
    BY DEF Closing, Gen
  <2>5. \A i \in DOMAIN c : c[i].op # "pre"
    <3> HIDE DEF c
    <3> QED BY <2>1, <2>3, <2>4
  <2> QED BY <2>2, <2>5 DEF NoPre
<1>3. ss \in Seq(SUBSET Known(f)) /\ n \in Nat /\ n >= 2 /\ Closes(t, n - 2) /\ DOMAIN ss = 1..n
  BY <1>1, LenProperties DEF Scoped
<1>4. /\ tt \in Seq(SUBSET Known(f)) /\ Len(tt) = n + 1 /\ DOMAIN tt = 1..n + 1 /\ tt[1] = {}
      /\ \A i \in DOMAIN ss : i + 1 \in DOMAIN tt /\ tt[i + 1] = ss[i]
      /\ \A i \in DOMAIN tt : i # 1 => i - 1 \in DOMAIN ss /\ tt[i] = ss[i - 1]
  <2>1. {} \in SUBSET Known(f)
    OBVIOUS
  <2> QED BY <1>3, <2>1, FrontFacts
<1>5. Closes(c, n - 1)
  <2>1. n - 2 \in Nat /\ (n - 2) + 1 = n - 1
    BY <1>3
  <2>2. Closes(c, (n - 2) + 1)
    BY <1>1, <1>3, <2>1, ClosersClosing
  <2> QED BY <2>1, <2>2
<1> HIDE DEF c, tt, n
<1>6. Scoped(f, c, tt)
  <2>0. /\ n \in DOMAIN ss /\ n - 1 \in DOMAIN ss /\ (n - 1) + 1 = n /\ (n + 1) - 1 = n
        /\ n + 1 >= 2 /\ (n + 1) - 2 = n - 1
    BY <1>3
  <2>1. tt[n + 1] = ss[n] /\ tt[n] = ss[n - 1]
    BY <1>4, <2>0
  <2>2. ss[n] = Header(f) /\ ss[n - 1] \subseteq Locals(f) \cup Readied(f)
        /\ \A i \in 1..n - 2 : ss[i] \subseteq Locals(f)
    BY <1>1 DEF Scoped, n
  <2>3. ASSUME NEW i \in 1..n - 1 PROVE tt[i] \subseteq Locals(f)
    <3>1. CASE i = 1
      BY <1>4, <3>1
    <3>2. CASE i # 1
      <4>1. i - 1 \in 1..n - 2 /\ i \in DOMAIN tt
        BY <1>3, <1>4, <3>2
      <4> QED BY <1>4, <2>2, <3>2, <4>1
    <3> QED BY <3>1, <3>2
  <2> QED BY <1>4, <1>5, <2>0, <2>1, <2>2, <2>3 DEF Scoped
<1>7. Crossed(f, c, tt)
  <2>1. tt[Len(tt) - 1] = ss[n - 1]
    <3>1. n - 1 \in DOMAIN ss /\ (n - 1) + 1 = n /\ (n + 1) - 1 = n
      BY <1>3
    <3> QED BY <1>4, <3>1
  <2>2. <<Closing>> \in Seq(Item(f))
    BY <1>1
  <2>3. \A x : Awaited(t, x) => Awaited(c, x)
    BY <1>1, <2>2, AwaitedAfter DEF c
  <2> QED BY <1>1, <2>1, <2>3 DEF Crossed, n
<1> QED BY <1>2, <1>6, <1>7 DEF Underway, c, tt

LEMMA OpenKeeps ==
    ASSUME NEW f \in Functions, PositionOk(f), NEW s, NEW ss, Underway(f, s, ss),
           s # << >>, s[1].op \in {"block", "pre"}
    PROVE  LET t == s[1].kids \o <<Gen("close", << >>, "")>> \o Tail(s)
           IN  Underway(f, t, <<{}>> \o ss) /\ NoPre(t)
<1> DEFINE ks == s[1].kids
           c == <<Closing>> \o Tail(s)
<1>1. s[1].op \in Ops
  BY DEF Ops
<1>2. /\ Tail(s) \in Seq(Item(f)) /\ NoPre(Tail(s)) /\ s[1] \in Inside(f.body)
      /\ \A i \in DOMAIN Tail(s) : i + 1 \in DOMAIN s /\ Tail(s)[i] = s[i + 1]
      /\ \A i \in DOMAIN ks : /\ ks[i] \in Inside(f.body) /\ ks[i].op # "pre" /\ ks[i].op \in Ops
      /\ (\E j \in DOMAIN s : s[j].op \in Crossing) => \A i \in DOMAIN ks : ks[i] \in GuardOf(f)
  BY <1>1, HeadFacts DEF NoPre
<1>3. Underway(f, Tail(s), ss)
  BY <1>1, DropKeeps
<1>4. Underway(f, c, <<{}>> \o ss) /\ NoPre(c)
  BY <1>2, <1>3, ClosingKeeps
<1>5. ks \in Seq(Inside(f.body))
  BY <1>2, BodyFacts
<1>6. \A i \in DOMAIN ks : ks[i].op \notin Crossing \cup {"pre", "close"}
  BY <1>2, OpsFacts DEF Crossing
<1>7. \A j \in DOMAIN c : c[j].op \in Crossing => \E i \in DOMAIN s : s[i].op \in Crossing
  <2>1. \A i \in DOMAIN c : c[i] = Closing \/ \E j \in DOMAIN Tail(s) : c[i] = Tail(s)[j]
    <3>1. Closing \in Item(f) /\ InOrder(f, Tail(s))
      BY <1>3 DEF Item, Underway
    <3> QED BY <1>2, <3>1, RestClosing DEF NoPre
  <2>2. Closing.op = "close"
    BY DEF Closing, Gen
  <2> QED BY <1>2, <2>1, <2>2 DEF Crossing
<1>8. \A i \in DOMAIN ks : ks[i] \in Guarded(f) \/ \A j \in DOMAIN c : c[j].op \notin Crossing
  BY <1>2, <1>7 DEF Guarded
<1>9. Underway(f, ks \o c, <<{}>> \o ss) /\ NoPre(ks \o c)
  BY <1>4, <1>5, <1>6, <1>8, PushKeeps
<1>10. ks \o <<Closing>> \o Tail(s) = ks \o c
  <2>1. Closing \in Item(f) /\ Inside(f.body) \subseteq Item(f)
    BY DEF Item
  <2>2. ks \in Seq(Item(f)) /\ <<Closing>> \in Seq(Item(f))
    <3>1. \A i \in DOMAIN ks : ks[i] \in Item(f)
      BY <1>2, <2>1
    <3>2. ks \in Seq(Item(f))
      BY <1>5, <2>1
    <3> QED BY <2>1, <3>2
  <2> QED BY <1>2, <2>2, ConcatAssociative
<1> QED BY <1>9, <1>10 DEF Closing

LEMMA CloseKeeps ==
    ASSUME NEW f \in Functions, PositionOk(f), NEW s, NEW ss, Underway(f, s, ss),
           s # << >>, s[1].op = "close"
    PROVE  Underway(f, Tail(s), Tail(ss)) /\ NoPre(Tail(s))
<1> DEFINE n == Len(ss)
           tt == Tail(ss)
<1>1. /\ s \in Seq(Item(f)) /\ Tail(s) \in Seq(Item(f)) /\ InOrder(f, Tail(s)) /\ NoPre(Tail(s))
      /\ \A i \in DOMAIN s : i # 1 => i - 1 \in DOMAIN Tail(s) /\ Tail(s)[i - 1] = s[i]
  BY HeadFacts DEF NoPre
<1>2. ss \in Seq(SUBSET Known(f)) /\ n \in Nat /\ n >= 2 /\ Closes(s, n - 2) /\ DOMAIN ss = 1..n
  BY LenProperties DEF Underway, Scoped
<1>3. n - 2 >= 1 /\ Closes(Tail(s), n - 3)
  <2>1. n - 2 \in Nat /\ (n - 2) - 1 = n - 3
    BY <1>2
  <2>2. n - 2 >= 1 /\ Closes(Tail(s), (n - 2) - 1)
    BY <1>1, <1>2, <2>1, ClosersTail
  <2> QED BY <2>1, <2>2
<1>4. /\ tt \in Seq(SUBSET Known(f)) /\ Len(tt) = n - 1
      /\ \A i \in 1..n - 1 : tt[i] = ss[i + 1]
  <2>1. ss # << >>
    BY <1>2, EmptySeq
  <2> QED BY <1>2, <2>1, HeadTailProperties
<1>5. ss[n] = Header(f) /\ ss[n - 1] \subseteq Locals(f) \cup Readied(f)
      /\ \A i \in 1..n - 2 : ss[i] \subseteq Locals(f)
  BY DEF Underway, Scoped
<1>6. Crossed(f, s, ss)
  BY DEF Underway
<1> HIDE DEF n, tt
<1>7. tt[n - 1] = ss[n] /\ tt[(n - 1) - 1] = ss[n - 1]
  <2>1. n - 1 \in 1..n - 1 /\ (n - 1) + 1 = n /\ n - 2 \in 1..n - 1 /\ (n - 2) + 1 = n - 1 /\ (n - 1) - 1 = n - 2
    BY <1>2, <1>3
  <2> QED BY <1>4, <2>1
<1>8. Scoped(f, Tail(s), tt)
  <2>1. \A i \in 1..(n - 1) - 2 : i \in 1..n - 1 /\ i + 1 \in 1..n - 2
    BY <1>2, <1>3
  <2>2. \A i \in 1..(n - 1) - 2 : tt[i] \subseteq Locals(f)
    BY <1>4, <1>5, <2>1
  <2>3. n - 1 >= 2 /\ (n - 1) - 2 = n - 3
    BY <1>2, <1>3
  <2> QED BY <1>3, <1>4, <1>5, <1>7, <2>2, <2>3 DEF Scoped
<1>9. Crossed(f, Tail(s), tt)
  <2>1. \A x : Awaited(s, x) => Awaited(Tail(s), x)
    <3> SUFFICES ASSUME NEW x, Awaited(s, x) PROVE Awaited(Tail(s), x)
      OBVIOUS
    <3>1. PICK i \in DOMAIN s : s[i].op \in Crossing /\ x \in Range(s[i].of)
      BY DEF Awaited
    <3>2. i # 1
      BY <3>1 DEF Crossing
    <3> QED BY <1>1, <3>1, <3>2 DEF Awaited
  <2> QED BY <1>4, <1>6, <1>7, <2>1 DEF Crossed, n
<1> QED BY <1>1, <1>8, <1>9 DEF Underway, tt

\* What is declared in the innermost scope.
LEMMA DeclareKeeps ==
    ASSUME NEW f \in Functions, NEW s, NEW ss, Underway(f, s, ss),
           NEW D, D \subseteq Locals(f) \cup Readied(f), D \subseteq Locals(f) \/ Len(ss) = 2
    PROVE  Underway(f, s, [ss EXCEPT ![1] = @ \cup D])
<1> DEFINE n == Len(ss)
           tt == [ss EXCEPT ![1] = @ \cup D]
<1>1. ss \in Seq(SUBSET Known(f)) /\ n \in Nat /\ n >= 2 /\ Closes(s, n - 2) /\ DOMAIN ss = 1..n
  BY LenProperties DEF Underway, Scoped
<1>2. ss[n] = Header(f) /\ ss[n - 1] \subseteq Locals(f) \cup Readied(f)
      /\ \A i \in 1..n - 2 : ss[i] \subseteq Locals(f)
  BY DEF Underway, Scoped
<1>3. /\ tt \in Seq(SUBSET Known(f)) /\ Len(tt) = n
      /\ tt[1] = ss[1] \cup D /\ \A i \in 1..n : i # 1 => tt[i] = ss[i]
  <2>1. 1 \in 1..n /\ ss[1] \in SUBSET Known(f)
    BY <1>1, ElementOfSeq
  <2>2. ss[1] \cup D \in SUBSET Known(f)
    BY <2>1 DEF Known
  <2>3. tt = [ss EXCEPT ![1] = ss[1] \cup D]
    BY <1>1, <2>1
  <2>4. tt \in Seq(SUBSET Known(f)) /\ Len(tt) = n
    BY <1>1, <2>1, <2>2, <2>3, ExceptSeq
  <2> QED BY <1>1, <2>1, <2>3, <2>4
<1> HIDE DEF n, tt
<1>4. tt[n] = ss[n]
  BY <1>1, <1>3
<1>5. ss[n - 1] \subseteq tt[n - 1] /\ tt[n - 1] \subseteq Locals(f) \cup Readied(f)
  <2>1. n - 1 \in 1..n
    BY <1>1
  <2> QED BY <1>2, <1>3, <2>1
<1>6. \A i \in 1..n - 2 : tt[i] \subseteq Locals(f)
  <2> TAKE i \in 1..n - 2
  <2>1. n # 2 /\ i \in 1..n
    BY <1>1
  <2> QED BY <1>2, <1>3, <2>1 DEF n
<1>7. Scoped(f, s, tt)
  BY <1>1, <1>2, <1>3, <1>4, <1>5, <1>6 DEF Scoped
<1>8. Crossed(f, s, tt)
  BY <1>3, <1>5 DEF Underway, Crossed, n
<1> QED BY <1>7, <1>8 DEF Underway, tt

\* What a crossing brings is a managed parameter.
LEMMA CrossingFacts ==
    ASSUME NEW f \in Functions, NEW c \in Item(f), c.op \in Crossing
    PROVE  \A x \in Range(c.of) : x \in Names(Managed(f))
<1>0. /\ Inputs(f) \in Seq(Parameter) /\ Range(Inputs(f)) = {q \in Params(f) : q.form = "in"}
      /\ Range(Shareds(f)) = {q \in Params(f) : q.form = "shared"}
  BY OfFormFacts DEF Inputs, Shareds
<1>1. Range(Inputs(f)) \cup Range(Shareds(f)) \subseteq Managed(f)
  BY <1>0 DEF Managed
<1>2. CASE c.op = "verify"
  <2>1. c.of = NamesOf(Inputs(f))
    BY <1>2, ItemFacts, OpsFacts
  <2>2. ASSUME NEW x \in Range(c.of) PROVE x \in Names(Managed(f))
    <3>1. PICK i \in DOMAIN NamesOf(Inputs(f)) : x = NamesOf(Inputs(f))[i]
      BY <2>1, <2>2 DEF Range
    <3>2. x = Inputs(f)[i].name /\ Inputs(f)[i] \in Range(Inputs(f))
      BY <3>1 DEF NamesOf, Range
    <3> QED BY <1>1, <3>2 DEF Names
  <2> QED BY <2>2
<1>3. CASE c.op = "receive"
  <2>1. PICK q \in Range(Shareds(f)) : c.of = <<q.name>>
    BY <1>3, ItemFacts, OpsFacts
  <2>2. \A x \in Range(<<q.name>>) : x = q.name
    BY DEF Range
  <2> QED BY <1>1, <2>1, <2>2 DEF Names
<1> QED BY <1>2, <1>3 DEF Crossing

\* What crosses does so in the scope of the body.
LEMMA CrossKeeps ==
    ASSUME NEW f \in Functions, PositionOk(f), NEW s, NEW ss, Underway(f, s, ss),
           s # << >>, s[1].op \in Crossing
    PROVE  /\ Len(ss) = 2 /\ NoPre(Tail(s))
           /\ Underway(f, Tail(s), [ss EXCEPT ![1] = @ \cup {Ready(x) : x \in Range(s[1].of)}])
<1> DEFINE D == {Ready(x) : x \in Range(s[1].of)}
           tt == [ss EXCEPT ![1] = @ \cup D]
<1>1. /\ s \in Seq(Item(f)) /\ Tail(s) \in Seq(Item(f)) /\ InOrder(f, Tail(s)) /\ NoPre(Tail(s))
      /\ 1 \in DOMAIN s /\ s[1] \in Item(f) /\ DOMAIN s = 1..Len(s)
      /\ \A i \in DOMAIN s : i # 1 => i - 1 \in DOMAIN Tail(s) /\ Tail(s)[i - 1] = s[i]
  BY HeadFacts, LenProperties DEF NoPre
<1>2. /\ ss \in Seq(SUBSET Known(f)) /\ Len(ss) \in Nat /\ Len(ss) >= 2 /\ Closes(s, Len(ss) - 2)
      /\ DOMAIN ss = 1..Len(ss)
  BY LenProperties DEF Underway, Scoped
<1>3. Len(ss) = 2
  <2>1. ASSUME NEW i \in DOMAIN s PROVE s[i].op # "close"
    <3>1. CASE i = 1
      BY <3>1 DEF Crossing
    <3>2. CASE i # 1
      <4>1. 1 < i
        BY <1>1, <3>2
      <4> QED BY <1>1, <4>1 DEF Underway, InOrder
    <3> QED BY <3>1, <3>2
  <2>2. Closes(s, 0)
    BY <1>1, <2>1, ClosersNone
  <2> QED BY <1>2, <2>2 DEF Closes
<1>4. D \subseteq Readied(f)
  BY <1>1, CrossingFacts DEF Readied
<1>5. Underway(f, s, tt)
  <2> HIDE DEF D
  <2> QED BY <1>3, <1>4, DeclareKeeps
<1>6. Len(tt) = 2 /\ D \subseteq tt[1]
  <2> HIDE DEF D
  <2> QED BY <1>2, <1>3
<1> HIDE DEF tt
<1>7. Scoped(f, s, tt) /\ Crossed(f, s, tt)
  BY <1>5 DEF Underway
<1>8. Closes(Tail(s), Len(tt) - 2)
  <2>1. Closes(s, 0) /\ s[1].op # "close"
    BY <1>6, <1>7 DEF Scoped, Crossing
  <2>2. Closes(Tail(s), 0)
    BY <1>1, <2>1, ClosersTail
  <2> QED BY <1>6, <2>2
<1>9. Scoped(f, Tail(s), tt)
  BY <1>7, <1>8 DEF Scoped
<1>10. Crossed(f, Tail(s), tt)
  <2> SUFFICES ASSUME NEW x \in Names(Managed(f)), Awaited(s, x)
               PROVE  Awaited(Tail(s), x) \/ Ready(x) \in tt[Len(tt) - 1]
    BY <1>7 DEF Crossed
  <2>1. PICK i \in DOMAIN s : s[i].op \in Crossing /\ x \in Range(s[i].of)
    BY DEF Awaited
  <2>2. CASE i = 1
    BY <1>6, <2>1, <2>2
  <2>3. CASE i # 1
    BY <1>1, <2>1, <2>3 DEF Awaited
  <2> QED BY <2>2, <2>3
<1> QED BY <1>1, <1>3, <1>9, <1>10 DEF Underway, tt

LEMMA AppendFacts ==
    ASSUME NEW cs, NEW c, \E S : cs \in Seq(S)
    PROVE  /\ \E S : Append(cs, c) \in Seq(S)
           /\ DOMAIN Append(cs, c) = DOMAIN cs \cup {Len(cs) + 1} /\ Len(cs) + 1 \notin DOMAIN cs
           /\ Append(cs, c)[Len(cs) + 1] = c /\ \A i \in DOMAIN cs : Append(cs, c)[i] = cs[i]
<1>1. PICK S : cs \in Seq(S)
  OBVIOUS
<1>2. cs \in Seq(S \cup {c}) /\ c \in S \cup {c}
  BY <1>1
<1>3. /\ Append(cs, c) \in Seq(S \cup {c}) /\ Len(Append(cs, c)) = Len(cs) + 1 /\ Len(cs) \in Nat
      /\ \A i \in 1..Len(cs) : Append(cs, c)[i] = cs[i]
      /\ Append(cs, c)[Len(cs) + 1] = c
  BY <1>2, AppendProperties, LenProperties
<1>4. DOMAIN cs = 1..Len(cs) /\ DOMAIN Append(cs, c) = 1..Len(cs) + 1
  BY <1>2, <1>3, LenProperties
<1> QED BY <1>3, <1>4

LEMMA ShapeUnderway ==
    ASSUME Shape, rest # << >>, rest[1].op # "enter"
    PROVE  fn \in Functions /\ PositionOk(fn) /\ Underway(fn, rest, scopes)
<1>1. fn \in Functions /\ PositionOk(fn)
  BY DEF Shape, Accepted
<1>2. ~AtDoor(fn, rest, scopes)
  <2> DEFINE c == Gen("enter", << >>, "")
  <2>1. c.op = "enter"
    BY DEF Gen
  <2> HIDE DEF c
  <2>2. <<c>>[1] = c
    OBVIOUS
  <2>3. AtDoor(fn, rest, scopes) => rest = <<c>>
    BY DEF AtDoor, c
  <2> QED BY <2>1, <2>2, <2>3
<1> QED BY <1>1, <1>2 DEF Shape

LEMMA StepShape == Shape /\ [Next]_vars => Shape'
<1> SUFFICES ASSUME Shape, [Next]_vars PROVE Shape'
  OBVIOUS
<1> USE DEF Silent, Uncrossed, Running, Now
<1>1. fn \in Functions /\ Accepted(fn) /\ \E S : calls \in Seq(S)
  BY DEF Shape
<1>2. ASSUME fn' = fn, Underway(fn, rest', scopes'), NoPre(rest'), \E S : calls' \in Seq(S),
             ended' # "returned" => NoShare(calls')
      PROVE  Shape'
  <2>1. rest' # << >> => rest'[1].op # "pre"
    <3>1. rest' \in Seq(Item(fn))
      BY <1>2 DEF Underway
    <3>2. rest' # << >> => 1 \in DOMAIN rest'
      BY <3>1, EmptySeq, LenProperties
    <3> QED BY <1>2, <3>2 DEF NoPre
  <2> QED BY <1>1, <1>2, <2>1 DEF Shape
<1>3. ASSUME rest # << >>, rest[1].op \in Ops
      PROVE  /\ fn \in Functions /\ PositionOk(fn) /\ Underway(fn, rest, scopes)
             /\ Underway(fn, Tail(rest), scopes) /\ NoPre(Tail(rest))
  <2>1. fn \in Functions /\ PositionOk(fn) /\ Underway(fn, rest, scopes)
    BY <1>3, ShapeUnderway, OpsFacts
  <2> QED BY <1>3, <2>1, DropKeeps, HeadFacts DEF NoPre
<1>4. ended = "no" => NoShare(calls)
  BY DEF Shape
<1>5. CASE Enter
  BY <1>5, EnterKeeps
<1>6. CASE Open
  <2>1. rest # << >> /\ rest[1].op \in {"block", "pre"} /\ ended = "no"
    BY <1>6 DEF Open
  <2>2. rest[1].op \in Ops
    BY <2>1 DEF Ops
  <2>3. Underway(fn, rest', scopes') /\ NoPre(rest')
    BY <1>3, <1>6, <2>1, <2>2, OpenKeeps DEF Open
  <2> QED BY <1>1, <1>2, <1>4, <1>6, <2>1, <2>3 DEF Open
<1>7. CASE Close
  <2>1. rest # << >> /\ rest[1].op = "close" /\ ended = "no"
    BY <1>7 DEF Close
  <2>2. Underway(fn, rest', scopes') /\ NoPre(rest')
    BY <1>7, <2>1, ShapeUnderway, CloseKeeps DEF Close
  <2> QED BY <1>1, <1>2, <1>4, <1>7, <2>1, <2>2 DEF Close
<1>8. CASE Declare
  <2>1. rest # << >> /\ rest[1].op = "declare" /\ ended = "no"
    BY <1>8 DEF Declare
  <2>2. rest[1].op \in Ops
    BY <2>1 DEF Ops
  <2>3. /\ Underway(fn, rest, scopes) /\ Underway(fn, Tail(rest), scopes) /\ NoPre(Tail(rest))
        /\ PositionOk(fn)
    BY <1>3, <2>1, <2>2
  <2>4. Local(rest[1].v) \in Locals(fn)
    <3>1. rest[1] \in Inside(fn.body)
      BY <1>1, <2>1, <2>2, <2>3, HeadFacts
    <3> QED BY <2>1, <3>1 DEF Locals, DeclaredIn
  <2>5. Underway(fn, Tail(rest), [scopes EXCEPT ![1] = @ \cup {Local(rest[1].v)}])
    BY <1>1, <2>3, <2>4, DeclareKeeps
  <2>6. Underway(fn, rest', scopes') /\ NoPre(rest')
    BY <1>8, <2>3, <2>5 DEF Declare, Declaring, Local
  <2> QED BY <1>1, <1>2, <1>4, <1>8, <2>1, <2>6 DEF Declare
<1>9. CASE Evaluate
  <2>1. /\ rest # << >> /\ ended = "no" /\ fn' = fn /\ rest' = Tail(rest) /\ scopes' = scopes
        /\ calls' = calls /\ rest[1].op \in {"expr", "emit", "asm", "try", "revert"}
    BY <1>9 DEF Evaluate
  <2>2. rest[1].op \in Ops
    BY <2>1 DEF Ops
  <2> QED BY <1>1, <1>2, <1>3, <1>4, <2>1, <2>2
<1>10. CASE Refuse
  <2>1. ended = "no" /\ UNCHANGED <<fn, rest, scopes, calls>>
    BY <1>10 DEF Refuse
  <2> QED BY <1>1, <1>4, <1>10, <2>1, ShapeUnderway DEF Refuse, Shape
<1>11. CASE Branch
  <2>1. /\ rest # << >> /\ rest[1].op \in {"if", "loop"} /\ ended = "no"
        /\ fn' = fn /\ scopes' = scopes /\ calls' = calls /\ ended' = ended
    BY <1>11 DEF Branch
  <2>2. rest[1].op \in Ops
    BY <2>1 DEF Ops
  <2>3. /\ Underway(fn, rest, scopes) /\ Underway(fn, Tail(rest), scopes) /\ NoPre(Tail(rest))
        /\ PositionOk(fn)
    BY <1>3, <2>1, <2>2
  <2>4. NoPre(rest)
    <3>1. \A i \in DOMAIN rest : i # 1 => rest[i].op # "pre"
      BY <1>1, <2>1, <2>3, HeadFacts
    <3> QED BY <2>1, <3>1 DEF NoPre
  <2>5. Underway(fn, rest', scopes) /\ NoPre(rest')
    <3>1. CASE rest' = Tail(rest)
      BY <2>3, <3>1
    <3>2. ASSUME NEW i \in 2..Len(rest[1].kids), NEW t \in {rest, Tail(rest)},
                 rest' = <<rest[1].kids[i]>> \o t
          PROVE  Underway(fn, rest', scopes) /\ NoPre(rest')
      <4> DEFINE k == rest[1].kids[i]
                 ks == <<k>>
      <4>1. Underway(fn, t, scopes) /\ NoPre(t)
        BY <2>3, <2>4
      <4>2. /\ rest[1] \in Inside(fn.body)
            /\ \A j \in DOMAIN rest[1].kids :
                  /\ rest[1].kids[j] \in Inside(fn.body) /\ rest[1].kids[j].op # "pre"
                  /\ rest[1].kids[j].op \in Ops
            /\ (\E j \in DOMAIN rest : rest[j].op \in Crossing) =>
                  \A j \in DOMAIN rest[1].kids : rest[1].kids[j] \in GuardOf(fn)
            /\ \A j \in DOMAIN Tail(rest) : j + 1 \in DOMAIN rest /\ Tail(rest)[j] = rest[j + 1]
        BY <1>1, <2>1, <2>2, <2>3, HeadFacts
      <4>3. i \in DOMAIN rest[1].kids
        <5>1. rest[1].kids \in Seq(Inside(fn.body))
          BY <1>1, <4>2, BodyFacts
        <5> QED BY <5>1, LenProperties
      <4>4. k \in Inside(fn.body) /\ k.op \notin Crossing \cup {"pre", "close"}
        BY <4>2, <4>3, OpsFacts DEF Crossing
      <4>5. (\E j \in DOMAIN t : t[j].op \in Crossing) => k \in Guarded(fn)
        BY <4>2, <4>3 DEF Guarded
      <4> HIDE DEF k
      <4>6. ks \in Seq(Inside(fn.body)) /\ DOMAIN ks = {1} /\ ks[1] = k
        BY <4>4
      <4> HIDE DEF ks
      <4>7. Underway(fn, ks \o t, scopes) /\ NoPre(ks \o t)
        BY <1>1, <4>1, <4>4, <4>5, <4>6, PushKeeps
      <4> QED BY <3>2, <4>7 DEF ks, k
    <3>3. \/ rest' = Tail(rest)
          \/ \E i \in 2..Len(rest[1].kids) : \E t \in {rest, Tail(rest)} : rest' = <<rest[1].kids[i]>> \o t
      BY <1>11 DEF Branch
    <3> QED BY <3>1, <3>2, <3>3
  <2> QED BY <1>1, <1>2, <1>4, <2>1, <2>5
<1>12. ASSUME rest # << >>, rest[1].op \in Crossing, ended = "no", fn' = fn, rest' = Tail(rest),
              scopes' = [scopes EXCEPT ![1] = @ \cup {Ready(x) : x \in Range(rest[1].of)}],
              NEW c, calls' = Append(calls, c), c.op \in Crossing
       PROVE  Shape'
  <2>1. fn \in Functions /\ PositionOk(fn) /\ Underway(fn, rest, scopes)
    BY <1>12, ShapeUnderway DEF Crossing
  <2>2. Underway(fn, rest', scopes') /\ NoPre(rest')
    BY <1>12, <2>1, CrossKeeps
  <2>3. (\E S : calls' \in Seq(S)) /\ NoShare(calls')
    <3>1. /\ \E S : Append(calls, c) \in Seq(S)
          /\ DOMAIN Append(calls, c) = DOMAIN calls \cup {Len(calls) + 1}
          /\ Append(calls, c)[Len(calls) + 1] = c
          /\ \A i \in DOMAIN calls : Append(calls, c)[i] = calls[i]
      BY <1>1, AppendFacts
    <3> QED BY <1>4, <1>12, <3>1 DEF NoShare, Crossing
  <2> QED BY <1>2, <1>12, <2>2, <2>3
<1>13. CASE Verify
  <2>1. /\ rest # << >> /\ rest[1].op = "verify" /\ ended = "no" /\ fn' = fn /\ rest' = Tail(rest)
        /\ scopes' = [scopes EXCEPT ![1] = @ \cup {Ready(x) : x \in Range(rest[1].of)}]
        /\ calls' = Append(calls, [op |-> "verify", of |-> rest[1].of])
    BY <1>13 DEF Verify, Ready
  <2> QED BY <1>12, <2>1 DEF Crossing
<1>14. CASE Receive
  <2>1. /\ rest # << >> /\ rest[1].op = "receive" /\ ended = "no" /\ fn' = fn /\ rest' = Tail(rest)
        /\ scopes' = [scopes EXCEPT ![1] = @ \cup {Ready(rest[1].of[1])}]
        /\ calls' = Append(calls, [op |-> "receive", of |-> rest[1].of])
    BY <1>14 DEF Receive, Declaring, Ready
  <2>2. {Ready(rest[1].of[1])} = {Ready(x) : x \in Range(rest[1].of)}
    <3>1. fn \in Functions /\ PositionOk(fn) /\ Underway(fn, rest, scopes)
      BY <2>1, ShapeUnderway
    <3>2. rest[1] \in Item(fn)
      BY <2>1, <3>1, HeadFacts
    <3>3. PICK q : rest[1].of = <<q.name>>
      BY <2>1, <3>1, <3>2, ItemFacts, OpsFacts
    <3>4. Range(rest[1].of) = {rest[1].of[1]}
      BY <3>3 DEF Range
    <3> QED BY <3>4
  <2> QED BY <1>12, <2>1, <2>2 DEF Crossing
<1>15. CASE Return
  <2>1. /\ rest # << >> /\ rest[1].op = "return" /\ ended' = "returned" /\ ended = "no"
        /\ UNCHANGED <<fn, rest, scopes>>
        /\ calls' = calls \/ \E c : calls' = Append(calls, c)
    BY <1>15 DEF Return
  <2>2. \E S : calls' \in Seq(S)
    <3>1. ASSUME NEW c, calls' = Append(calls, c) PROVE \E S : calls' \in Seq(S)
      <4>1. \E S : Append(calls, c) \in Seq(S)
        BY <1>1, AppendFacts
      <4> QED BY <3>1, <4>1
    <3>2. CASE calls' = calls
      BY <1>1, <3>2
    <3> QED BY <2>1, <3>1, <3>2
  <2>3. Underway(fn, rest, scopes)
    BY <2>1, ShapeUnderway
  <2> QED BY <1>1, <2>1, <2>2, <2>3 DEF Shape
<1>16. CASE Fall
  <2>1. /\ UNCHANGED <<fn, rest, scopes, calls>> /\ ended = "no" /\ rest = << >>
    BY <1>16 DEF Fall
  <2>2. Underway(fn, rest, scopes)
    <3>1. ~AtDoor(fn, rest, scopes)
      BY <2>1 DEF AtDoor
    <3> QED BY <3>1 DEF Shape
  <2> QED BY <1>1, <1>4, <2>1, <2>2 DEF Shape
<1>17. CASE UNCHANGED vars
  BY <1>17 DEF vars, Shape
<1> QED BY <1>5, <1>6, <1>7, <1>8, <1>9, <1>10, <1>11, <1>13, <1>14, <1>15, <1>16, <1>17 DEF Next, Over

-----------------------------------------------------------------------------
(* SharedOnce.                                                             *)

LEMMA MeansOuter ==
    ASSUME NEW x, NEW side, NEW ss, \A i \in DOMAIN ss : \A d \in ss[i] : d.name # x
    PROVE  Means(x, side, ss) = <<"outer", x>>
<1>1. {i \in DOMAIN ss : {d \in ss[i] : d.name = x /\ d.by \in {side, "both"}} # {}} = {}
  OBVIOUS
<1> QED BY <1>1 DEF Means

\* resolves_to_msg_sender and body_shadows_msg leave msg to the caller.
LEMMA NothingCalledMsg ==
    ASSUME NEW f \in Functions, MeansCaller(f), ~ShadowsMsg(f),
           NEW s, NEW ss, Underway(f, s, ss)
    PROVE  Means("msg", "emitted", ss) = <<"outer", "msg">>
<1>1. \A p \in Params(f) : p.name # "msg"
  BY DEF MeansCaller, Names
<1>2. \A d \in Locals(f) : d.name # "msg"
  BY DEF Locals, Local, Entry, ShadowsMsg
<1>3. \A d \in Readied(f) : d.name # "msg"
  <2>1. Managed(f) \subseteq Params(f)
    BY DEF Managed
  <2> QED BY <1>1, <2>1 DEF Readied, Ready, Entry, Names
<1>4. \A d \in Header(f) : d.name # "msg"
  <2>1. \A p \in Params(f) : InputName(p.name) # "msg" /\ WireName(p.name) # "msg"
    BY NameAssumption
  <2>2. \A p \in Params(f) :
           \A d \in (IF p.form = "plain" THEN {Entry(p.name, <<"param", p.name>>, "both")}
                     ELSE {Entry(p.name, <<"param", p.name>>, "source"),
                           Entry(IF p.form = "in" THEN InputName(p.name) ELSE WireName(p.name),
                                 <<"wire", p.name>>, "emitted")}) : d.name # "msg"
    <3> HIDE DEF InputName, WireName
    <3> QED BY <1>1, <2>1 DEF Entry
  <2>3. Entry("inputProof", <<"param", "inputProof">>, "emitted").name # "msg"
    BY DEF Entry
  <2> DEFINE E(p) == IF p.form = "plain" THEN {Entry(p.name, <<"param", p.name>>, "both")}
                     ELSE {Entry(p.name, <<"param", p.name>>, "source"),
                           Entry(IF p.form = "in" THEN InputName(p.name) ELSE WireName(p.name),
                                 <<"wire", p.name>>, "emitted")}
             L == IF Appends(f) THEN {Entry("inputProof", <<"param", "inputProof">>, "emitted")} ELSE {}
             Es == {E(p) : p \in Params(f)}
  <2>4. Header(f) = (UNION Es) \cup L
    BY DEF Header
  <2>5. \A p \in Params(f) : \A d \in E(p) : d.name # "msg"
    BY <2>2
  <2>6. \A d \in L : d.name # "msg"
    BY <2>3
  <2> HIDE DEF E, L
  <2>7. \A X \in Es : \A d \in X : d.name # "msg"
    BY <2>5
  <2> HIDE DEF Es
  <2>8. \A d \in UNION Es : d.name # "msg"
    BY <2>7
  <2> QED BY <2>4, <2>6, <2>8
<1>5. \A d \in Known(f) : d.name # "msg"
  BY <1>2, <1>3, <1>4 DEF Known
<1>6. \A i \in DOMAIN ss : ss[i] \subseteq Known(f)
  <2>1. ss \in Seq(SUBSET Known(f))
    BY DEF Underway, Scoped
  <2>2. \A i \in DOMAIN ss : ss[i] \in SUBSET Known(f)
    BY <2>1, ElementOfSeq, LenProperties
  <2> QED BY <2>2
<1> QED BY <1>5, <1>6, MeansOuter

\* rewrite_site_in, r2_owned_stmts: what is returned is lowered.
LEMMA ReturnedIsRendered ==
    ASSUME NEW f \in Functions, NEW n \in Inside(f.body), n.op = "return",
           n.kids # << >>, Rendered(n.kids[1])
    PROVE  ~(Owned(n) /\ HasSite(n))
<1>1. n \in Nodes /\ n.kids \in Seq(Nodes) /\ Len(n.kids) <= 1
  BY BodyFacts, NodeAssumption
<1>2. DOMAIN n.kids = {1} /\ n.kids[1] \in Nodes
  <2>1. Len(n.kids) \in Nat /\ Len(n.kids) # 0
    BY <1>1, EmptySeq, LenProperties
  <2> DEFINE l == Len(n.kids)
  <2>0. l <= 1 /\ l \in Nat /\ l # 0
    BY <1>1, <2>1
  <2> HIDE DEF l
  <2>2. l = 1
    BY <2>0
  <2> QED BY <1>1, <2>2, LenProperties, ElementOfSeq DEF l
<1> DEFINE e == n.kids[1]
           C == {n} \cup Within(e)
<1>3. e \in Within(e) /\ \A m \in Within(e) : Range(m.kids) \subseteq Within(e)
  BY <1>2, WithinFacts
<1>4. Range(n.kids) \subseteq Within(e)
  BY <1>2, <1>3 DEF Range
<1>5. \A m \in C : Range(m.kids) \subseteq C
  BY <1>3, <1>4
<1>6. Within(n) \subseteq C
  <2> HIDE DEF C
  <2>1. n \in C
    BY DEF C
  <2> QED BY <1>1, <1>5, <2>1, ReachFacts DEF Within
<1>7. Owned(n) => Owned(e)
  BY <1>6 DEF Owned
<1>8. HasSite(n) => HasSite(e)
  BY <1>6 DEF HasSite
<1> QED BY <1>7, <1>8 DEF Rendered

LEMMA InitSharedOnce == Init => SharedOnce
<1> SUFFICES ASSUME Init PROVE SharedOnce
  OBVIOUS
<1>1. calls = << >> /\ ended = "no"
  BY DEF Init
<1>2. DOMAIN calls = {}
  BY <1>1
<1> QED BY <1>1, <1>2 DEF SharedOnce

LEMMA StepSharedOnce == Shape /\ Shape' /\ SharedOnce /\ [Next]_vars => SharedOnce'
<1> SUFFICES ASSUME Shape, Shape', SharedOnce, [Next]_vars PROVE SharedOnce'
  OBVIOUS
<1>1. ASSUME ended' # "returned" PROVE SharedOnce'
  <2>1. NoShare(calls')
    BY <1>1 DEF Shape
  <2>2. {i \in DOMAIN calls' : calls'[i].op = "share"} = {}
    BY <2>1 DEF NoShare
  <2> QED BY <1>1, <2>2 DEF SharedOnce
<1>2. CASE Return
  <2>1. /\ rest # << >> /\ rest[1].op = "return" /\ ended = "no" /\ fn' = fn /\ ended' = "returned"
        /\ calls' = IF rest[1] \in Wrapped(fn)
                    THEN Append(calls, [op |-> "share", of |-> Means("msg", "emitted", scopes),
                                        lowered |-> ~(Owned(rest[1]) /\ HasSite(rest[1]))])
                    ELSE calls
    BY <1>2 DEF Return, Running, Now
  <2>2. NoShare(calls) /\ (\E S : calls \in Seq(S)) /\ fn \in Functions /\ Accepted(fn)
    BY <2>1 DEF Shape
  <2>3. Underway(fn, rest, scopes) /\ PositionOk(fn)
    BY <2>1, ShapeUnderway
  <2>4. CASE ~SharesReturn(fn)
    <3>1. calls' = calls
      BY <2>1, <2>4 DEF Wrapped
    <3>2. {i \in DOMAIN calls : calls[i].op = "share"} = {}
      BY <2>2 DEF NoShare
    <3> QED BY <2>1, <2>4, <3>1, <3>2 DEF SharedOnce
  <2>5. CASE SharesReturn(fn)
    <3> DEFINE c == [op |-> "share", of |-> Means("msg", "emitted", scopes),
                     lowered |-> ~(Owned(rest[1]) /\ HasSite(rest[1]))]
               well == [op |-> "share", of |-> <<"outer", "msg">>, lowered |-> TRUE]
    <3>1. rest[1].op \in Ops
      BY <2>1 DEF Ops
    <3>2. rest[1] \in Inside(fn.body)
      BY <2>1, <2>2, <2>3, <3>1, HeadFacts
    <3>3. rest[1] \in ReturnsIn(fn.body)
      BY <2>1, <3>2 DEF ReturnsIn
    <3>4. MeansCaller(fn) /\ ~ShadowsMsg(fn) /\ rest[1].kids # << >> /\ Rendered(rest[1].kids[1])
      BY <2>2, <2>5, <3>3 DEF Accepted, SharedReturnOk
    <3>5. Means("msg", "emitted", scopes) = <<"outer", "msg">>
      BY <2>2, <2>3, <3>4, NothingCalledMsg
    <3>6. ~(Owned(rest[1]) /\ HasSite(rest[1]))
      BY <2>1, <2>2, <3>2, <3>4, ReturnedIsRendered
    <3>7. c = well
      <4>1. (~(Owned(rest[1]) /\ HasSite(rest[1]))) = TRUE
        BY <3>6
      <4> QED BY <3>5, <4>1
    <3>8. calls' = Append(calls, c)
      BY <2>1, <2>5, <3>3 DEF Wrapped
    <3> HIDE DEF c
    <3>9. /\ DOMAIN calls' = DOMAIN calls \cup {Len(calls) + 1} /\ Len(calls) + 1 \notin DOMAIN calls
          /\ calls'[Len(calls) + 1] = well /\ \A i \in DOMAIN calls : calls'[i] = calls[i]
      BY <2>2, <3>7, <3>8, AppendFacts
    <3>10. {i \in DOMAIN calls' : calls'[i].op = "share"} = {Len(calls) + 1}
      BY <2>2, <3>9 DEF NoShare
    <3>11. "msg" \notin fn'.members
      BY <2>1, <3>4 DEF MeansCaller
    <3> QED BY <2>1, <2>5, <3>9, <3>10, <3>11 DEF SharedOnce
  <2> QED BY <2>4, <2>5
<1>3. CASE ended' = ended /\ calls' = calls /\ fn' = fn
  BY <1>3 DEF SharedOnce
<1>4. CASE Over \/ UNCHANGED vars
  BY <1>3, <1>4 DEF Over, vars
<1>5. CASE Enter \/ Open \/ Close \/ Branch \/ Declare
  BY <1>3, <1>5 DEF Enter, Open, Close, Branch, Declare, Uncrossed
<1>6. CASE Evaluate \/ Refuse \/ Verify \/ Receive \/ Fall
  <2>1. ended' # "returned"
    BY <1>6 DEF Evaluate, Refuse, Verify, Receive, Fall, Running
  <2> QED BY <1>1, <2>1
<1> QED BY <1>2, <1>4, <1>5, <1>6 DEF Next

\* What a function with a shared result returns is lowered and shared once,
\* with its caller, for every function the checks accept: neither a shadowed
\* msg nor a return nested in the body escapes shared.rs.
THEOREM ReturnsAreShared == Spec => []SharedOnce
<1>1. Init => Shape /\ SharedOnce
  BY InitShape, InitSharedOnce
<1>2. Shape /\ SharedOnce /\ [Next]_vars => (Shape /\ SharedOnce)'
  BY StepShape, StepSharedOnce
<1> QED BY <1>1, <1>2, PTL DEF Spec

-----------------------------------------------------------------------------
(* GuardHarmless.                                                          *)

\* What solc may choose for a call of the guard is what the binder answers: no
\* overload of a base joins the contract's own, and none hides a builtin.
\* The checks do not see to it: GuardHarmless fails when a guard calls over of
\* MCCallees.
Answered(f, x) ==
    /\ Of(x, "own") # {} => Of(x, "based") = {} /\ (f.opaque => Of(x, "unseen") = {})
    /\ f.opaque /\ Of(x, "builtin") # {} => Callees[x] = Of(x, "builtin")
NoHiddenOverload ==
    \A f \in Functions : \A n \in GuardOf(f) : n.op = "call" => Answered(f, n.v)

LEMMA ChoosableIsResolved ==
    ASSUME NEW x \in DOMAIN Callees, Answered(fn, x), Resolved(fn, x) # {}
    PROVE  Choosable(x) \subseteq Resolved(fn, x)
<1>1. \A c \in Callees[x] : c.of \in {"own", "based", "unseen", "file", "builtin"}
  BY CalleeAssumption DEF Function
<1>2. CASE Of(x, "own") # {}
  <2>1. Resolved(fn, x) = Of(x, "own")
    BY <1>2 DEF Resolved
  <2>2. ASSUME NEW c \in Choosable(x) PROVE c \in Of(x, "own")
    <3>1. c \in Callees[x] /\ (c.of \in {"own", "based"} \/ (c.of = "unseen" /\ fn.opaque))
      BY <1>2, <2>2 DEF Choosable, Of
    <3> QED BY <1>2, <3>1 DEF Answered, Of
  <2> QED BY <2>1, <2>2
<1>3. CASE Of(x, "own") = {} /\ fn.opaque
  <2>1. Resolved(fn, x) = Of(x, "builtin")
    BY <1>3 DEF Resolved
  <2>2. Callees[x] = Of(x, "builtin")
    BY <1>3, <2>1 DEF Answered
  <2>3. Choosable(x) \subseteq Callees[x]
    BY DEF Choosable
  <2> QED BY <2>1, <2>2, <2>3
<1>4. CASE Of(x, "own") = {} /\ Of(x, "based") # {} /\ ~fn.opaque
  <2>1. Resolved(fn, x) = Of(x, "based")
    BY <1>4 DEF Resolved
  <2>2. ASSUME NEW c \in Choosable(x) PROVE c \in Of(x, "based")
    <3>1. c \in Callees[x] /\ c.of \in {"own", "based"}
      BY <1>4, <2>2 DEF Choosable, Of
    <3> QED BY <1>4, <3>1 DEF Of
  <2> QED BY <2>1, <2>2
<1>5. CASE Of(x, "own") = {} /\ Of(x, "based") = {} /\ ~fn.opaque
  <2>1. Resolved(fn, x) = Of(x, "file") \cup Of(x, "builtin")
    BY <1>5 DEF Resolved
  <2>2. ASSUME NEW c \in Choosable(x) PROVE c \in Of(x, "file") \cup Of(x, "builtin")
    <3>1. c \in Callees[x] /\ c.of # "own" /\ c.of # "based"
      BY <1>5, <2>2 DEF Choosable, Of
    <3>2. c.of # "unseen"
      BY <1>5, <2>2, <3>1 DEF Choosable, Of
    <3> QED BY <1>1, <3>1, <3>2 DEF Of
  <2> QED BY <2>1, <2>2
<1> QED BY <1>2, <1>3, <1>4, <1>5

\* check_precondition_block: what the whitelist lets through has no effect, if
\* the variables of the block are what its names mean.
LEMMA GuardEffects ==
    ASSUME NoHiddenOverload, fn \in Functions, Harmless(fn), NEW e \in GuardOf(fn),
           \A x \in Read(e) : x \in DeclaredIn(GuardOf(fn)) => Own(x)
    PROVE  Effects(e) = {}
<1>1. /\ Within(e) \subseteq GuardOf(fn) /\ GuardOf(fn) \subseteq Nodes
      /\ \A n \in GuardOf(fn) : n \in Inside(fn.body) /\ Within(n) \subseteq GuardOf(fn)
  BY BodyFacts
<1>2. \A n \in GuardOf(fn) : Plain(fn, n)
  BY DEF Harmless
<1>3. \A n \in GuardOf(fn) : n.op = "name" => Vars[n.v].nest = "plain"
  BY <1>2 DEF Plain, Free, MayCall, Readable
<1>4. ASSUME NEW n \in GuardOf(fn), n.op = "call"
      PROVE  \A c \in Choosable(n.v) : ~c.changes /\ ~c.memory /\ c.returns = "plain"
  <2>1. Callable(fn, n.v)
    BY <1>2, <1>4 DEF Plain, Free, MayCall
  <2>2. n.v \in DOMAIN Callees /\ Answered(fn, n.v)
    BY <1>1, <1>4, CalleeAssumption DEF NoHiddenOverload
  <2>3. Choosable(n.v) \subseteq Resolved(fn, n.v)
    BY <2>1, <2>2, ChoosableIsResolved DEF Callable
  <2> QED BY <2>1, <2>3 DEF Callable
<1>5. ASSUME NEW n \in Within(e) PROVE Effect(n) = {}
  <2>1. n \in GuardOf(fn) /\ n \in Nodes /\ Plain(fn, n)
    BY <1>1, <1>2
  <2>2. CASE n.op \in {"assign", "step"}
    <3> DEFINE lhs == n.kids[1]
    <3>1. Writable(fn, lhs)
      BY <2>1, <2>2 DEF Plain, Free, MayCall
    <3>2. lhs \in Range(n.kids) /\ lhs \in Nodes
      <4>1. n.kids \in Seq(Nodes) /\ n.kids # << >>
        BY <2>1, <2>2, NodeAssumption
      <4>2. 1 \in DOMAIN n.kids
        BY <4>1, EmptySeq, LenProperties
      <4> QED BY <4>1, <4>2, ElementOfSeq, LenProperties DEF Range
    <3>3. Within(lhs) \subseteq Within(e)
      <4>1. e \in Nodes
        BY <1>1
      <4>2. lhs \in Within(e)
        BY <3>2, <4>1, WithinFacts
      <4> QED BY <4>1, <4>2, WithinFacts
    <3> HIDE DEF lhs
    <3>4. ASSUME NEW t \in Targets(lhs) PROVE t.op = "name" /\ Own(t.v)
      <4>1. t.op = "name" /\ t.v \in DeclaredIn(GuardOf(fn))
        BY <3>1 DEF Writable
      <4>2. t \in Within(e)
        BY <3>2, <3>3, WithinFacts DEF Targets
      <4> QED BY <4>1, <4>2 DEF Read
    <3>5. Written(lhs) = {}
      <4>1. {t \in Targets(lhs) : t.op = "name"} = Targets(lhs)
        BY <3>4
      <4>2. {x \in {t.v : t \in Targets(lhs)} : ~Own(x)} = {}
        BY <3>4
      <4> QED BY <4>1, <4>2 DEF Written
    <3> QED BY <2>2, <3>5 DEF Effect, lhs
  <2>3. CASE n.op = "call"
    <3>1. ~(\E c \in Choosable(n.v) : c.changes) /\ ~(\E c \in Choosable(n.v) : c.memory)
      BY <1>4, <2>1, <2>3
    <3> QED BY <2>3, <3>1 DEF Effect
  <2>4. CASE n.op = "op"
    <3>1. Within(n) \subseteq GuardOf(fn)
      BY <1>1, <2>1
    <3>2. ~MayEncrypt(n)
      BY <1>3, <1>4, <3>1 DEF MayEncrypt
    <3> QED BY <2>4, <3>2 DEF Effect
  <2>5. CASE n.op \notin {"assign", "step", "call", "op"}
    <3>1. n.op \notin {"delete", "external", "asm", "try", "emit"}
      BY <2>1, <2>5 DEF Plain, Free, MayCall
    <3> QED BY <2>5, <3>1 DEF Effect
  <2> QED BY <2>2, <2>3, <2>4, <2>5
<1> QED BY <1>5 DEF Effects

\* A name of the guard that its variables bear means one of them: it is not
\* read before, or out of the scope of, the declaration.
Evaluated == IF Now.op = "if" THEN Now.kids[1] ELSE Now
Bound ==
    Running({"declare", "expr", "revert", "if"}) /\ Pending =>
        \A x \in Read(Evaluated) : x \in DeclaredIn(GuardOf(fn)) => Own(x)

\* The one verification is of the whole list, and nothing else crosses.
Once(s) == \A i, j \in DOMAIN s : s[i].op = "verify" /\ s[j].op \in Crossing => i = j

Unharmed ==
    /\ Pending => touched = {} /\ ended \in {"no", "reverted"}
    /\ Once(rest)

LEMMA OnceAfter ==
    ASSUME NEW S, NEW ks \in Seq(S), NEW t \in Seq(S), Once(t),
           \A i \in DOMAIN ks : ks[i].op \notin Crossing
    PROVE  /\ Once(ks \o t)
           /\ \A i \in DOMAIN (ks \o t) : (ks \o t)[i].op \in Crossing => \E j \in DOMAIN t : t[j].op \in Crossing
<1> DEFINE s == ks \o t
           n == Len(ks)
<1>1. /\ s \in Seq(S) /\ Len(s) = n + Len(t) /\ n \in Nat /\ Len(t) \in Nat
      /\ \A i \in 1..n + Len(t) : s[i] = IF i <= n THEN ks[i] ELSE t[i - n]
  BY ConcatProperties, LenProperties
<1>2. DOMAIN s = 1..Len(s) /\ DOMAIN t = 1..Len(t) /\ DOMAIN ks = 1..n
  BY <1>1, LenProperties
<1> HIDE DEF s, n
<1>3. ASSUME NEW i \in DOMAIN s, s[i].op \in Crossing
      PROVE  i - n \in DOMAIN t /\ t[i - n] = s[i] /\ i \in Nat
  <2>1. ~(i <= n)
    <3>1. i <= n => i \in DOMAIN ks /\ s[i] = ks[i]
      BY <1>1, <1>2
    <3> QED BY <1>3, <3>1
  <2> QED BY <1>1, <1>2, <2>1
<1>4. ASSUME NEW i \in DOMAIN s, NEW j \in DOMAIN s, s[i].op = "verify", s[j].op \in Crossing
      PROVE  i = j
  <2>1. s[i].op \in Crossing
    BY <1>4 DEF Crossing
  <2>2. i - n = j - n
    BY <1>3, <1>4, <2>1 DEF Once
  <2> QED BY <1>1, <1>3, <1>4, <2>1, <2>2
<1>5. Once(s)
  BY <1>4 DEF Once
<1>6. \A i \in DOMAIN s : s[i].op \in Crossing => \E j \in DOMAIN t : t[j].op \in Crossing
  BY <1>3
<1> QED BY <1>5, <1>6 DEF s

LEMMA OnceTail ==
    ASSUME NEW S, NEW s \in Seq(S), s # << >>, Once(s)
    PROVE  /\ Once(Tail(s)) /\ Tail(s) \in Seq(S)
           /\ (\E j \in DOMAIN Tail(s) : Tail(s)[j].op \in Crossing) =>
                 s[1].op # "verify" /\ \E j \in DOMAIN s : s[j].op \in Crossing
<1> DEFINE t == Tail(s)
<1>1. /\ t \in Seq(S) /\ Len(t) = Len(s) - 1 /\ Len(s) \in Nat \ {0}
      /\ \A i \in 1..Len(t) : t[i] = s[i + 1]
  BY HeadTailProperties, EmptySeq
<1>2. DOMAIN t = 1..Len(t) /\ DOMAIN s = 1..Len(s)
  BY <1>1, LenProperties
<1> HIDE DEF t
<1>3. \A i \in DOMAIN t : i + 1 \in DOMAIN s /\ t[i] = s[i + 1] /\ i \in Nat \ {0}
  BY <1>1, <1>2
<1>4. Once(t)
  <2> SUFFICES ASSUME NEW i \in DOMAIN t, NEW j \in DOMAIN t, t[i].op = "verify", t[j].op \in Crossing
               PROVE  i = j
    BY DEF Once
  <2>1. i + 1 = j + 1
    BY <1>3 DEF Once
  <2> QED BY <1>3, <2>1
<1>5. ASSUME NEW j \in DOMAIN t, t[j].op \in Crossing
      PROVE  s[1].op # "verify" /\ \E k \in DOMAIN s : s[k].op \in Crossing
  <2>1. j + 1 \in DOMAIN s /\ s[j + 1].op \in Crossing /\ j + 1 # 1
    BY <1>3, <1>5
  <2>2. 1 \in DOMAIN s
    BY <1>1, <1>2
  <2> QED BY <2>1, <2>2 DEF Once
<1> QED BY <1>1, <1>4, <1>5 DEF t

\* proof_mode and scan_params: a list has inputs or shared handles, not both.
LEMMA OnceEmitted ==
    ASSUME NEW f \in Functions, Accepted(f)
    PROVE  Once(Emitted(f))
<1> DEFINE e == Emitted(f)
           m == MaterializeAfter(f)
           p == Prelude(f)
           n == Len(p)
<1>1. /\ m = (IF HasGuard(f) THEN 1 ELSE 0) /\ n \in Nat
      /\ e \in Seq(Inside(f.body) \cup Range(p))
      /\ \A i \in DOMAIN e :
            \/ i <= m /\ i \in DOMAIN f.body /\ e[i] = f.body[i]
            \/ m < i /\ i <= m + n /\ i - m \in DOMAIN p /\ e[i] = p[i - m]
            \/ i > m + n /\ i - n \in DOMAIN f.body /\ i - n > m /\ e[i] = f.body[i - n]
  BY EmittedFacts
<1>2. /\ p \in Seq(Range(p))
      /\ \A i \in DOMAIN p : \/ i = 1 /\ p[i] = Verifying(f) /\ Inputs(f) # << >>
                             \/ \E q \in Range(Shareds(f)) : p[i] = Receiving(q)
      /\ Inputs(f) # << >> /\ Shareds(f) = << >> => n = 1
  BY PreludeFacts
<1>3. \A i \in DOMAIN f.body : f.body[i].op \in Ops
  BY BodyFacts, ElementOfSeq, LenProperties
<1>4. Inputs(f) # << >> => Shareds(f) = << >>
  BY DEF Accepted, SharedsOk
<1>5. DOMAIN p = 1..n /\ DOMAIN e \subseteq Nat
  <2>1. DOMAIN e = 1..Len(e)
    BY <1>1, LenProperties
  <2> QED BY <1>2, <2>1, LenProperties
<1> HIDE DEF e, m, p, n
<1>6. ASSUME NEW i \in DOMAIN e, e[i].op \in Crossing
      PROVE  i - m \in DOMAIN p /\ e[i] = p[i - m]
  BY <1>1, <1>3, <1>6, OpsFacts DEF Crossing
<1>7. ASSUME NEW i \in DOMAIN e, NEW j \in DOMAIN e, e[i].op = "verify", e[j].op \in Crossing
      PROVE  i = j
  <2>1. i - m \in DOMAIN p /\ e[i] = p[i - m] /\ j - m \in DOMAIN p
    BY <1>6, <1>7 DEF Crossing
  <2>2. Inputs(f) # << >>
    <3>1. ~(\E q \in Range(Shareds(f)) : p[i - m] = Receiving(q))
      BY <1>7, <2>1, ReceivingFacts
    <3> QED BY <1>2, <2>1, <3>1
  <2>3. DOMAIN p = {1}
    BY <1>2, <1>4, <1>5, <2>2
  <2>4. i - m = 1 /\ j - m = 1 /\ m \in Nat
    BY <1>1, <2>1, <2>3
  <2> QED BY <1>5, <2>4
<1> QED BY <1>7 DEF Once, e

Evaluating == {"declare", "expr", "emit", "asm", "try", "revert", "if", "loop", "return"}

LEMMA PendingCrosses ==
    ASSUME Shape, Pending, rest # << >>, rest[1].op # "enter"
    PROVE  \E i \in DOMAIN rest : rest[i].op \in Crossing
<1>1. fn \in Functions /\ rest \in Seq(Item(fn))
  BY ShapeUnderway DEF Underway
<1>2. \A i \in DOMAIN rest : rest[i].op # "enter"
  <2>1. \A i \in DOMAIN rest : rest[i] \in Item(fn)
    BY <1>1, ElementOfSeq, LenProperties
  <2> QED BY <1>1, <2>1, ItemFacts, OpsFacts
<1> QED BY <1>2 DEF Pending, Crossing

\* What is evaluated while something is still to cross stands in the guard.
LEMMA EvaluatedInGuard ==
    ASSUME Shape, Pending, rest # << >>, rest[1].op \in Evaluating
    PROVE  /\ fn \in Functions /\ Harmless(fn)
           /\ rest[1] \in GuardOf(fn) /\ rest[1].op \in {"declare", "expr", "revert", "if"}
           /\ Evaluated \in GuardOf(fn)
<1>1. fn \in Functions /\ PositionOk(fn) /\ Underway(fn, rest, scopes) /\ Harmless(fn)
  BY ShapeUnderway DEF Evaluating, Shape, Accepted
<1>2. rest[1].op \in Ops /\ rest[1].op # "enter" /\ rest[1].op # "pre"
  BY DEF Ops, Evaluating
<1>3. \E j \in DOMAIN rest : rest[j].op \in Crossing
  BY <1>2, PendingCrosses
<1>4. /\ rest[1] \in Guarded(fn) /\ rest[1] \in Inside(fn.body)
      /\ \A i \in DOMAIN rest[1].kids : rest[1].kids[i] \in GuardOf(fn)
  BY <1>1, <1>2, <1>3, HeadFacts
<1>5. rest[1] \in GuardOf(fn)
  BY <1>2, <1>4 DEF Guarded, HasGuard
<1>6. rest[1].op \in {"declare", "expr", "revert", "if"}
  BY <1>1, <1>5 DEF Harmless, Plain, Free, MayCall, Evaluating
<1>7. rest[1].op = "if" => rest[1].kids[1] \in GuardOf(fn)
  <2>1. rest[1].kids \in Seq(Inside(fn.body)) /\ (rest[1].op = "if" => rest[1].kids # << >>)
    BY <1>1, <1>4, BodyFacts
  <2> QED BY <1>4, <2>1, EmptySeq, LenProperties
<1> QED BY <1>1, <1>5, <1>6, <1>7 DEF Evaluated, Now

LEMMA NothingTouched ==
    ASSUME NoHiddenOverload, Shape, Bound, Pending, ended = "no", rest # << >>, rest[1].op \in Evaluating
    PROVE  Effects(Evaluated) = {}
<1>1. /\ fn \in Functions /\ Harmless(fn) /\ Evaluated \in GuardOf(fn)
      /\ rest[1].op \in {"declare", "expr", "revert", "if"}
  BY EvaluatedInGuard
<1>2. \A x \in Read(Evaluated) : x \in DeclaredIn(GuardOf(fn)) => Own(x)
  BY <1>1 DEF Bound, Running
<1> QED BY <1>1, <1>2, GuardEffects

LEMMA InitUnharmed == Init => Unharmed
<1> SUFFICES ASSUME Init PROVE Unharmed
  OBVIOUS
<1> DEFINE c == Gen("enter", << >>, "")
<1>1. rest = <<c>> /\ touched = {} /\ ended = "no"
  BY DEF Init
<1>2. c.op = "enter"
  BY DEF Gen
<1> HIDE DEF c
<1>3. DOMAIN rest = {1}
  BY <1>1
<1> QED BY <1>1, <1>3 DEF Unharmed, Once

LEMMA StepUnharmed ==
    ASSUME NoHiddenOverload, Shape, Bound, Unharmed, [Next]_vars
    PROVE  Unharmed'
<1> USE DEF Silent, Uncrossed, Running, Now
<1>1. fn \in Functions /\ Accepted(fn) /\ Once(rest)
  BY DEF Shape, Unharmed
<1>2. ASSUME rest # << >>, rest[1].op # "enter", ended = "no"
      PROVE  /\ rest \in Seq(Item(fn)) /\ Once(Tail(rest)) /\ Tail(rest) \in Seq(Item(fn))
             /\ (\E j \in DOMAIN Tail(rest) : Tail(rest)[j].op \in Crossing) =>
                   rest[1].op # "verify" /\ Pending
  <2>1. rest \in Seq(Item(fn))
    BY <1>2, ShapeUnderway DEF Underway
  <2>2. /\ Once(Tail(rest)) /\ Tail(rest) \in Seq(Item(fn))
        /\ (\E j \in DOMAIN Tail(rest) : Tail(rest)[j].op \in Crossing) =>
              rest[1].op # "verify" /\ \E j \in DOMAIN rest : rest[j].op \in Crossing
    BY <1>1, <1>2, <2>1, OnceTail
  <2> QED BY <2>1, <2>2 DEF Pending, Crossing
<1>3. ASSUME Once(rest'), rest' \in Seq(Item(fn)),
             (\E j \in DOMAIN rest' : rest'[j].op \in Crossing) =>
                Pending /\ touched' = touched /\ ended' \in {"no", "reverted"}
      PROVE  Unharmed'
  <2>1. \A i \in DOMAIN rest' : rest'[i].op # "enter"
    <3>1. \A i \in DOMAIN rest' : rest'[i] \in Item(fn)
      BY <1>3, ElementOfSeq, LenProperties
    <3> QED BY <1>1, <3>1, ItemFacts, OpsFacts
  <2>2. Pending' => \E j \in DOMAIN rest' : rest'[j].op \in Crossing
    BY <2>1 DEF Pending, Crossing
  <2> QED BY <1>3, <2>2 DEF Unharmed
<1>4. ASSUME rest # << >>, rest[1].op \in Evaluating, Pending, ended = "no"
      PROVE  Effects(Evaluated) = {} /\ rest[1].op # "return" /\ rest[1].op # "loop"
  BY <1>4, NothingTouched, EvaluatedInGuard
<1>5. CASE Enter
  <2>1. rest # << >> /\ rest[1].op = "enter" /\ ended = "no" /\ rest' = Emitted(fn)
        /\ touched' = touched /\ ended' = ended
    BY <1>5 DEF Enter
  <2>2. Pending
    <3>1. 1 \in DOMAIN rest
      <4>1. ~Underway(fn, rest, scopes)
        <5> SUFFICES ASSUME rest \in Seq(Item(fn)) PROVE FALSE
          BY DEF Underway
        <5>1. rest[1] \in Item(fn)
          BY <2>1, EmptySeq, ElementOfSeq
        <5> QED BY <1>1, <2>1, <5>1, ItemFacts, OpsFacts
      <4>2. rest = <<Gen("enter", << >>, "")>>
        BY <4>1 DEF Shape, AtDoor
      <4> DEFINE c == Gen("enter", << >>, "")
      <4> HIDE DEF c
      <4>3. 1 \in DOMAIN <<c>>
        OBVIOUS
      <4> QED BY <4>2, <4>3 DEF c
    <3> QED BY <2>1, <3>1 DEF Pending
  <2>3. Once(rest')
    BY <1>1, <2>1, OnceEmitted
  <2>4. touched' = {} /\ ended' = "no"
    BY <2>1, <2>2 DEF Unharmed
  <2> QED BY <2>3, <2>4 DEF Unharmed
<1>6. CASE Open
  <2>1. /\ rest # << >> /\ rest[1].op \in {"block", "pre"} /\ ended = "no"
        /\ rest' = rest[1].kids \o <<Closing>> \o Tail(rest) /\ touched' = touched /\ ended' = ended
    BY <1>6 DEF Open, Closing
  <2>2. rest[1].op \in Ops /\ rest[1].op # "enter"
    BY <2>1 DEF Ops
  <2>3. fn \in Functions /\ PositionOk(fn) /\ Underway(fn, rest, scopes)
    BY <2>1, <2>2, ShapeUnderway
  <2>4. rest[1] \in Inside(fn.body)
    BY <2>1, <2>2, <2>3, HeadFacts
  <2>5. rest[1].kids \in Seq(Item(fn)) /\ \A i \in DOMAIN rest[1].kids : rest[1].kids[i].op \in Ops
    <3>1. rest[1].kids \in Seq(Inside(fn.body))
      BY <2>3, <2>4, BodyFacts
    <3>2. \A i \in DOMAIN rest[1].kids : rest[1].kids[i] \in Inside(fn.body)
      BY <3>1, ElementOfSeq, LenProperties
    <3>3. Inside(fn.body) \subseteq Item(fn)
      BY DEF Item
    <3> QED BY <2>3, <3>1, <3>2, <3>3, BodyFacts
  <2> DEFINE ks == rest[1].kids \o <<Closing>>
             k == rest[1].kids
  <2>6. ks \in Seq(Item(fn)) /\ \A i \in DOMAIN ks : ks[i].op \notin Crossing
    <3>1. Closing \in Item(fn) /\ Closing.op = "close"
      BY DEF Item, Closing, Gen
    <3>2. ks = Append(k, Closing)
      <4>1. k \in Seq(Item(fn))
        BY <2>5
      <4> HIDE DEF k
      <4> QED BY <3>1, <4>1, AppendIsConcat DEF k
    <3>3. k \in Seq(Item(fn)) /\ \A i \in DOMAIN k : k[i].op \in Ops
      BY <2>5
    <3> HIDE DEF ks, k
    <3>4. /\ ks \in Seq(Item(fn)) /\ DOMAIN ks = DOMAIN k \cup {Len(k) + 1}
          /\ ks[Len(k) + 1] = Closing /\ \A i \in DOMAIN k : ks[i] = k[i]
      <4>1. /\ DOMAIN Append(k, Closing) = DOMAIN k \cup {Len(k) + 1}
            /\ Append(k, Closing)[Len(k) + 1] = Closing
            /\ \A i \in DOMAIN k : Append(k, Closing)[i] = k[i]
        BY <3>3, AppendFacts
      <4> QED BY <3>1, <3>2, <3>3, <4>1, AppendProperties
    <3> QED BY <3>1, <3>3, <3>4, OpsFacts DEF Crossing
  <2> HIDE DEF ks, k
  <2>7. /\ Once(Tail(rest)) /\ Tail(rest) \in Seq(Item(fn))
        /\ (\E j \in DOMAIN Tail(rest) : Tail(rest)[j].op \in Crossing) => Pending
    BY <1>2, <2>1, <2>2
  <2>8. /\ Once(ks \o Tail(rest)) /\ ks \o Tail(rest) \in Seq(Item(fn))
        /\ \A i \in DOMAIN (ks \o Tail(rest)) :
              (ks \o Tail(rest))[i].op \in Crossing => \E j \in DOMAIN Tail(rest) : Tail(rest)[j].op \in Crossing
    BY <2>6, <2>7, OnceAfter, ConcatProperties
  <2>9. rest' = ks \o Tail(rest)
    BY <2>1 DEF ks
  <2> QED BY <1>3, <2>1, <2>7, <2>8, <2>9
<1>7. CASE Close
  <2>1. rest # << >> /\ rest[1].op = "close" /\ ended = "no" /\ rest' = Tail(rest)
        /\ touched' = touched /\ ended' = ended
    BY <1>7 DEF Close
  <2> QED BY <1>2, <1>3, <2>1
<1>8. CASE Declare
  <2>1. rest # << >> /\ rest[1].op = "declare" /\ ended = "no" /\ rest' = Tail(rest)
        /\ touched' = touched \cup Effects(rest[1]) /\ ended' = ended
    BY <1>8 DEF Declare
  <2>2. Evaluated = rest[1] /\ rest[1].op \in Evaluating
    BY <2>1 DEF Evaluated, Evaluating
  <2> QED BY <1>2, <1>3, <1>4, <2>1, <2>2
<1>9. CASE Evaluate
  <2>1. /\ rest # << >> /\ rest[1].op \in {"expr", "emit", "asm", "try", "revert"} /\ ended = "no"
        /\ rest' = Tail(rest) /\ touched' = touched \cup Effects(rest[1]) /\ ended' \in {"no", "reverted"}
    BY <1>9 DEF Evaluate, Eval
  <2>2. Evaluated = rest[1] /\ rest[1].op \in Evaluating
    BY <2>1 DEF Evaluated, Evaluating
  <2> QED BY <1>2, <1>3, <1>4, <2>1, <2>2
<1>10. CASE Refuse
  <2>1. ended = "no" /\ rest' = rest /\ touched' = touched /\ ended' = "reverted"
    BY <1>10 DEF Refuse
  <2> QED BY <2>1 DEF Unharmed, Pending
<1>11. CASE Branch
  <2>1. /\ rest # << >> /\ rest[1].op \in {"if", "loop"} /\ ended = "no"
        /\ touched' = touched \cup Effects(rest[1].kids[1]) /\ ended' = ended
        /\ \/ rest' = Tail(rest)
           \/ \E i \in 2..Len(rest[1].kids) :
                 rest' = <<rest[1].kids[i]>> \o (IF rest[1].op = "loop" THEN rest ELSE Tail(rest))
    BY <1>11 DEF Branch, Eval
  <2>2. rest[1].op \in Evaluating /\ rest[1].op # "enter" /\ rest[1].op \in Ops
    BY <2>1 DEF Evaluating, Ops
  <2>3. Pending => touched' = touched
    <3>1. Pending => Effects(Evaluated) = {} /\ rest[1].op = "if"
      BY <1>4, <2>1, <2>2
    <3>2. rest[1].op = "if" => Evaluated = rest[1].kids[1]
      BY DEF Evaluated
    <3> QED BY <2>1, <3>1, <3>2
  <2>4. /\ rest \in Seq(Item(fn)) /\ Once(Tail(rest)) /\ Tail(rest) \in Seq(Item(fn))
        /\ (\E j \in DOMAIN Tail(rest) : Tail(rest)[j].op \in Crossing) => Pending
    BY <1>2, <2>1, <2>2
  <2>5. CASE rest' = Tail(rest)
    BY <1>3, <2>1, <2>3, <2>4, <2>5
  <2>6. ASSUME NEW i \in 2..Len(rest[1].kids), NEW t \in {rest, Tail(rest)},
               rest' = <<rest[1].kids[i]>> \o t
        PROVE  Unharmed'
    <3> DEFINE k == rest[1].kids[i]
               ks == <<k>>
    <3>1. k \in Item(fn) /\ k.op \notin Crossing
      <4>1. fn \in Functions /\ PositionOk(fn) /\ Underway(fn, rest, scopes)
        BY <2>1, <2>2, ShapeUnderway
      <4>2. /\ rest[1] \in Inside(fn.body)
            /\ \A j \in DOMAIN rest[1].kids : rest[1].kids[j] \in Inside(fn.body) /\ rest[1].kids[j].op \in Ops
        BY <2>1, <2>2, <4>1, HeadFacts
      <4>3. i \in DOMAIN rest[1].kids
        <5>1. rest[1].kids \in Seq(Inside(fn.body))
          BY <4>1, <4>2, BodyFacts
        <5> QED BY <5>1, LenProperties
      <4> QED BY <4>2, <4>3, OpsFacts DEF Item, Crossing
    <3>2. t \in Seq(Item(fn)) /\ Once(t) /\ ((\E j \in DOMAIN t : t[j].op \in Crossing) => Pending)
      BY <1>1, <2>4 DEF Pending, Crossing
    <3> HIDE DEF k
    <3>3. ks \in Seq(Item(fn)) /\ DOMAIN ks = {1} /\ ks[1] = k
      BY <3>1
    <3> HIDE DEF ks
    <3>4. /\ Once(ks \o t) /\ ks \o t \in Seq(Item(fn))
          /\ \A j \in DOMAIN (ks \o t) : (ks \o t)[j].op \in Crossing => \E l \in DOMAIN t : t[l].op \in Crossing
      BY <3>1, <3>2, <3>3, OnceAfter, ConcatProperties
    <3>5. rest' = ks \o t
      BY <2>6 DEF ks, k
    <3> QED BY <1>3, <2>1, <2>3, <3>2, <3>4, <3>5
  <2>7. \/ rest' = Tail(rest)
        \/ \E i \in 2..Len(rest[1].kids) : \E t \in {rest, Tail(rest)} : rest' = <<rest[1].kids[i]>> \o t
    BY <2>1
  <2> QED BY <2>5, <2>6, <2>7
<1>12. CASE Verify
  <2>1. rest # << >> /\ rest[1].op = "verify" /\ ended = "no" /\ rest' = Tail(rest)
    BY <1>12 DEF Verify
  <2> QED BY <1>2, <1>3, <2>1
<1>13. CASE Receive
  <2>1. rest # << >> /\ rest[1].op = "receive" /\ ended = "no" /\ rest' = Tail(rest)
        /\ touched' = touched /\ ended' = ended
    BY <1>13 DEF Receive
  <2> QED BY <1>2, <1>3, <2>1
<1>14. CASE Return
  <2>1. rest # << >> /\ rest[1].op = "return" /\ ended = "no" /\ rest' = rest
    BY <1>14 DEF Return
  <2>2. ~Pending
    BY <1>4, <2>1 DEF Evaluating
  <2> QED BY <1>1, <2>1, <2>2 DEF Unharmed, Pending
<1>15. CASE Fall
  <2>1. rest = << >> /\ rest' = rest
    BY <1>15 DEF Fall
  <2>2. DOMAIN rest' = {}
    BY <2>1
  <2> QED BY <2>2 DEF Unharmed, Pending, Once
<1>16. CASE UNCHANGED vars
  BY <1>16 DEF vars, Unharmed, Pending
<1> QED BY <1>5, <1>6, <1>7, <1>8, <1>9, <1>10, <1>11, <1>12, <1>13, <1>14, <1>15, <1>16 DEF Next, Over

LEMMA ShapeUnharmed == Shape /\ Unharmed => GuardHarmless
<1> SUFFICES ASSUME Shape, Unharmed PROVE GuardHarmless
  OBVIOUS
<1>1. ASSUME HasGuard(fn), fn.body[1] \in Range(rest) PROVE calls = << >>
  <2>1. CASE AtDoor(fn, rest, scopes) /\ calls = << >>
    BY <2>1
  <2>2. CASE Underway(fn, rest, scopes)
    <3>1. PICK i \in DOMAIN rest : rest[i] = fn.body[1]
      BY <1>1 DEF Range
    <3>2. rest[i].op = "pre"
      BY <1>1, <3>1 DEF HasGuard
    <3>3. i = 1
      BY <2>2, <3>2 DEF Underway, InOrder
    <3>4. rest # << >>
      BY <3>1
    <3> QED BY <3>2, <3>3, <3>4 DEF Shape
  <2> QED BY <2>1, <2>2 DEF Shape
<1> QED BY <1>1 DEF Unharmed, GuardHarmless

\* Until its inputs are there a function that the checks accept changes
\* nothing but its own variables, nor returns, and its guard is through before
\* anything crosses the boundary: whatever its references refer to.
THEOREM GuardIsHarmless ==
    ASSUME NoHiddenOverload
    PROVE  Spec /\ []Bound => []GuardHarmless
<1>1. Init => Shape /\ Unharmed
  BY InitShape, InitUnharmed
<1>2. Shape /\ Unharmed /\ Bound /\ [Next]_vars => (Shape /\ Unharmed)'
  BY StepShape, StepUnharmed
<1>3. Shape /\ Unharmed => GuardHarmless
  BY ShapeUnharmed
<1> QED BY <1>1, <1>2, <1>3, PTL DEF Spec

-----------------------------------------------------------------------------
(* InputsReady.                                                            *)

\* No scope of the output declares a managed input a second time, beside the
\* declaration that its verification adds: solc refuses that.
DeclaredOnce ==
    \A i \in DOMAIN scopes : \A x \in Names(Managed(fn)) : ~({Local(x), Ready(x)} \subseteq scopes[i])

\* What a scope has for a name.
Found(x, side, s) == {d \in s : d.name = x /\ d.by \in {side, "both"}}

\* The innermost scope that has something for a name says what it means.
LEMMA MeansFirst ==
    ASSUME NEW S, NEW ss \in Seq(S), NEW x, NEW side, NEW k \in DOMAIN ss,
           Found(x, side, ss[k]) # {}, \A j \in DOMAIN ss : j < k => Found(x, side, ss[j]) = {}
    PROVE  Means(x, side, ss) =
              IF Cardinality(Found(x, side, ss[k])) = 1
              THEN (CHOOSE d \in Found(x, side, ss[k]) : TRUE).is ELSE <<"twice", x>>
<1> DEFINE at == {i \in DOMAIN ss : Found(x, side, ss[i]) # {}}
           c  == CHOOSE i \in at : \A j \in at : i <= j
<1>1. DOMAIN ss = 1..Len(ss) /\ Len(ss) \in Nat
  BY LenProperties
<1>2. k \in at /\ \A j \in at : k <= j
  BY <1>1
<1>3. c \in at /\ \A j \in at : c <= j
  <2> HIDE DEF at
  <2> QED BY <1>2
<1>4. c = k
  <2>1. at \subseteq Nat
    BY <1>1
  <2> HIDE DEF at, c
  <2> QED BY <1>2, <1>3, <2>1
<1>5. Means(x, side, ss) = IF at = {} THEN <<"outer", x>>
                           ELSE IF Cardinality(Found(x, side, ss[c])) = 1
                                THEN (CHOOSE d \in Found(x, side, ss[c]) : TRUE).is ELSE <<"twice", x>>
  BY DEF Means, Found
<1> HIDE DEF at, c
<1> QED BY <1>2, <1>4, <1>5

LEMMA MeansTheOne ==
    ASSUME NEW S, NEW ss \in Seq(S), NEW x, NEW side, NEW k \in DOMAIN ss, NEW d,
           Found(x, side, ss[k]) = {d}, \A j \in DOMAIN ss : j < k => Found(x, side, ss[j]) = {}
    PROVE  Means(x, side, ss) = d.is
<1>1. Cardinality({d}) = 1
  BY FS_Singleton
<1>2. (CHOOSE e \in {d} : TRUE) = d
  OBVIOUS
<1>3. Found(x, side, ss[k]) # {}
  OBVIOUS
<1> QED BY <1>1, <1>2, <1>3, MeansFirst

\* Either no scope has anything for a name, or there is a first that has.
LEMMA FirstFound ==
    ASSUME NEW S, NEW ss \in Seq(S), NEW x, NEW side
    PROVE  \/ Means(x, side, ss) = <<"outer", x>> /\ \A i \in DOMAIN ss : Found(x, side, ss[i]) = {}
           \/ \E k \in DOMAIN ss : /\ Found(x, side, ss[k]) # {}
                                   /\ \A j \in DOMAIN ss : j < k => Found(x, side, ss[j]) = {}
<1> DEFINE at == {i \in DOMAIN ss : Found(x, side, ss[i]) # {}}
<1>1. DOMAIN ss = 1..Len(ss) /\ Len(ss) \in Nat
  BY LenProperties
<1>2. CASE at = {}
  <2>1. Means(x, side, ss) = <<"outer", x>>
    BY <1>2 DEF Means, Found
  <2> QED BY <1>2, <2>1
<1>3. CASE at # {}
  <2>1. at \in SUBSET Nat
    BY <1>1
  <2>2. PICK k \in at : \A j \in at : k <= j
    <3> HIDE DEF at
    <3> QED BY <1>3, <2>1, Least
  <2>3. \A j \in DOMAIN ss : j < k => j \notin at
    BY <1>1, <2>2
  <2> QED BY <2>2, <2>3
<1> QED BY <1>2, <1>3

LEMMA MeansAgree ==
    ASSUME NEW S, NEW ss \in Seq(S), NEW x,
           \A i \in DOMAIN ss : Found(x, "source", ss[i]) = Found(x, "emitted", ss[i])
    PROVE  Means(x, "source", ss) = Means(x, "emitted", ss)
<1>1. CASE \A i \in DOMAIN ss : Found(x, "source", ss[i]) = {}
  <2>1. Means(x, "source", ss) = <<"outer", x>>
    BY <1>1, FirstFound
  <2>2. Means(x, "emitted", ss) = <<"outer", x>>
    BY <1>1, FirstFound
  <2> QED BY <2>1, <2>2
<1>2. CASE ~(\A i \in DOMAIN ss : Found(x, "source", ss[i]) = {})
  <2>1. PICK k \in DOMAIN ss : /\ Found(x, "source", ss[k]) # {}
                               /\ \A j \in DOMAIN ss : j < k => Found(x, "source", ss[j]) = {}
    BY <1>2, FirstFound
  <2>2. Found(x, "emitted", ss[k]) # {} /\ \A j \in DOMAIN ss : j < k => Found(x, "emitted", ss[j]) = {}
    BY <2>1
  <2>3. Found(x, "source", ss[k]) = Found(x, "emitted", ss[k])
    OBVIOUS
  <2> QED BY <2>1, <2>2, <2>3, MeansFirst
<1> QED BY <1>1, <1>2

Generated(f) ==
    {InputName(p.name) : p \in Range(Inputs(f))} \cup {WireName(p.name) : p \in Range(Shareds(f))}
    \cup (IF Appends(f) THEN {"inputProof"} ELSE {})

LEMMA FoundInLocals ==
    ASSUME NEW f, NEW s, s \subseteq Locals(f), NEW x
    PROVE  Found(x, "source", s) = Found(x, "emitted", s) /\ Found(x, "emitted", s) \subseteq {Local(x)}
<1>1. \A d \in Locals(f) : d.by = "both" /\ d = Local(d.name)
  BY DEF Locals, Local, Entry
<1> QED BY <1>1 DEF Found

BothEntry(p)   == Entry(p.name, <<"param", p.name>>, "both")
SourceEntry(p) == Entry(p.name, <<"param", p.name>>, "source")
WireEntry(p)   == Entry(IF p.form = "in" THEN InputName(p.name) ELSE WireName(p.name), <<"wire", p.name>>, "emitted")
ProofEntry     == Entry("inputProof", <<"param", "inputProof">>, "emitted")

FromHeader(f, d) ==
    \/ \E p \in Params(f) \ Managed(f) : d = BothEntry(p)
    \/ \E p \in Managed(f) : d = SourceEntry(p) \/ d = WireEntry(p)
    \/ Appends(f) /\ d = ProofEntry

LEMMA EntryFacts ==
    \A name, is, by : /\ Entry(name, is, by).name = name /\ Entry(name, is, by).is = is
                      /\ Entry(name, is, by).by = by
BY DEF Entry

LEMMA HeaderEntries ==
    ASSUME NEW f
    PROVE  /\ \A d \in Header(f) : FromHeader(f, d)
           /\ \A p \in Params(f) \ Managed(f) : BothEntry(p) \in Header(f)
           /\ \A p \in Managed(f) : SourceEntry(p) \in Header(f)
           /\ Appends(f) => ProofEntry \in Header(f)
<1> DEFINE E(p) == IF p.form = "plain" THEN {BothEntry(p)} ELSE {SourceEntry(p), WireEntry(p)}
           Es == {E(p) : p \in Params(f)}
           L  == IF Appends(f) THEN {ProofEntry} ELSE {}
<1>1. Header(f) = (UNION Es) \cup L
  BY DEF Header, BothEntry, SourceEntry, WireEntry, ProofEntry
<1>2. \A p \in Params(f) : E(p) = IF p \in Managed(f) THEN {SourceEntry(p), WireEntry(p)} ELSE {BothEntry(p)}
  BY DEF Managed
<1>3. Managed(f) \subseteq Params(f)
  BY DEF Managed
<1>4. \A X \in Es : \E p \in Params(f) : X = E(p)
  OBVIOUS
<1>5. \A p \in Params(f) : E(p) \in Es
  OBVIOUS
<1> HIDE DEF E, Es, L
<1>6. ASSUME NEW d \in UNION Es
      PROVE  \/ \E p \in Params(f) \ Managed(f) : d = BothEntry(p)
             \/ \E p \in Managed(f) : d = SourceEntry(p) \/ d = WireEntry(p)
  <2>1. PICK X \in Es : d \in X
    OBVIOUS
  <2>2. PICK p \in Params(f) : X = E(p)
    BY <1>4
  <2> QED BY <1>2, <2>1, <2>2
<1>7. \A p \in Params(f) \ Managed(f) : BothEntry(p) \in UNION Es
  BY <1>2, <1>5
<1>8. \A p \in Managed(f) : SourceEntry(p) \in UNION Es
  BY <1>2, <1>3, <1>5
<1> QED BY <1>1, <1>6, <1>7, <1>8 DEF L, FromHeader

\* The header: a managed parameter by its name in the source, and by a
\* generated one in the output.
LEMMA FoundInHeader ==
    ASSUME NEW f \in Functions, NEW x
    PROVE  /\ x \notin Names(Managed(f)) \cup Generated(f) =>
                 Found(x, "source", Header(f)) = Found(x, "emitted", Header(f))
           /\ x \in Names(Managed(f)) => Found(x, "source", Header(f)) = {Entry(x, <<"param", x>>, "source")}
           /\ \A p \in Params(f) : p.form = "plain" /\ p.name \notin Generated(f) =>
                 Found(p.name, "emitted", Header(f)) = {Entry(p.name, <<"param", p.name>>, "both")}
           /\ \A d \in Header(f) : d.is[1] # "local"
<1>1. /\ \A d \in Header(f) : FromHeader(f, d)
      /\ \A p \in Params(f) \ Managed(f) : BothEntry(p) \in Header(f)
      /\ \A p \in Managed(f) : SourceEntry(p) \in Header(f)
  BY HeaderEntries
<1>2. ASSUME NEW p \in Managed(f) PROVE WireEntry(p).name \in Generated(f)
  <2>1. Range(Inputs(f)) = {q \in Params(f) : q.form = "in"} /\ Range(Shareds(f)) = {q \in Params(f) : q.form = "shared"}
    BY OfFormFacts DEF Inputs, Shareds
  <2>2. p \in Params(f) /\ p.form # "plain"
    BY DEF Managed
  <2>3. p.form \in {"plain", "in", "shared"}
    <3>1. f.params \in Seq(Parameter)
      BY FunctionAssumption
    <3>2. \A i \in DOMAIN f.params : f.params[i] \in Parameter
      BY <3>1, ElementOfSeq, LenProperties
    <3> QED BY <2>2, <3>2 DEF Params, Parameter
  <2>4. WireEntry(p).name = IF p.form = "in" THEN InputName(p.name) ELSE WireName(p.name)
    BY EntryFacts DEF WireEntry
  <2>5. CASE p.form = "in"
    <3>1. p \in Range(Inputs(f))
      BY <2>1, <2>2, <2>5
    <3> QED BY <2>4, <2>5, <3>1 DEF Generated
  <2>6. CASE p.form = "shared"
    <3>1. p \in Range(Shareds(f))
      BY <2>1, <2>2, <2>6
    <3> QED BY <2>4, <2>6, <3>1 DEF Generated
  <2> QED BY <2>2, <2>3, <2>5, <2>6
<1>3. Appends(f) => ProofEntry.name \in Generated(f)
  BY EntryFacts DEF Generated, ProofEntry
<1>4. /\ \A p : BothEntry(p).name = p.name /\ BothEntry(p).by = "both" /\ BothEntry(p).is = <<"param", p.name>>
      /\ \A p : SourceEntry(p).name = p.name /\ SourceEntry(p).by = "source" /\ SourceEntry(p).is = <<"param", p.name>>
      /\ \A p : WireEntry(p).by = "emitted" /\ WireEntry(p).is = <<"wire", p.name>>
      /\ ProofEntry.by = "emitted" /\ ProofEntry.is = <<"param", "inputProof">>
  BY EntryFacts DEF BothEntry, SourceEntry, WireEntry, ProofEntry
<1>5. \A p, q \in Params(f) : p.name = q.name => p = q
  BY FunctionAssumption
<1>6. Managed(f) = {p \in Params(f) : p.form # "plain"}
  BY DEF Managed
<1>7. \A d \in Header(f) : d.is[1] # "local"
  <2>2. \A p : BothEntry(p).is[1] = "param" /\ SourceEntry(p).is[1] = "param" /\ WireEntry(p).is[1] = "wire"
    BY DEF BothEntry, SourceEntry, WireEntry, Entry
  <2>3. ProofEntry.is[1] = "param"
    BY DEF ProofEntry, Entry
  <2> SUFFICES ASSUME NEW d \in Header(f) PROVE d.is[1] # "local"
    OBVIOUS
  <2>4. FromHeader(f, d)
    BY <1>1
  <2>5. ASSUME NEW p, d = BothEntry(p) \/ d = SourceEntry(p) \/ d = WireEntry(p) PROVE d.is[1] # "local"
    BY <2>2, <2>5
  <2> QED BY <2>3, <2>4, <2>5 DEF FromHeader
<1>8. ASSUME x \notin Names(Managed(f)) \cup Generated(f)
      PROVE  Found(x, "source", Header(f)) = Found(x, "emitted", Header(f))
  <2>1. ASSUME NEW d \in Header(f), d.name = x PROVE d.by = "both"
    <3>1. FromHeader(f, d)
      BY <1>1
    <3>2. ASSUME NEW p \in Managed(f) PROVE d # SourceEntry(p) /\ d # WireEntry(p)
      <4>1. p.name # x
        BY <1>8 DEF Names
      <4>2. WireEntry(p).name # x
        BY <1>2, <1>8
      <4> QED BY <1>4, <2>1, <4>1, <4>2
    <3>3. ~(Appends(f) /\ d = ProofEntry)
      BY <1>3, <1>8, <2>1
    <3>4. PICK p : d = BothEntry(p)
      BY <3>1, <3>2, <3>3 DEF FromHeader
    <3> QED BY <1>4, <3>4
  <2> QED BY <2>1 DEF Found
<1>9. ASSUME x \in Names(Managed(f))
      PROVE  Found(x, "source", Header(f)) = {Entry(x, <<"param", x>>, "source")}
  <2>1. PICK p \in Managed(f) : p.name = x
    BY <1>9 DEF Names
  <2>2. SourceEntry(p) \in Header(f) /\ SourceEntry(p).name = x /\ SourceEntry(p).by = "source"
    BY <1>1, <1>4, <2>1
  <2>3. ASSUME NEW d \in Header(f), d.name = x, d.by \in {"source", "both"} PROVE d = SourceEntry(p)
    <3>1. \A q \in Params(f) : q.name = x => q = p
      BY <1>5, <1>6, <2>1
    <3> QED BY <1>1, <1>4, <1>6, <2>3, <3>1 DEF FromHeader
  <2>4. SourceEntry(p) = Entry(x, <<"param", x>>, "source")
    BY <2>1 DEF SourceEntry
  <2>5. Found(x, "source", Header(f)) = {SourceEntry(p)}
    BY <2>2, <2>3 DEF Found
  <2> QED BY <2>4, <2>5
<1>10. ASSUME NEW p \in Params(f), p.form = "plain", p.name \notin Generated(f)
       PROVE  Found(p.name, "emitted", Header(f)) = {Entry(p.name, <<"param", p.name>>, "both")}
  <2>1. BothEntry(p) \in Header(f) /\ BothEntry(p).name = p.name /\ BothEntry(p).by = "both"
    BY <1>1, <1>4, <1>6, <1>10
  <2>2. ASSUME NEW d \in Header(f), d.name = p.name, d.by \in {"emitted", "both"} PROVE d = BothEntry(p)
    <3>1. \A q \in Params(f) : q.name = p.name => q = p
      BY <1>5
    <3>2. FromHeader(f, d)
      BY <1>1
    <3>3. ASSUME NEW q \in Managed(f) PROVE d # SourceEntry(q) /\ d # WireEntry(q)
      BY <1>2, <1>4, <1>10, <2>2
    <3>4. ~(Appends(f) /\ d = ProofEntry)
      BY <1>3, <1>10, <2>2
    <3>5. PICK q \in Params(f) : d = BothEntry(q)
      BY <3>2, <3>3, <3>4 DEF FromHeader
    <3> QED BY <1>4, <2>2, <3>1, <3>5
  <2>3. Found(p.name, "emitted", Header(f)) = {BothEntry(p)}
    BY <2>1, <2>2 DEF Found
  <2> QED BY <2>3 DEF BothEntry
<1> QED BY <1>7, <1>8, <1>9, <1>10

\* What the scopes of a run have for a name.
ScopesHave(f, ss, x) ==
    LET n == Len(ss) IN
    /\ ss \in Seq(SUBSET Known(f)) /\ n \in Nat /\ n >= 2 /\ DOMAIN ss = 1..n /\ ss[n] = Header(f)
    /\ \A i \in 1..n - 2 : /\ Found(x, "source", ss[i]) = Found(x, "emitted", ss[i])
                           /\ Found(x, "emitted", ss[i]) \subseteq {Local(x)}
    /\ Found(x, "source", ss[n - 1]) = ss[n - 1] \cap {Local(x)}
    /\ Found(x, "emitted", ss[n - 1]) = ss[n - 1] \cap {Local(x), Ready(x)}
    /\ Ready(x) \in ss[n - 1] => x \in Names(Managed(f))

LEMMA FoundInScopes ==
    ASSUME NEW f \in Functions, NEW s, NEW ss, Underway(f, s, ss), NEW x
    PROVE  ScopesHave(f, ss, x)
<1> DEFINE n == Len(ss)
           b == ss[n - 1]
<1>1. /\ ss \in Seq(SUBSET Known(f)) /\ n >= 2 /\ ss[n] = Header(f) /\ b \subseteq Locals(f) \cup Readied(f)
      /\ \A i \in 1..n - 2 : ss[i] \subseteq Locals(f)
  BY DEF Underway, Scoped
<1>2. n \in Nat /\ DOMAIN ss = 1..n
  BY <1>1, LenProperties
<1>3. \A i \in 1..n - 2 : /\ Found(x, "source", ss[i]) = Found(x, "emitted", ss[i])
                          /\ Found(x, "emitted", ss[i]) \subseteq {Local(x)}
  BY <1>1, FoundInLocals
<1>4. \A v : Local(v).name = v /\ Local(v).by = "both" /\ Ready(v).name = v /\ Ready(v).by = "emitted"
  BY EntryFacts DEF Local, Ready
<1>5. \A d \in b : \/ d = Local(d.name) /\ d.by = "both"
                   \/ d = Ready(d.name) /\ d.by = "emitted" /\ d.name \in Names(Managed(f))
  BY <1>1, <1>4 DEF Locals, Readied
<1> HIDE DEF b, n
<1>6. Found(x, "source", b) = b \cap {Local(x)}
  BY <1>4, <1>5 DEF Found
<1>7. Found(x, "emitted", b) = b \cap {Local(x), Ready(x)}
  BY <1>4, <1>5 DEF Found
<1>8. Ready(x) \in b => x \in Names(Managed(f))
  <2>1. ASSUME Ready(x) \in b PROVE x \in Names(Managed(f))
    <3>1. Ready(x).name = x /\ Ready(x).by = "emitted"
      BY <1>4
    <3> QED BY <1>5, <2>1, <3>1
  <2> QED BY <2>1
<1> QED BY <1>1, <1>2, <1>3, <1>6, <1>7, <1>8 DEF b, n, ScopesHave

LEMMA PlainAgrees ==
    ASSUME NEW f \in Functions, NEW s, NEW ss, Underway(f, s, ss),
           NEW x, x \notin Names(Managed(f)) \cup Generated(f)
    PROVE  Means(x, "source", ss) = Means(x, "emitted", ss)
<1> DEFINE n == Len(ss)
<1>0. ScopesHave(f, ss, x)
  BY FoundInScopes
<1>1. /\ ss \in Seq(SUBSET Known(f)) /\ n \in Nat /\ n >= 2 /\ DOMAIN ss = 1..n /\ ss[n] = Header(f)
      /\ \A i \in 1..n - 2 : Found(x, "source", ss[i]) = Found(x, "emitted", ss[i])
      /\ Found(x, "source", ss[n - 1]) = ss[n - 1] \cap {Local(x)}
      /\ Found(x, "emitted", ss[n - 1]) = ss[n - 1] \cap {Local(x), Ready(x)}
      /\ Ready(x) \in ss[n - 1] => x \in Names(Managed(f))
  BY <1>0 DEF ScopesHave
<1>2. Found(x, "source", ss[n - 1]) = Found(x, "emitted", ss[n - 1])
  BY <1>1
<1>3. Found(x, "source", ss[n]) = Found(x, "emitted", ss[n])
  BY <1>1, FoundInHeader
<1> HIDE DEF n
<1>4. ASSUME NEW i \in DOMAIN ss PROVE Found(x, "source", ss[i]) = Found(x, "emitted", ss[i])
  <2>1. i = n \/ i = n - 1 \/ i \in 1..n - 2
    BY <1>1
  <2> QED BY <1>1, <1>2, <1>3, <2>1
<1> QED BY <1>1, <1>4, MeansAgree

LEMMA ReadyAgrees ==
    ASSUME NEW f \in Functions, NEW s, NEW ss, Underway(f, s, ss),
           NEW x \in Names(Managed(f)), Ready(x) \in ss[Len(ss) - 1], Local(x) \notin ss[Len(ss) - 1]
    PROVE  Means(x, "source", ss) = Means(x, "emitted", ss)
<1> DEFINE n == Len(ss)
<1>0. ScopesHave(f, ss, x)
  BY FoundInScopes
<1>1. /\ ss \in Seq(SUBSET Known(f)) /\ n \in Nat /\ n >= 2 /\ DOMAIN ss = 1..n /\ ss[n] = Header(f)
      /\ \A i \in 1..n - 2 : Found(x, "source", ss[i]) = Found(x, "emitted", ss[i])
      /\ Found(x, "source", ss[n - 1]) = ss[n - 1] \cap {Local(x)}
      /\ Found(x, "emitted", ss[n - 1]) = ss[n - 1] \cap {Local(x), Ready(x)}
  BY <1>0 DEF ScopesHave
<1>2. Found(x, "source", ss[n - 1]) = {} /\ Found(x, "emitted", ss[n - 1]) = {Ready(x)}
  BY <1>1
<1>3. Found(x, "source", ss[n]) = {Entry(x, <<"param", x>>, "source")}
  BY <1>1, FoundInHeader
<1> HIDE DEF n
<1>4. n - 1 \in DOMAIN ss /\ n \in DOMAIN ss
  BY <1>1
<1>5. \A j \in DOMAIN ss : (j < n - 1 => j \in 1..n - 2) /\ (j < n => j \in 1..n - 2 \/ j = n - 1)
  BY <1>1
<1>6. CASE \A i \in 1..n - 2 : Found(x, "source", ss[i]) = {}
  <2>1. \A i \in 1..n - 2 : Found(x, "emitted", ss[i]) = {}
    BY <1>1, <1>6
  <2>2. Means(x, "emitted", ss) = Ready(x).is
    <3>1. \A j \in DOMAIN ss : j < n - 1 => Found(x, "emitted", ss[j]) = {}
      BY <1>5, <2>1
    <3> QED BY <1>1, <1>2, <1>4, <3>1, MeansTheOne
  <2>3. Means(x, "source", ss) = Entry(x, <<"param", x>>, "source").is
    <3>1. \A j \in DOMAIN ss : j < n => Found(x, "source", ss[j]) = {}
      BY <1>2, <1>5, <1>6
    <3> QED BY <1>1, <1>3, <1>4, <3>1, MeansTheOne
  <2> QED BY <2>2, <2>3, EntryFacts DEF Ready
<1>7. CASE ~(\A i \in 1..n - 2 : Found(x, "source", ss[i]) = {})
  <2>1. 1..n - 2 \subseteq DOMAIN ss
    BY <1>1
  <2>2. PICK k \in DOMAIN ss : /\ Found(x, "source", ss[k]) # {}
                               /\ \A j \in DOMAIN ss : j < k => Found(x, "source", ss[j]) = {}
    BY <1>1, <1>7, <2>1, FirstFound
  <2>3. PICK i \in 1..n - 2 : Found(x, "source", ss[i]) # {}
    BY <1>7
  <2>4. ~(i < k)
    BY <2>1, <2>2, <2>3
  <2>5. k \in 1..n - 2 /\ \A j \in DOMAIN ss : j < k => j \in 1..n - 2
    BY <1>1, <2>3, <2>4
  <2>6. /\ Found(x, "emitted", ss[k]) = Found(x, "source", ss[k])
        /\ \A j \in DOMAIN ss : j < k => Found(x, "emitted", ss[j]) = {}
    BY <1>1, <2>2, <2>5
  <2> QED BY <1>1, <2>2, <2>6, MeansFirst
<1> QED BY <1>6, <1>7

LEMMA OwnAgrees ==
    ASSUME NEW f \in Functions, NEW s, NEW ss, Underway(f, s, ss),
           NEW x, Means(x, "emitted", ss)[1] = "local"
    PROVE  Means(x, "source", ss) = Means(x, "emitted", ss)
<1> DEFINE n == Len(ss)
<1>0. ScopesHave(f, ss, x)
  BY FoundInScopes
<1>1. /\ ss \in Seq(SUBSET Known(f)) /\ n \in Nat /\ n >= 2 /\ DOMAIN ss = 1..n /\ ss[n] = Header(f)
      /\ \A i \in 1..n - 2 : Found(x, "source", ss[i]) = Found(x, "emitted", ss[i])
      /\ Found(x, "source", ss[n - 1]) = ss[n - 1] \cap {Local(x)}
      /\ Found(x, "emitted", ss[n - 1]) = ss[n - 1] \cap {Local(x), Ready(x)}
  BY <1>0 DEF ScopesHave
<1>2. <<"outer", x>>[1] = "outer" /\ <<"twice", x>>[1] = "twice"
  OBVIOUS
<1>3. PICK k \in DOMAIN ss : /\ Found(x, "emitted", ss[k]) # {}
                             /\ \A j \in DOMAIN ss : j < k => Found(x, "emitted", ss[j]) = {}
  BY <1>1, <1>2, FirstFound
<1> DEFINE F == Found(x, "emitted", ss[k])
           c == CHOOSE d \in F : TRUE
<1>4. Means(x, "emitted", ss) = IF Cardinality(F) = 1 THEN c.is ELSE <<"twice", x>>
  BY <1>1, <1>3, MeansFirst
<1>5. Cardinality(F) = 1 /\ c.is[1] = "local" /\ c \in F
  <2>1. F # {}
    BY <1>3
  <2> HIDE DEF F
  <2> QED BY <1>2, <1>4, <2>1
<1>6. c \in ss[k] /\ c.name = x
  BY <1>5 DEF Found
<1> HIDE DEF c, F, n
<1>7. Ready(x).is[1] = "param"
  BY DEF Ready, Entry
<1>8. k # n
  BY <1>1, <1>5, <1>6, FoundInHeader
<1>9. Found(x, "source", ss[k]) = F
  <2>1. CASE k = n - 1
    <3>1. c \in ss[n - 1] \cap {Local(x), Ready(x)}
      BY <1>1, <1>5, <2>1 DEF F
    <3>2. c = Local(x)
      BY <1>5, <1>7, <3>1
    <3>3. IsFiniteSet(F)
      <4>1. F \subseteq {Local(x), Ready(x)}
        BY <1>1, <2>1 DEF F
      <4>2. IsFiniteSet({Local(x), Ready(x)})
        <5>1. IsFiniteSet({Local(x)})
          BY FS_Singleton
        <5>2. IsFiniteSet({Local(x)} \cup {Ready(x)})
          BY <5>1, FS_AddElement
        <5>3. {Local(x), Ready(x)} = {Local(x)} \cup {Ready(x)}
          OBVIOUS
        <5> QED BY <5>2, <5>3
      <4> QED BY <4>1, <4>2, FS_Subset
    <3>4. F = {Local(x)}
      BY <1>5, <3>2, <3>3, FS_Singleton
    <3> QED BY <1>1, <2>1, <3>1, <3>2, <3>4
  <2>2. CASE k \in 1..n - 2
    BY <1>1, <2>2 DEF F
  <2> QED BY <1>1, <1>8, <2>1, <2>2
<1>10. \A j \in DOMAIN ss : j < k => Found(x, "source", ss[j]) = {}
  <2> SUFFICES ASSUME NEW j \in DOMAIN ss, j < k PROVE Found(x, "source", ss[j]) = {}
    OBVIOUS
  <2>1. j \in 1..n - 2
    BY <1>1, <1>8
  <2> QED BY <1>1, <1>3, <2>1
<1> QED BY <1>1, <1>3, <1>9, <1>10, MeansFirst DEF F

\* sugar.rs and shared.rs, scan: what the expansion generates occurs nowhere.
LEMMA NothingGenerated ==
    ASSUME NEW f \in Functions, Accepted(f), NEW x \in Generated(f)
    PROVE  /\ \A n \in Inside(f.args) \cup Inside(f.body) : n.v # x
           /\ \A p \in Params(f) : x # p.name /\ x # p.proof
<1>1. InputsOk(f) /\ SharedsOk(f)
  BY DEF Accepted
<1>2. ~Occurs(f, x)
  <2>1. ASSUME NEW p \in Range(Inputs(f)), x = InputName(p.name) PROVE ~Occurs(f, x)
    BY <1>1, <2>1 DEF InputsOk
  <2>2. ASSUME NEW p \in Range(Shareds(f)), x = WireName(p.name) PROVE ~Occurs(f, x)
    <3>1. Shareds(f) # << >>
      BY RangeEmpty
    <3> QED BY <1>1, <2>2, <3>1 DEF SharedsOk
  <2>3. ASSUME Appends(f), x = "inputProof" PROVE ~Occurs(f, x)
    BY <1>1, <2>3 DEF InputsOk
  <2> QED BY <2>1, <2>2, <2>3 DEF Generated
<1> QED BY <1>2 DEF Occurs

\* What is evaluated of a statement before it is done with, or gone into.
Subject == IF Now.op \in {"if", "loop"} THEN Now.kids[1] ELSE Now

\* An input is read where it is verified, and only in the guard before.
LEMMA SubjectAgrees ==
    ASSUME Shape, Bound, DeclaredOnce, ended = "no", rest # << >>, rest[1].op \in Evaluating
    PROVE  Astray(Subject) = {}
<1>1. fn \in Functions /\ PositionOk(fn) /\ Underway(fn, rest, scopes) /\ Accepted(fn)
  BY ShapeUnderway DEF Evaluating, Shape
<1>2. rest[1].op \in Ops
  BY DEF Ops, Evaluating
<1>3. rest[1] \in Inside(fn.body)
  BY <1>1, <1>2, HeadFacts
<1>4. Subject \in Inside(fn.body) /\ Within(Subject) \subseteq Inside(fn.body)
  <2>1. /\ rest[1].kids \in Seq(Inside(fn.body))
        /\ rest[1].op \in {"if", "loop"} => rest[1].kids # << >>
    BY <1>1, <1>3, BodyFacts
  <2>2. rest[1].op \in {"if", "loop"} => rest[1].kids[1] \in Inside(fn.body)
    BY <2>1, EmptySeq, LenProperties, ElementOfSeq
  <2>3. Subject \in Inside(fn.body)
    BY <1>3, <2>2 DEF Subject, Now
  <2> QED BY <1>1, <2>3, BodyFacts
<1>5. SUFFICES ASSUME NEW x \in Read(Subject)
               PROVE  Means(x, "source", scopes) = Means(x, "emitted", scopes)
  BY DEF Astray
<1>6. PICK n \in Within(Subject) : n.op = "name" /\ n.v = x
  BY DEF Read
<1>7. x \notin Generated(fn)
  BY <1>1, <1>4, <1>6, NothingGenerated
<1>8. CASE x \notin Names(Managed(fn))
  BY <1>1, <1>7, <1>8, PlainAgrees
<1>9. CASE x \in Names(Managed(fn))
  <2>1. Awaited(rest, x) \/ Ready(x) \in scopes[Len(scopes) - 1]
    BY <1>1, <1>9 DEF Underway, Crossed
  <2>2. CASE Ready(x) \in scopes[Len(scopes) - 1]
    <3>1. Len(scopes) - 1 \in DOMAIN scopes
      BY <1>1, LenProperties DEF Underway, Scoped
    <3>2. Local(x) \notin scopes[Len(scopes) - 1]
      BY <1>9, <2>2, <3>1 DEF DeclaredOnce
    <3> QED BY <1>1, <1>9, <2>2, <3>2, ReadyAgrees
  <2>3. CASE Awaited(rest, x)
    <3>1. Pending
      BY <2>3 DEF Awaited, Pending, Crossing
    <3>2. /\ Harmless(fn) /\ rest[1].op \in {"declare", "expr", "revert", "if"}
          /\ Evaluated \in GuardOf(fn)
      BY <3>1, EvaluatedInGuard
    <3>3. Evaluated = Subject
      BY <3>2 DEF Evaluated, Subject, Now
    <3>4. n \in GuardOf(fn)
      BY <1>1, <1>6, <3>2, <3>3, BodyFacts
    <3>5. Readable(fn, x)
      BY <1>6, <3>2, <3>4 DEF Harmless, Plain, Free, MayCall
    <3>6. x \in DeclaredIn(GuardOf(fn))
      BY <1>9, <3>5 DEF Readable
    <3>7. Own(x)
      BY <3>1, <3>2, <3>3, <3>6 DEF Bound, Running, Now
    <3> QED BY <1>1, <3>7, OwnAgrees DEF Own
  <2> QED BY <2>1, <2>2, <2>3
<1> QED BY <1>8, <1>9

\* modifier_reference: the arguments of the modifiers read no managed input.
LEMMA ArgumentsAgree ==
    ASSUME fn \in Functions, Accepted(fn), scopes = <<Header(fn)>>, NEW i \in DOMAIN fn.args
    PROVE  Astray(fn.args[i]) = {}
<1>1. fn.args \in Seq(Nodes)
  BY FunctionAssumption
<1>2. SUFFICES ASSUME NEW x \in Read(fn.args[i])
               PROVE  Means(x, "source", scopes) = Means(x, "emitted", scopes)
  BY DEF Astray
<1>3. PICK n \in Within(fn.args[i]) : n.op = "name" /\ n.v = x
  BY DEF Read
<1>4. n \in Inside(fn.args)
  BY <1>3 DEF Inside
<1>5. x \notin Generated(fn)
  BY <1>3, <1>4, NothingGenerated
<1>6. x \notin Names(Managed(fn))
  <2> SUFFICES ASSUME NEW p \in Managed(fn), p.name = x PROVE FALSE
    BY DEF Names
  <2>1. p \in Params(fn) /\ p.form # "plain"
    BY DEF Managed
  <2>2. p.form \in {"in", "shared"}
    <3>1. fn.params \in Seq(Parameter)
      BY FunctionAssumption
    <3>2. PICK k \in DOMAIN fn.params : p = fn.params[k]
      BY <2>1 DEF Params
    <3>3. p \in Parameter
      BY <3>1, <3>2, ElementOfSeq, LenProperties
    <3> QED BY <2>1, <3>3 DEF Parameter
  <2>3. p \in Range(Inputs(fn)) \/ p \in Range(Shareds(fn))
    <3>1. /\ Range(Inputs(fn)) = {q \in Params(fn) : q.form = "in"}
          /\ Range(Shareds(fn)) = {q \in Params(fn) : q.form = "shared"}
      BY OfFormFacts DEF Inputs, Shareds
    <3> QED BY <2>1, <2>2, <3>1
  <2>4. FreeInHeader(fn, x)
    <3>1. InputsOk(fn) /\ SharedsOk(fn)
      BY DEF Accepted
    <3>2. p \in Range(Shareds(fn)) => Shareds(fn) # << >>
      BY RangeEmpty
    <3> QED BY <2>3, <3>1, <3>2 DEF InputsOk, SharedsOk
  <2> QED BY <1>3, <1>4, <2>4 DEF FreeInHeader
<1> DEFINE h == Header(fn)
<1>7. Found(x, "source", h) = Found(x, "emitted", h)
  BY <1>5, <1>6, FoundInHeader
<1>8. scopes = <<h>>
  OBVIOUS
<1> HIDE DEF h
<1>9. scopes \in Seq({h}) /\ \A k \in DOMAIN scopes : scopes[k] = h
  BY <1>8
<1> QED BY <1>7, <1>9, MeansAgree

\* proof_mode: the parameter that holds the proof of the list.
LEMMA ProofFound ==
    ASSUME NEW f \in Functions, Accepted(f), Inputs(f) # << >>
    PROVE  LET x == ProofOf(f) IN
           /\ \E d : Found(x, "emitted", Header(f)) = {d} /\ d.is = <<"param", x>>
           /\ x \notin Names(Managed(f))
<1> DEFINE x == ProofOf(f)
<1>0. InputsOk(f) /\ SharedsOk(f) /\ OneProof(f)
  BY DEF Accepted, InputsOk
<1>1. CASE Appends(f)
  <2>1. x = "inputProof" /\ x \in Generated(f)
    BY <1>1 DEF ProofOf, Generated
  <2>2. /\ \A n \in Inside(f.args) \cup Inside(f.body) : n.v # x
        /\ \A p \in Params(f) : x # p.name /\ x # p.proof
    BY <2>1, NothingGenerated
  <2>3. x \notin Names(Managed(f))
    BY <2>2 DEF Names, Managed
  <2>5. ProofEntry \in Found(x, "emitted", Header(f))
    BY <1>1, <2>1, HeaderEntries, EntryFacts DEF Found, ProofEntry
  <2>6. ASSUME NEW d \in Found(x, "emitted", Header(f)) PROVE d = ProofEntry
    <3>1. d \in Header(f) /\ d.name = x /\ d.by \in {"emitted", "both"}
      BY DEF Found
    <3>2. ASSUME NEW p \in Params(f), d = BothEntry(p) PROVE FALSE
      BY <2>2, <3>1, <3>2, EntryFacts DEF BothEntry
    <3>3. ASSUME NEW p \in Params(f), d = SourceEntry(p) PROVE FALSE
      BY <2>2, <3>1, <3>3, EntryFacts DEF SourceEntry
    <3>4. ASSUME NEW p \in Params(f), d = WireEntry(p) PROVE FALSE
      <4>1. x = InputName(p.name) \/ x = WireName(p.name)
        BY <3>1, <3>4, EntryFacts DEF WireEntry
      <4> QED BY <2>1, <4>1, NameAssumption
    <3>5. FromHeader(f, d)
      BY <3>1, HeaderEntries
    <3> QED BY <3>2, <3>3, <3>4, <3>5 DEF FromHeader, Managed
  <2>7. ProofEntry.is = <<"param", x>>
    BY <2>1, EntryFacts DEF ProofEntry
  <2>8. Found(x, "emitted", Header(f)) = {ProofEntry}
    BY <2>5, <2>6
  <2> QED BY <2>3, <2>7, <2>8
<1>2. CASE ~Appends(f)
  <2>1. x = Inputs(f)[1].proof /\ x # ""
    BY <1>2 DEF ProofOf, Appends
  <2>2. PICK p \in Params(f) : p.name = x /\ p.bytes
    BY <1>0, <2>1 DEF OneProof
  <2>3. p.form = "plain"
    <3>1. p \in Parameter
      <4>1. f.params \in Seq(Parameter)
        BY FunctionAssumption
      <4>2. PICK k \in DOMAIN f.params : p = f.params[k]
        BY DEF Params
      <4> QED BY <4>1, <4>2, ElementOfSeq, LenProperties
    <3>2. ~p.enc
      BY <2>2, FunctionAssumption
    <3>3. /\ Range(Inputs(f)) = {q \in Params(f) : q.form = "in"}
          /\ Range(Shareds(f)) = {q \in Params(f) : q.form = "shared"}
      BY OfFormFacts DEF Inputs, Shareds
    <3>4. p.form # "in"
      BY <1>0, <3>2, <3>3 DEF InputsOk
    <3>5. p.form # "shared"
      <4>1. Shareds(f) = << >>
        BY <1>0 DEF SharedsOk
      <4> QED BY <3>3, <4>1, RangeEmpty
    <3> QED BY <3>1, <3>4, <3>5 DEF Parameter
  <2>4. x \notin Generated(f)
    BY <2>2, NothingGenerated
  <2>5. Found(x, "emitted", Header(f)) = {Entry(x, <<"param", x>>, "both")}
    BY <2>2, <2>3, <2>4, FoundInHeader
  <2>6. x \notin Names(Managed(f))
    <3> SUFFICES ASSUME NEW q \in Managed(f), q.name = x PROVE FALSE
      BY DEF Names
    <3>1. q \in Params(f) /\ q.form # "plain"
      BY DEF Managed
    <3>2. p = q
      BY <2>2, <3>1, FunctionAssumption
    <3> QED BY <2>3, <3>1, <3>2
  <2>7. Entry(x, <<"param", x>>, "both").is = <<"param", x>>
    BY EntryFacts
  <2> QED BY <2>5, <2>6, <2>7
<1> QED BY <1>1, <1>2

\* A statement of the guard is followed by the end of a scope before anything
\* crosses the boundary, and the scope of the body declares nothing until then.
Shielded(s) ==
    \A i, j \in DOMAIN s :
        i < j /\ s[j].op \in Crossing /\ s[i].op \notin Crossing \cup {"close", "pre"} =>
            \E k \in DOMAIN s : i < k /\ k < j /\ s[k].op = "close"
Undeclared ==
    /\ Shielded(rest)
    /\ (\E j \in DOMAIN rest : rest[j].op \in Crossing) =>
          scopes[Len(scopes) - 1] \subseteq Readied(fn)

LEMMA ShieldedTail ==
    ASSUME NEW S, NEW s \in Seq(S), s # << >>, Shielded(s)
    PROVE  /\ Shielded(Tail(s))
           /\ \A j \in DOMAIN Tail(s) : j + 1 \in DOMAIN s /\ Tail(s)[j] = s[j + 1]
           /\ \A j \in DOMAIN s : j # 1 => j - 1 \in DOMAIN Tail(s) /\ Tail(s)[j - 1] = s[j]
<1> DEFINE t == Tail(s)
           n == Len(s)
<1>1. /\ n \in Nat \ {0} /\ DOMAIN s = 1..n /\ t \in Seq(S) /\ Len(t) = n - 1
      /\ \A i \in 1..n - 1 : t[i] = s[i + 1]
  BY HeadTailProperties, LenProperties, EmptySeq
<1>2. DOMAIN t = 1..n - 1
  BY <1>1, LenProperties
<1> HIDE DEF t, n
<1>3. Shielded(t)
  <2> SUFFICES ASSUME NEW i \in DOMAIN t, NEW j \in DOMAIN t, i < j, t[j].op \in Crossing,
                      t[i].op \notin Crossing \cup {"close", "pre"}
               PROVE  \E k \in DOMAIN t : i < k /\ k < j /\ t[k].op = "close"
    BY DEF Shielded
  <2>1. /\ i + 1 \in DOMAIN s /\ j + 1 \in DOMAIN s /\ i + 1 < j + 1
        /\ t[i] = s[i + 1] /\ t[j] = s[j + 1]
    BY <1>1, <1>2
  <2>2. PICK k \in DOMAIN s : i + 1 < k /\ k < j + 1 /\ s[k].op = "close"
    BY <2>1 DEF Shielded
  <2>3. k - 1 \in DOMAIN t /\ i < k - 1 /\ k - 1 < j /\ t[k - 1] = s[k]
    BY <1>1, <1>2, <2>2
  <2> QED BY <2>2, <2>3
<1>4. \A j \in DOMAIN t : j + 1 \in DOMAIN s /\ t[j] = s[j + 1]
  BY <1>1, <1>2
<1>5. \A j \in DOMAIN s : j # 1 => j - 1 \in DOMAIN t /\ t[j - 1] = s[j]
  BY <1>1, <1>2
<1> QED BY <1>3, <1>4, <1>5 DEF t

LEMMA ShieldedConcat ==
    ASSUME NEW S, NEW ks \in Seq(S), NEW t \in Seq(S), Shielded(t),
           \A i \in DOMAIN ks : ks[i].op \notin Crossing,
           \A j \in DOMAIN t : t[j].op \in Crossing => \E k \in DOMAIN t : k < j /\ t[k].op = "close"
    PROVE  /\ Shielded(ks \o t)
           /\ \A i \in DOMAIN (ks \o t) : (ks \o t)[i].op \in Crossing => \E j \in DOMAIN t : t[j].op \in Crossing
<1> DEFINE m == Len(ks)
           u == ks \o t
<1>1. /\ m \in Nat /\ Len(t) \in Nat /\ DOMAIN ks = 1..m /\ DOMAIN t = 1..Len(t) /\ DOMAIN u = 1..m + Len(t)
      /\ \A i \in 1..m + Len(t) : u[i] = IF i <= m THEN ks[i] ELSE t[i - m]
  <2>1. /\ u \in Seq(S) /\ Len(u) = m + Len(t)
        /\ \A i \in 1..m + Len(t) : u[i] = IF i <= m THEN ks[i] ELSE t[i - m]
    BY ConcatProperties
  <2> QED BY <2>1, LenProperties
<1> HIDE DEF m, u
<1>2. ASSUME NEW j \in DOMAIN u, u[j].op \in Crossing
      PROVE  j > m /\ j - m \in DOMAIN t /\ u[j] = t[j - m]
  BY <1>1, <1>2
<1>3. Shielded(u)
  <2> SUFFICES ASSUME NEW i \in DOMAIN u, NEW j \in DOMAIN u, i < j, u[j].op \in Crossing,
                      u[i].op \notin Crossing \cup {"close", "pre"}
               PROVE  \E k \in DOMAIN u : i < k /\ k < j /\ u[k].op = "close"
    BY DEF Shielded
  <2>1. j > m /\ j - m \in DOMAIN t /\ u[j] = t[j - m]
    BY <1>2
  <2>2. \A k \in DOMAIN t : k + m \in DOMAIN u /\ u[k + m] = t[k]
    BY <1>1
  <2>3. PICK k \in DOMAIN t : i < k + m /\ k < j - m /\ t[k].op = "close"
    <3>1. CASE i <= m
      <4>1. PICK k \in DOMAIN t : k < j - m /\ t[k].op = "close"
        BY <2>1
      <4>2. i < k + m
        BY <1>1, <3>1
      <4> QED BY <4>1, <4>2
    <3>2. CASE ~(i <= m)
      <4>1. i - m \in DOMAIN t /\ u[i] = t[i - m] /\ i - m < j - m
        BY <1>1, <3>2
      <4>2. PICK k \in DOMAIN t : i - m < k /\ k < j - m /\ t[k].op = "close"
        BY <2>1, <4>1 DEF Shielded
      <4>3. i < k + m
        BY <1>1, <4>2
      <4> QED BY <4>2, <4>3
    <3> QED BY <3>1, <3>2
  <2>4. k + m < j
    BY <1>1, <2>3
  <2> QED BY <2>2, <2>3, <2>4
<1>4. \A i \in DOMAIN u : u[i].op \in Crossing => \E j \in DOMAIN t : t[j].op \in Crossing
  BY <1>2
<1> QED BY <1>3, <1>4 DEF u

\* materialization_point: only the guard runs before the verification.
LEMMA ShieldedEmitted ==
    ASSUME NEW f \in Functions
    PROVE  Shielded(Emitted(f))
<1> DEFINE e == Emitted(f)
           m == MaterializeAfter(f)
           p == Prelude(f)
           n == Len(p)
<1>1. /\ m = (IF HasGuard(f) THEN 1 ELSE 0) /\ n \in Nat
      /\ e \in Seq(Inside(f.body) \cup Range(p))
      /\ \A i \in DOMAIN e :
            \/ i <= m /\ i \in DOMAIN f.body /\ e[i] = f.body[i]
            \/ m < i /\ i <= m + n /\ i - m \in DOMAIN p /\ e[i] = p[i - m]
            \/ i > m + n /\ i - n \in DOMAIN f.body /\ i - n > m /\ e[i] = f.body[i - n]
  BY EmittedFacts
<1>2. DOMAIN e \subseteq Nat /\ DOMAIN e = 1..Len(e)
  BY <1>1, LenProperties
<1>3. \A i \in DOMAIN f.body : f.body[i].op \in Ops
  BY BodyFacts, ElementOfSeq, LenProperties
<1>4. \A i \in DOMAIN p : p[i].op \in Crossing
  <2> TAKE i \in DOMAIN p
  <2>1. p[i] = Verifying(f) \/ \E q \in Range(Shareds(f)) : p[i] = Receiving(q)
    BY PreludeFacts
  <2>2. Verifying(f).op = "verify" /\ \A q : Receiving(q).op = "receive"
    BY GenFacts DEF Verifying, Receiving
  <2> QED BY <2>1, <2>2 DEF Crossing
<1> HIDE DEF e, m, p, n
<1>5. SUFFICES ASSUME NEW i \in DOMAIN e, NEW j \in DOMAIN e, i < j, e[j].op \in Crossing
               PROVE  e[i].op \in Crossing \cup {"pre"}
  BY DEF Shielded, e
<1>6. m < j /\ j <= m + n
  BY <1>1, <1>2, <1>3, <1>5, OpsFacts DEF Crossing
<1>7. CASE i <= m
  <2>1. HasGuard(f) /\ i = 1 /\ e[i] = f.body[1]
    BY <1>1, <1>2, <1>7
  <2> QED BY <2>1 DEF HasGuard
<1>8. CASE ~(i <= m)
  <2>1. i - m \in DOMAIN p /\ e[i] = p[i - m]
    BY <1>1, <1>2, <1>5, <1>6, <1>8
  <2> QED BY <1>4, <2>1
<1> QED BY <1>7, <1>8

LEMMA InitUndeclared == Init => Undeclared
<1> SUFFICES ASSUME Init PROVE Undeclared
  OBVIOUS
<1> DEFINE c == Gen("enter", << >>, "")
<1>1. rest = <<c>>
  BY DEF Init
<1>2. c.op = "enter"
  BY DEF Gen
<1> HIDE DEF c
<1>3. \A i \in DOMAIN rest : rest[i].op = "enter"
  BY <1>1, <1>2
<1> QED BY <1>3 DEF Undeclared, Shielded, Crossing

LEMMA StepUndeclared ==
    ASSUME Shape, Undeclared, [Next]_vars
    PROVE  Undeclared'
<1> USE DEF Silent, Uncrossed, Running, Now
<1> DEFINE n == Len(scopes)
<1>1. fn \in Functions /\ Accepted(fn)
  BY DEF Shape
<1>2. ASSUME rest # << >>, rest[1].op # "enter"
      PROVE  /\ PositionOk(fn) /\ Underway(fn, rest, scopes) /\ rest \in Seq(Item(fn))
             /\ scopes \in Seq(SUBSET Known(fn)) /\ n \in Nat /\ n >= 2 /\ DOMAIN scopes = 1..n
             /\ Closes(rest, n - 2) /\ 1 \in DOMAIN rest
             /\ Shielded(Tail(rest)) /\ Tail(rest) \in Seq(Item(fn))
             /\ \A j \in DOMAIN Tail(rest) : j + 1 \in DOMAIN rest /\ Tail(rest)[j] = rest[j + 1]
             /\ \A j \in DOMAIN rest : j # 1 => j - 1 \in DOMAIN Tail(rest) /\ Tail(rest)[j - 1] = rest[j]
  <2>1. PositionOk(fn) /\ Underway(fn, rest, scopes)
    BY <1>2, ShapeUnderway
  <2>2. rest \in Seq(Item(fn)) /\ Tail(rest) \in Seq(Item(fn)) /\ 1 \in DOMAIN rest
    BY <1>1, <1>2, <2>1, HeadFacts
  <2>3. /\ Shielded(Tail(rest))
        /\ \A j \in DOMAIN Tail(rest) : j + 1 \in DOMAIN rest /\ Tail(rest)[j] = rest[j + 1]
        /\ \A j \in DOMAIN rest : j # 1 => j - 1 \in DOMAIN Tail(rest) /\ Tail(rest)[j - 1] = rest[j]
    BY <1>2, <2>2, ShieldedTail DEF Undeclared
  <2>4. scopes \in Seq(SUBSET Known(fn)) /\ n >= 2 /\ Closes(rest, n - 2)
    BY <2>1 DEF Underway, Scoped
  <2> QED BY <2>1, <2>2, <2>3, <2>4, LenProperties
<1>3. ASSUME Shielded(rest'), fn' = fn,
             (\E j \in DOMAIN rest' : rest'[j].op \in Crossing) =>
                /\ \E j \in DOMAIN rest : rest[j].op \in Crossing
                /\ scopes'[Len(scopes') - 1] = scopes[n - 1]
      PROVE  Undeclared'
  BY <1>3 DEF Undeclared
<1>4. CASE Enter
  <2>1. rest' = Emitted(fn) /\ scopes' = <<{}>> \o scopes /\ rest # << >> /\ rest[1].op = "enter"
    BY <1>4 DEF Enter
  <2>2. scopes = <<Header(fn)>>
    <3>1. ~Underway(fn, rest, scopes)
      <4> SUFFICES ASSUME rest \in Seq(Item(fn)) PROVE FALSE
        BY DEF Underway
      <4>1. rest[1] \in Item(fn)
        BY <2>1, EmptySeq, ElementOfSeq
      <4> QED BY <1>1, <2>1, <4>1, ItemFacts, OpsFacts
    <3> QED BY <3>1 DEF Shape, AtDoor
  <2>3. Len(scopes') = 2 /\ scopes'[1] = {}
    <3> DEFINE h == Header(fn)
    <3>1. scopes' = <<{}>> \o <<h>>
      BY <2>1, <2>2
    <3> HIDE DEF h
    <3> QED BY <3>1
  <2>4. Shielded(rest')
    BY <1>1, <2>1, ShieldedEmitted
  <2> QED BY <2>3, <2>4 DEF Undeclared
<1>5. CASE Open
  <2>1. /\ rest # << >> /\ rest[1].op \in {"block", "pre"} /\ fn' = fn
        /\ rest' = rest[1].kids \o <<Gen("close", << >>, "")>> \o Tail(rest) /\ scopes' = <<{}>> \o scopes
    BY <1>5 DEF Open
  <2> DEFINE t == Tail(rest)
             c == <<Closing>> \o t
             ks == rest[1].kids
  <2>2. /\ Underway(fn, rest, scopes) /\ t \in Seq(Item(fn)) /\ Shielded(t) /\ n \in Nat /\ n >= 2
        /\ scopes \in Seq(SUBSET Known(fn)) /\ PositionOk(fn) /\ rest[1].op \in Ops
        /\ \A j \in DOMAIN t : j + 1 \in DOMAIN rest /\ t[j] = rest[j + 1]
    BY <1>2, <2>1 DEF Ops
  <2>3. /\ ks \in Seq(Item(fn)) /\ \A i \in DOMAIN ks : ks[i].op \notin Crossing
    <3>1. /\ rest[1] \in Inside(fn.body)
          /\ \A i \in DOMAIN ks : ks[i] \in Inside(fn.body) /\ ks[i].op \in Ops
      BY <1>1, <2>1, <2>2, HeadFacts
    <3>2. ks \in Seq(Inside(fn.body)) /\ Inside(fn.body) \subseteq Item(fn)
      BY <1>1, <3>1, BodyFacts DEF Item
    <3> QED BY <3>1, <3>2, OpsFacts DEF Crossing
  <2>4. Closing \in Item(fn) /\ Closing.op = "close"
    BY DEF Item, Closing, Gen
  <2>5. rest' = ks \o c
    <3>1. <<Closing>> \in Seq(Item(fn))
      BY <2>4
    <3>2. rest' = ks \o <<Closing>> \o t
      BY <2>1 DEF Closing
    <3> HIDE DEF t, ks
    <3>3. ks \o <<Closing>> \o t = ks \o c
      BY <2>2, <2>3, <3>1, ConcatAssociative
    <3> QED BY <3>2, <3>3
  <2>6. /\ c \in Seq(Item(fn)) /\ c[1] = Closing /\ DOMAIN c = 1..Len(t) + 1
        /\ \A i \in DOMAIN t : i + 1 \in DOMAIN c /\ c[i + 1] = t[i]
        /\ \A i \in DOMAIN c : i # 1 => i - 1 \in DOMAIN t /\ c[i] = t[i - 1]
    BY <2>2, <2>4, FrontFacts
  <2>7. Len(t) \in Nat
    BY <2>2, LenProperties
  <2> HIDE DEF t, c, ks
  <2>8. \A j \in DOMAIN c : c[j].op \in Crossing => 1 \in DOMAIN c /\ 1 < j /\ c[1].op = "close"
    BY <2>4, <2>6, <2>7 DEF Crossing
  <2>9. Shielded(c)
    <3> SUFFICES ASSUME NEW i \in DOMAIN c, NEW j \in DOMAIN c, i < j, c[j].op \in Crossing,
                        c[i].op \notin Crossing \cup {"close", "pre"}
                 PROVE  \E k \in DOMAIN c : i < k /\ k < j /\ c[k].op = "close"
      BY DEF Shielded
    <3>1. i # 1 /\ j # 1
      BY <2>4, <2>6, <2>7
    <3>2. i - 1 \in DOMAIN t /\ j - 1 \in DOMAIN t /\ c[i] = t[i - 1] /\ c[j] = t[j - 1] /\ i - 1 < j - 1
      BY <2>6, <2>7, <3>1
    <3>3. PICK k \in DOMAIN t : i - 1 < k /\ k < j - 1 /\ t[k].op = "close"
      BY <2>2, <3>2 DEF Shielded
    <3>4. k + 1 \in DOMAIN c /\ i < k + 1 /\ k + 1 < j /\ c[k + 1] = t[k]
      <4>1. k \in Nat
        BY <2>2, LenProperties
      <4> QED BY <2>6, <2>7, <3>3, <4>1
    <3> QED BY <3>3, <3>4
  <2>10. /\ Shielded(ks \o c)
         /\ \A i \in DOMAIN (ks \o c) : (ks \o c)[i].op \in Crossing => \E j \in DOMAIN c : c[j].op \in Crossing
    BY <2>3, <2>6, <2>8, <2>9, ShieldedConcat
  <2>11. (\E j \in DOMAIN c : c[j].op \in Crossing) => \E j \in DOMAIN rest : rest[j].op \in Crossing
    BY <2>2, <2>6, <2>8, <2>4 DEF Crossing
  <2>12. scopes'[Len(scopes') - 1] = scopes[n - 1]
    <3>1. /\ Len(<<{}>> \o scopes) = n + 1 /\ DOMAIN scopes = 1..n
          /\ \A i \in DOMAIN scopes : (<<{}>> \o scopes)[i + 1] = scopes[i]
      <4>1. {} \in SUBSET Known(fn)
        OBVIOUS
      <4> QED BY <2>2, <4>1, FrontFacts, LenProperties
    <3> HIDE DEF n
    <3>2. n - 1 \in DOMAIN scopes /\ (n - 1) + 1 = (n + 1) - 1
      BY <2>2, <3>1
    <3>3. (<<{}>> \o scopes)[(n + 1) - 1] = scopes[n - 1]
      BY <3>1, <3>2
    <3> QED BY <2>1, <3>1, <3>3
  <2> QED BY <1>3, <2>1, <2>5, <2>10, <2>11, <2>12
<1>6. CASE Close
  <2>1. rest # << >> /\ rest[1].op = "close" /\ fn' = fn /\ rest' = Tail(rest) /\ scopes' = Tail(scopes)
    BY <1>6 DEF Close
  <2>2. /\ Underway(fn, rest, scopes) /\ rest \in Seq(Item(fn)) /\ Shielded(Tail(rest)) /\ n \in Nat /\ n >= 2
        /\ scopes \in Seq(SUBSET Known(fn)) /\ Closes(rest, n - 2)
        /\ \A j \in DOMAIN Tail(rest) : j + 1 \in DOMAIN rest /\ Tail(rest)[j] = rest[j + 1]
    BY <1>2, <2>1
  <2>3. n - 2 >= 1
    <3>1. n - 2 \in Nat
      BY <2>2
    <3> QED BY <2>1, <2>2, <3>1, ClosersTail
  <2>4. Len(scopes') = n - 1 /\ \A i \in 1..n - 1 : scopes'[i] = scopes[i + 1]
    <3>1. scopes # << >>
      BY <2>2, EmptySeq
    <3> QED BY <2>1, <2>2, <3>1, HeadTailProperties
  <2> HIDE DEF n
  <2>5. n - 2 \in 1..n - 1 /\ (n - 2) + 1 = n - 1 /\ (n - 1) - 1 = n - 2
    BY <2>2, <2>3
  <2>6. scopes'[Len(scopes') - 1] = scopes[n - 1]
    BY <2>4, <2>5
  <2> QED BY <1>3, <2>1, <2>2, <2>6
<1>7. CASE Declare
  <2>1. /\ rest # << >> /\ rest[1].op = "declare" /\ fn' = fn /\ rest' = Tail(rest)
        /\ \E d : scopes' = [scopes EXCEPT ![1] = @ \cup {d}]
    BY <1>7 DEF Declare, Declaring
  <2>2. /\ rest \in Seq(Item(fn)) /\ Shielded(Tail(rest)) /\ n \in Nat /\ n >= 2 /\ 1 \in DOMAIN rest
        /\ scopes \in Seq(SUBSET Known(fn)) /\ DOMAIN scopes = 1..n /\ Closes(rest, n - 2)
        /\ \A j \in DOMAIN Tail(rest) : j + 1 \in DOMAIN rest /\ Tail(rest)[j] = rest[j + 1]
    BY <1>2, <2>1
  <2> HIDE DEF n
  <2>3. ASSUME NEW j \in DOMAIN rest, rest[j].op \in Crossing PROVE n - 1 # 1
    <3>1. 1 < j
      <4>1. j # 1 /\ j \in Nat \ {0}
        BY <2>1, <2>2, <2>3, LenProperties DEF Crossing
      <4> QED BY <4>1
    <3>2. PICK k \in DOMAIN rest : rest[k].op = "close"
      BY <2>1, <2>2, <2>3, <3>1 DEF Undeclared, Shielded, Crossing
    <3>3. Len(rest) - k \in Closers(rest)
      BY <3>2 DEF Closers
    <3>4. n - 2 # 0
      BY <2>2, <3>3, FS_EmptySet DEF Closes
    <3> QED BY <2>2, <3>4
  <2>4. Len(scopes') = n /\ \A i \in DOMAIN scopes : i # 1 => scopes'[i] = scopes[i]
    <3>1. PICK d : scopes' = [scopes EXCEPT ![1] = @ \cup {d}]
      BY <2>1
    <3>2. DOMAIN scopes' = 1..n
      BY <2>2, <3>1
    <3>3. Len(scopes') = n
      BY <2>2, <3>1, <3>2 DEF n
    <3> QED BY <3>1, <3>3
  <2>5. n - 1 \in DOMAIN scopes
    BY <2>2
  <2> QED BY <1>3, <2>1, <2>2, <2>3, <2>4, <2>5
<1>8. CASE Evaluate
  <2>1. /\ rest # << >> /\ rest[1].op # "enter" /\ fn' = fn /\ rest' = Tail(rest) /\ scopes' = scopes
    BY <1>8 DEF Evaluate
  <2> QED BY <1>2, <1>3, <2>1
<1>9. CASE Branch
  <2>1. /\ rest # << >> /\ rest[1].op \in {"if", "loop"} /\ fn' = fn /\ scopes' = scopes
        /\ \/ rest' = Tail(rest)
           \/ \E i \in 2..Len(rest[1].kids) : \E t \in {rest, Tail(rest)} : rest' = <<rest[1].kids[i]>> \o t
    BY <1>9 DEF Branch
  <2>2. /\ Underway(fn, rest, scopes) /\ PositionOk(fn) /\ rest \in Seq(Item(fn)) /\ Tail(rest) \in Seq(Item(fn))
        /\ Shielded(Tail(rest)) /\ 1 \in DOMAIN rest /\ rest[1].op \in Ops
        /\ \A j \in DOMAIN Tail(rest) : j + 1 \in DOMAIN rest /\ Tail(rest)[j] = rest[j + 1]
        /\ \A j \in DOMAIN rest : j # 1 => j - 1 \in DOMAIN Tail(rest) /\ Tail(rest)[j - 1] = rest[j]
    BY <1>2, <2>1 DEF Ops
  <2>3. CASE rest' = Tail(rest)
    BY <1>3, <2>1, <2>2, <2>3
  <2>4. ASSUME NEW i \in 2..Len(rest[1].kids), NEW t \in {rest, Tail(rest)}, rest' = <<rest[1].kids[i]>> \o t
        PROVE  Undeclared'
    <3> DEFINE k == rest[1].kids[i]
               ks == <<k>>
    <3>1. k \in Item(fn) /\ k.op \notin Crossing
      <4>1. /\ rest[1] \in Inside(fn.body)
            /\ \A j \in DOMAIN rest[1].kids : rest[1].kids[j] \in Inside(fn.body) /\ rest[1].kids[j].op \in Ops
        BY <1>1, <2>1, <2>2, HeadFacts
      <4>2. i \in DOMAIN rest[1].kids
        <5>1. rest[1].kids \in Seq(Inside(fn.body))
          BY <1>1, <4>1, BodyFacts
        <5> QED BY <5>1, LenProperties
      <4> QED BY <4>1, <4>2, OpsFacts DEF Item, Crossing
    <3> HIDE DEF k
    <3>2. ks \in Seq(Item(fn)) /\ \A j \in DOMAIN ks : ks[j].op \notin Crossing
      BY <3>1
    <3> HIDE DEF ks
    <3>3. ASSUME NEW j \in DOMAIN rest, rest[j].op \in Crossing
          PROVE  \E h \in DOMAIN rest : 1 < h /\ h < j /\ rest[h].op = "close"
      <4>1. 1 < j
        <5>1. j # 1 /\ j \in Nat \ {0}
          BY <2>1, <2>2, <3>3, LenProperties DEF Crossing
        <5> QED BY <5>1
      <4> QED BY <2>1, <2>2, <3>3, <4>1 DEF Undeclared, Shielded, Crossing
    <3>4. /\ t \in Seq(Item(fn)) /\ Shielded(t)
          /\ \A j \in DOMAIN t : t[j].op \in Crossing => \E h \in DOMAIN t : h < j /\ t[h].op = "close"
          /\ (\E j \in DOMAIN t : t[j].op \in Crossing) => \E j \in DOMAIN rest : rest[j].op \in Crossing
      <4>1. CASE t = rest
        BY <2>2, <3>3, <4>1 DEF Undeclared
      <4>2. CASE t = Tail(rest)
        <5>1. ASSUME NEW j \in DOMAIN t, t[j].op \in Crossing
              PROVE  \E h \in DOMAIN t : h < j /\ t[h].op = "close"
          <6>1. j + 1 \in DOMAIN rest /\ rest[j + 1].op \in Crossing
            BY <2>2, <4>2, <5>1
          <6>2. PICK h \in DOMAIN rest : 1 < h /\ h < j + 1 /\ rest[h].op = "close"
            BY <3>3, <6>1
          <6>3. h \in Nat /\ j \in Nat
            BY <2>2, <4>2, LenProperties
          <6>4. h - 1 \in DOMAIN t /\ t[h - 1] = rest[h] /\ h - 1 < j
            <7>1. h # 1 /\ h - 1 < j
              BY <6>2, <6>3
            <7>2. h - 1 \in DOMAIN Tail(rest) /\ Tail(rest)[h - 1] = rest[h]
              BY <2>2, <6>2, <7>1
            <7> QED BY <4>2, <7>1, <7>2
          <6> QED BY <6>2, <6>4
        <5> QED BY <2>2, <4>2, <5>1
      <4> QED BY <4>1, <4>2
    <3>5. /\ Shielded(ks \o t)
          /\ \A j \in DOMAIN (ks \o t) : (ks \o t)[j].op \in Crossing => \E h \in DOMAIN t : t[h].op \in Crossing
      BY <3>2, <3>4, ShieldedConcat
    <3>6. rest' = ks \o t
      BY <2>4 DEF k, ks
    <3> QED BY <1>3, <2>1, <3>4, <3>5, <3>6
  <2> QED BY <2>1, <2>3, <2>4
<1>10. ASSUME rest # << >>, rest[1].op \in Crossing, fn' = fn, rest' = Tail(rest),
              scopes' = [scopes EXCEPT ![1] = @ \cup {Ready(x) : x \in Range(rest[1].of)}]
       PROVE  Undeclared'
  <2>1. /\ Underway(fn, rest, scopes) /\ PositionOk(fn) /\ Shielded(Tail(rest)) /\ 1 \in DOMAIN rest
        /\ rest \in Seq(Item(fn)) /\ scopes \in Seq(SUBSET Known(fn)) /\ DOMAIN scopes = 1..n
    BY <1>2, <1>10 DEF Crossing
  <2>2. n = 2
    BY <1>1, <1>10, <2>1, CrossKeeps
  <2>3. scopes[1] \subseteq Readied(fn)
    BY <1>10, <2>1, <2>2 DEF Undeclared
  <2>4. {Ready(x) : x \in Range(rest[1].of)} \subseteq Readied(fn)
    <3>1. rest[1] \in Item(fn)
      BY <2>1, ElementOfSeq, LenProperties
    <3>2. \A x \in Range(rest[1].of) : x \in Names(Managed(fn))
      BY <1>1, <1>10, <3>1, CrossingFacts
    <3> QED BY <3>2 DEF Readied
  <2>5. Len(scopes') = 2 /\ scopes'[1] \subseteq Readied(fn)
    <3> DEFINE D == {Ready(x) : x \in Range(rest[1].of)}
    <3>1. D \subseteq Readied(fn) /\ scopes' = [scopes EXCEPT ![1] = @ \cup D]
      BY <1>10, <2>4
    <3> HIDE DEF D
    <3>2. DOMAIN scopes' = 1..2 /\ scopes'[1] = scopes[1] \cup D
      BY <2>1, <2>2, <3>1
    <3>3. Len(scopes') = 2
      BY <2>1, <2>2, <3>1, <3>2
    <3> QED BY <2>3, <3>1, <3>2, <3>3
  <2>6. scopes'[Len(scopes') - 1] \subseteq Readied(fn')
    BY <1>10, <2>5
  <2>7. Shielded(rest')
    BY <1>10, <2>1
  <2> QED BY <2>6, <2>7 DEF Undeclared
<1>11. CASE Verify
  BY <1>10, <1>11 DEF Verify, Ready, Crossing
<1>12. CASE Receive
  <2>1. /\ rest # << >> /\ rest[1].op = "receive" /\ fn' = fn /\ rest' = Tail(rest)
        /\ scopes' = [scopes EXCEPT ![1] = @ \cup {Ready(rest[1].of[1])}]
    BY <1>12 DEF Receive, Declaring, Ready
  <2>2. {Ready(rest[1].of[1])} = {Ready(x) : x \in Range(rest[1].of)}
    <3>1. PositionOk(fn) /\ Underway(fn, rest, scopes)
      BY <2>1, ShapeUnderway
    <3>2. rest[1] \in Item(fn)
      BY <1>1, <2>1, <3>1, HeadFacts
    <3>3. PICK q : rest[1].of = <<q.name>>
      BY <1>1, <2>1, <3>2, ItemFacts, OpsFacts
    <3>4. Range(rest[1].of) = {rest[1].of[1]}
      BY <3>3 DEF Range
    <3> QED BY <3>4
  <2> QED BY <1>10, <2>1, <2>2 DEF Crossing
<1>13. CASE UNCHANGED <<fn, rest, scopes>>
  BY <1>13 DEF Undeclared
<1>14. Refuse \/ Return \/ Fall \/ UNCHANGED vars => UNCHANGED <<fn, rest, scopes>>
  BY DEF Refuse, Return, Fall, vars
<1> QED BY <1>4, <1>5, <1>6, <1>7, <1>8, <1>9, <1>11, <1>12, <1>13, <1>14 DEF Next, Over

\* The one verification is of the whole list, by the proof the caller made.
LEMMA ProofAccepted ==
    ASSUME Shape, Unharmed, Undeclared, Running({"verify"})
    PROVE  /\ Now.of = NamesOf(Inputs(fn))
           /\ Means(Now.proof, "emitted", scopes) = <<"param", Now.proof>>
           /\ touched = {}
<1> DEFINE x == ProofOf(fn)
<1>1. ended = "no" /\ rest # << >> /\ rest[1].op = "verify"
  BY DEF Running
<1>2. fn \in Functions /\ PositionOk(fn) /\ Underway(fn, rest, scopes) /\ Accepted(fn)
  BY <1>1, ShapeUnderway DEF Shape
<1>3. 1 \in DOMAIN rest /\ rest[1] \in Item(fn)
  BY <1>1, <1>2, HeadFacts
<1>4. Now.of = NamesOf(Inputs(fn)) /\ Now.proof = x /\ Inputs(fn) # << >>
  BY <1>1, <1>2, <1>3, ItemFacts, OpsFacts DEF Now, Closing, Gen
<1>5. touched = {}
  BY <1>1, <1>3 DEF Unharmed, Pending
<1>6. Len(scopes) = 2
  BY <1>1, <1>2, CrossKeeps DEF Crossing
<1>7. /\ \E d : Found(x, "emitted", Header(fn)) = {d} /\ d.is = <<"param", x>>
      /\ x \notin Names(Managed(fn))
  BY <1>2, <1>4, ProofFound
<1> HIDE DEF x
<1>8. ScopesHave(fn, scopes, x)
  BY <1>2, FoundInScopes
<1>9. /\ scopes \in Seq(SUBSET Known(fn)) /\ DOMAIN scopes = 1..2 /\ scopes[2] = Header(fn)
      /\ Found(x, "emitted", scopes[1]) = scopes[1] \cap {Local(x), Ready(x)}
      /\ Ready(x) \in scopes[1] => x \in Names(Managed(fn))
  BY <1>6, <1>8 DEF ScopesHave
<1>10. Local(x) \notin scopes[1]
  <2>1. scopes[1] \subseteq Readied(fn)
    BY <1>1, <1>3, <1>6 DEF Undeclared, Crossing
  <2>2. \A v : Local(x).by = "both" /\ Ready(v).by = "emitted"
    BY EntryFacts DEF Local, Ready
  <2> QED BY <2>1, <2>2 DEF Readied
<1>11. Found(x, "emitted", scopes[1]) = {}
  BY <1>7, <1>9, <1>10
<1>12. PICK d : Found(x, "emitted", Header(fn)) = {d} /\ d.is = <<"param", x>>
  BY <1>7
<1>13. Means(x, "emitted", scopes) = d.is
  <2>1. 2 \in DOMAIN scopes /\ Found(x, "emitted", scopes[2]) = {d}
    BY <1>9, <1>12
  <2>2. \A j \in DOMAIN scopes : j < 2 => Found(x, "emitted", scopes[j]) = {}
    BY <1>9, <1>11
  <2> QED BY <1>9, <2>1, <2>2, MeansTheOne
<1> QED BY <1>4, <1>5, <1>12, <1>13

LEMMA StepInputsReady ==
    ASSUME Shape, Unharmed, Undeclared, Bound, DeclaredOnce, InputsReady, [Next]_vars
    PROVE  InputsReady'
<1> USE DEF Silent, Uncrossed, InputsReady
<1>1. ASSUME rest # << >>, rest[1].op \in Evaluating, ended = "no" PROVE Astray(Subject) = {}
  BY <1>1, SubjectAgrees
<1>2. CASE Enter
  <2>1. rest # << >> /\ rest[1].op = "enter"
    BY <1>2 DEF Enter, Running
  <2>2. fn \in Functions /\ Accepted(fn)
    BY DEF Shape
  <2>3. ~Underway(fn, rest, scopes)
    <3> SUFFICES ASSUME rest \in Seq(Item(fn)) PROVE FALSE
      BY DEF Underway
    <3>1. rest[1] \in Item(fn)
      BY <2>1, EmptySeq, ElementOfSeq
    <3> QED BY <2>1, <2>2, <3>1, ItemFacts, OpsFacts
  <2>4. scopes = <<Header(fn)>>
    BY <2>3 DEF Shape, AtDoor
  <2>5. \A i \in DOMAIN fn.args : Astray(fn.args[i]) = {}
    BY <2>2, <2>4, ArgumentsAgree
  <2>6. UNION {Astray(fn.args[i]) : i \in DOMAIN fn.args} = {}
    BY <2>5
  <2> QED BY <1>2, <2>6 DEF Enter
<1>3. CASE Open
  BY <1>3 DEF Open
<1>4. CASE Close
  BY <1>4 DEF Close
<1>5. CASE Declare
  <2>1. rest # << >> /\ rest[1].op = "declare" /\ ended = "no"
    BY <1>5 DEF Declare, Running
  <2>2. Astray(Now) = {}
    BY <1>1, <2>1 DEF Evaluating, Subject, Now
  <2> QED BY <1>5, <2>2 DEF Declare
<1>6. CASE Evaluate
  <2>1. rest # << >> /\ rest[1].op \in {"expr", "emit", "asm", "try", "revert"} /\ ended = "no"
    BY <1>6 DEF Evaluate, Running
  <2>2. Astray(Now) = {}
    BY <1>1, <2>1 DEF Evaluating, Subject, Now
  <2> QED BY <1>6, <2>2 DEF Evaluate, Eval
<1>7. CASE Refuse
  BY <1>7 DEF Refuse
<1>8. CASE Branch
  <2>1. rest # << >> /\ rest[1].op \in {"if", "loop"} /\ ended = "no"
    BY <1>8 DEF Branch, Running
  <2>2. Astray(Now.kids[1]) = {}
    BY <1>1, <2>1 DEF Evaluating, Subject, Now
  <2> QED BY <1>8, <2>2 DEF Branch, Eval
<1>9. CASE Verify
  <2>1. /\ Now.of = NamesOf(Inputs(fn))
        /\ Means(Now.proof, "emitted", scopes) = <<"param", Now.proof>>
        /\ touched = {}
    BY <1>9, ProofAccepted DEF Verify
  <2> QED BY <1>9, <2>1 DEF Verify
<1>10. CASE Receive
  BY <1>10 DEF Receive
<1>11. CASE Return
  <2>1. rest # << >> /\ rest[1].op = "return" /\ ended = "no"
    BY <1>11 DEF Return, Running
  <2>2. Astray(Now) = {}
    BY <1>1, <2>1 DEF Evaluating, Subject, Now
  <2> QED BY <1>11, <2>2 DEF Return, Eval
<1>12. CASE Fall
  BY <1>12 DEF Fall
<1>13. CASE UNCHANGED vars
  BY <1>13 DEF vars
<1> QED BY <1>2, <1>3, <1>4, <1>5, <1>6, <1>7, <1>8, <1>9, <1>10, <1>11, <1>12, <1>13 DEF Next, Over

\* In a function that the checks accept every name means what the author meant
\* where he reads it, an input its verified value, and an honest caller's proof
\* is not refused: neither a generated name nor the renamed parameters get in
\* the way.
THEOREM InputsAreReady ==
    ASSUME NoHiddenOverload
    PROVE  Spec /\ []Bound /\ []DeclaredOnce => []InputsReady
<1>1. Init => Shape /\ Unharmed /\ Undeclared /\ InputsReady
  <2>1. Init => InputsReady
    BY DEF Init, InputsReady
  <2> QED BY <2>1, InitShape, InitUnharmed, InitUndeclared
<1>2. Shape /\ Unharmed /\ Undeclared /\ InputsReady /\ Bound /\ DeclaredOnce /\ [Next]_vars
        => (Shape /\ Unharmed /\ Undeclared /\ InputsReady)'
  BY StepShape, StepUnharmed, StepUndeclared, StepInputsReady
<1> QED BY <1>1, <1>2, PTL DEF Spec
=============================================================================
