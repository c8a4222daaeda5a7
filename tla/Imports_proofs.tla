---------------------------- MODULE Imports_proofs ----------------------------
(***************************************************************************)
(* Proofs about Imports: what the outputs import, what solc is given, what *)
(* is reported as missing and what the self-check makes of it, for every   *)
(* unit, every set of libraries and every directory.                       *)
(***************************************************************************)
EXTENDS Imports, SequenceTheorems, WellFoundedInduction, TLAPS

-----------------------------------------------------------------------------
(* Sequences and numbers.                                                  *)

\* The library states this with an operator for "<", which no prover takes.
NatLess == {ss \in Nat \X Nat : ss[1] < ss[2]}

LEMMA Least ==
    ASSUME NEW T \in SUBSET Nat, T # {}
    PROVE  \E x \in T : \A y \in T : x <= y
<1>1. IsWellFoundedOn(NatLess, Nat)
  BY NatLessThanWellFounded DEF OpToRel, NatLess
<1>2. PICK x \in T : \A y \in T : ~(<<y, x>> \in NatLess)
  BY <1>1, WFMin
<1>3. ASSUME NEW y \in T PROVE x <= y
  <2>1. x \in Nat /\ y \in Nat /\ <<y, x>> \in Nat \X Nat
    OBVIOUS
  <2>2. ~(y < x)
    BY <1>2, <2>1 DEF NatLess
  <2> QED BY <2>1, <2>2
<1> QED BY <1>3

\* Induction up to a number: the library's takes an operator, this a set.
LEMMA InductionTo ==
    ASSUME NEW n \in Nat, NEW S, 0 \in S, \A i \in 1..n : i - 1 \in S => i \in S
    PROVE  \A i \in 0..n : i \in S
<1> DEFINE Bad == {i \in 0..n : i \notin S}
<1>1. SUFFICES ASSUME Bad # {} PROVE FALSE
  OBVIOUS
<1>2. Bad \in SUBSET Nat
  OBVIOUS
<1>3. PICK m \in Bad : \A k \in Bad : m <= k
  <2> HIDE DEF Bad
  <2> QED BY <1>1, <1>2, Least
<1>4. m \in 1..n /\ m \notin S /\ m - 1 \in 0..n
  BY <1>3
<1>5. m - 1 \notin Bad
  BY <1>3, <1>4
<1> QED BY <1>4, <1>5

\* A function that starts at a and goes on by g.
Recursion(a, g, n, F) == F = [i \in 0..n |-> IF i = 0 THEN a ELSE g[<<i, F[i - 1]>>]]

LEMMA RecursionExists ==
    ASSUME NEW T, NEW a \in T, NEW n \in Nat, NEW g \in [(1..n) \X T -> T]
    PROVE  \E F \in [0..n -> T] : Recursion(a, g, n, F)
<1> DEFINE Up(k) == \E F \in [0..k -> T] : Recursion(a, g, k, F)
           S == {k \in 0..n : Up(k)}
<1>1. 0 \in S
  <2>1. [i \in 0..0 |-> a] \in [0..0 -> T] /\ Recursion(a, g, 0, [i \in 0..0 |-> a])
    BY DEF Recursion
  <2> QED BY <2>1
<1>2. ASSUME NEW k \in 1..n, k - 1 \in S PROVE k \in S
  <2>1. PICK F \in [0..k - 1 -> T] : Recursion(a, g, k - 1, F)
    BY <1>2
  <2> DEFINE G == [i \in 0..k |-> IF i = k THEN g[<<k, F[k - 1]>>] ELSE F[i]]
  <2>2. \A i \in 0..k - 1 : F[i] = IF i = 0 THEN a ELSE g[<<i, F[i - 1]>>]
    BY <2>1 DEF Recursion
  <2>3. k \in Nat /\ k - 1 \in 0..k - 1 /\ F[k - 1] \in T /\ <<k, F[k - 1]>> \in (1..n) \X T
    BY <2>1
  <2>4. ASSUME NEW i \in 0..k PROVE G[i] = IF i = 0 THEN a ELSE g[<<i, G[i - 1]>>]
    <3>1. CASE i = k
      <4>1. i # 0 /\ i - 1 \in 0..k /\ i - 1 # k
        BY <3>1
      <4>2. G[i] = g[<<i, F[i - 1]>>] /\ G[i - 1] = F[i - 1]
        BY <3>1, <4>1
      <4> QED BY <4>1, <4>2
    <3>2. CASE i # k
      <4>1. i \in 0..k - 1 /\ G[i] = F[i]
        BY <3>2
      <4>2. i # 0 => G[i - 1] = F[i - 1]
        BY <3>2
      <4> QED BY <2>2, <4>1, <4>2
    <3> QED BY <3>1, <3>2
  <2>5. G \in [0..k -> T]
    BY <2>3
  <2>6. G = [i \in 0..k |-> G[i]]
    OBVIOUS
  <2> HIDE DEF G
  <2>7. Recursion(a, g, k, G)
    BY <2>4, <2>6 DEF Recursion
  <2> QED BY <2>5, <2>7
<1> HIDE DEF S
<1>3. n \in S
  BY <1>1, <1>2, InductionTo
<1> QED BY <1>3 DEF S

LEMMA RangeEmpty == Range(<< >>) = {}
<1>1. DOMAIN << >> = {}
  OBVIOUS
<1> QED BY <1>1 DEF Range

LEMMA RangeAppend ==
    ASSUME NEW S, NEW s \in Seq(S), NEW e \in S
    PROVE  Range(Append(s, e)) = Range(s) \cup {e}
<1> DEFINE t == Append(s, e)
<1>1. t \in Seq(S) /\ Len(t) = Len(s) + 1 /\ t[Len(s) + 1] = e
      /\ \A i \in 1..Len(s) : t[i] = s[i]
  BY AppendProperties
<1> HIDE DEF t
<1>2. Range(t) = {t[i] : i \in 1..Len(t)} /\ Range(s) = {s[i] : i \in 1..Len(s)}
  BY <1>1, RangeEquality
<1>3. Len(s) \in Nat
  BY LenProperties
<1> QED BY <1>1, <1>2, <1>3 DEF t

LEMMA RangeButLast ==
    ASSUME NEW S, NEW s \in Seq(S), s # << >>
    PROVE  /\ s[Len(s)] \in S /\ SubSeq(s, 1, Len(s) - 1) \in Seq(S)
           /\ Range(s) = {s[Len(s)]} \cup Range(SubSeq(s, 1, Len(s) - 1))
<1> DEFINE n == Len(s)
           t == SubSeq(s, 1, n - 1)
<1>1. n \in Nat /\ n >= 1 /\ \A i \in 1..n : s[i] \in S
  BY EmptySeq, ElementOfSeq
<1>2. t \in Seq(S) /\ Len(t) = n - 1 /\ \A i \in 1..n - 1 : t[i] = s[i]
  <2> HIDE DEF n
  <2>1. /\ t \in Seq(S) /\ Len(t) = IF 1 <= n - 1 THEN n - 1 - 1 + 1 ELSE 0
        /\ \A i \in 1..n - 1 - 1 + 1 : t[i] = s[1 + i - 1]
    BY <1>1, SubSeqProperties
  <2>2. n - 1 - 1 + 1 = n - 1 /\ \A i \in 1..n - 1 : 1 + i - 1 = i
    BY <1>1
  <2> HIDE DEF t
  <2> QED BY <1>1, <2>1, <2>2
<1> HIDE DEF t
<1>3. Range(t) = {t[i] : i \in 1..n - 1} /\ Range(s) = {s[i] : i \in 1..n}
  BY <1>2, RangeEquality
<1>4. 1..n = (1..n - 1) \cup {n}
  BY <1>1
<1>5. Range(s) = {s[n]} \cup Range(t)
  <2> HIDE DEF n
  <2> QED BY <1>2, <1>3, <1>4
<1> QED BY <1>1, <1>2, <1>5 DEF t

-----------------------------------------------------------------------------
File   == [path : FilePath, imports : Seq(Directive)]
Want   == [name : FilePath, from : Seq(Name)]
Source == [imports : Seq(Directive), dir : Seq(Name)]

-----------------------------------------------------------------------------
(* Paths.                                                                  *)

LEMMA ClimbType ==
    ASSUME NEW dir \in Seq(Name), NEW n \in Nat
    PROVE  /\ Climb(dir, n) \in Seq(Name)
           /\ Len(Climb(dir, n)) = Larger(0, Len(dir) - n)
           /\ \A i \in 1..Len(dir) - n : Climb(dir, n)[i] = dir[i]
<1> DEFINE k == Larger(0, Len(dir) - n)
<1>1. Len(dir) \in Nat
  BY LenProperties
<1>2. k \in Nat /\ k <= Len(dir) /\ Len(dir) - n <= k
  BY <1>1 DEF Larger
<1>3. \A i \in 1..k : dir[i] \in Name
  BY <1>1, <1>2, ElementOfSeq
<1> HIDE DEF k
<1>4. /\ SubSeq(dir, 1, k) \in Seq(Name)
      /\ Len(SubSeq(dir, 1, k)) = IF 1 <= k THEN k - 1 + 1 ELSE 0
      /\ \A i \in 1..k - 1 + 1 : SubSeq(dir, 1, k)[i] = dir[1 + i - 1]
  BY <1>2, <1>3, SubSeqProperties
<1>5. Climb(dir, n) = SubSeq(dir, 1, k)
  BY DEF Climb, k
<1>6. Len(SubSeq(dir, 1, k)) = k
  BY <1>2, <1>4
<1>7. \A i \in 1..Len(dir) - n : i \in 1..k - 1 + 1 /\ dir[1 + i - 1] = dir[i]
  BY <1>1, <1>2
<1> QED BY <1>4, <1>5, <1>6, <1>7 DEF k

LEMMA ResolveType ==
    ASSUME NEW dir \in Seq(Name), NEW spec \in Specifier
    PROVE  /\ Resolve(dir, spec) \in FilePath
           /\ Resolve(dir, spec).stem = spec.stem
           /\ Resolve(dir, spec).ext = spec.ext
<1> DEFINE up == IF spec.up = 0 THEN << >> ELSE Climb(dir, spec.up - 1)
<1>1. spec.up \in Nat /\ spec.dir \in Seq(Name) /\ spec.stem \in Name /\ spec.ext \in Name
  BY DEF Specifier
<1>2. up \in Seq(Name)
  <2>1. CASE spec.up = 0
    BY <2>1, EmptySeq
  <2>2. CASE spec.up # 0
    <3>1. spec.up - 1 \in Nat
      BY <1>1, <2>2
    <3> QED BY <2>2, <3>1, ClimbType
  <2> QED BY <2>1, <2>2
<1>3. up \o spec.dir \in Seq(Name)
  BY <1>1, <1>2, ConcatProperties
<1> QED BY <1>1, <1>3 DEF Resolve, FilePath

LEMMA SamePath ==
    ASSUME NEW p \in FilePath, NEW q \in FilePath,
           p.dir = q.dir, p.stem = q.stem, p.ext = q.ext
    PROVE  p = q
BY DEF FilePath

\* A specifier that stays inside the project means the same under out.
LEMMA ResolveUnderOut ==
    ASSUME NEW dir \in Seq(Name), NEW spec \in Specifier,
           Relative(spec), spec.up <= Len(dir) + 1
    PROVE  Resolve(<<OutDir>> \o dir, spec).dir = <<OutDir>> \o Resolve(dir, spec).dir
<1> DEFINE out == <<OutDir>>
           n   == spec.up - 1
           c   == Climb(dir, n)
           e   == Climb(out \o dir, n)
<1>1. /\ spec.up \in Nat /\ spec.dir \in Seq(Name) /\ Len(dir) \in Nat
      /\ n \in Nat /\ n <= Len(dir) /\ spec.up # 0
  BY LenProperties DEF Specifier, Relative
<1>2. out \in Seq(Name) /\ Len(out) = 1 /\ out[1] = OutDir
  BY ImportsAssumption DEF OutDir
<1> HIDE DEF out, n
<1>3. /\ out \o dir \in Seq(Name) /\ Len(out \o dir) = Len(dir) + 1
      /\ \A i \in 1..Len(dir) + 1 : (out \o dir)[i] = IF i <= 1 THEN out[i] ELSE dir[i - 1]
  <2>1. /\ out \o dir \in Seq(Name) /\ Len(out \o dir) = Len(out) + Len(dir)
        /\ \A i \in 1..Len(out) + Len(dir) :
              (out \o dir)[i] = IF i <= Len(out) THEN out[i] ELSE dir[i - Len(out)]
    BY <1>2, ConcatProperties
  <2>2. Len(out) + Len(dir) = Len(dir) + 1
    BY <1>1, <1>2
  <2> QED BY <1>2, <2>1, <2>2
<1>4. /\ c \in Seq(Name) /\ Len(c) = Len(dir) - n
      /\ \A i \in 1..Len(dir) - n : c[i] = dir[i]
  <2>1. Larger(0, Len(dir) - n) = Len(dir) - n
    BY <1>1 DEF Larger
  <2> QED BY <1>1, <2>1, ClimbType
<1>5. /\ e \in Seq(Name) /\ Len(e) = Len(dir) + 1 - n
      /\ \A i \in 1..Len(dir) + 1 - n : e[i] = (out \o dir)[i]
  <2>1. /\ e \in Seq(Name) /\ Len(e) = Larger(0, Len(out \o dir) - n)
        /\ \A i \in 1..Len(out \o dir) - n : e[i] = (out \o dir)[i]
    BY <1>1, <1>3, ClimbType
  <2>2. Len(out \o dir) - n = Len(dir) + 1 - n
    BY <1>1, <1>3
  <2>3. Larger(0, Len(dir) + 1 - n) = Len(dir) + 1 - n
    BY <1>1 DEF Larger
  <2> HIDE DEF e
  <2> QED BY <2>1, <2>2, <2>3
<1> HIDE DEF c, e
<1>6. /\ out \o c \in Seq(Name) /\ Len(out \o c) = 1 + Len(c)
      /\ \A i \in 1..1 + Len(c) : (out \o c)[i] = IF i <= 1 THEN out[i] ELSE c[i - 1]
  <2>1. out \in Seq(Name) /\ c \in Seq(Name)
    BY <1>2, <1>4
  <2>2. /\ out \o c \in Seq(Name) /\ Len(out \o c) = Len(out) + Len(c)
        /\ \A i \in 1..Len(out) + Len(c) :
              (out \o c)[i] = IF i <= Len(out) THEN out[i] ELSE c[i - Len(out)]
    BY <2>1, ConcatProperties
  <2> QED BY <1>2, <2>2
<1>7. e = out \o c
  <2>1. Len(e) = Len(out \o c)
    BY <1>1, <1>4, <1>5, <1>6
  <2>2. ASSUME NEW i \in 1..Len(e) PROVE e[i] = (out \o c)[i]
    <3>1. i \in 1..1 + Len(c) /\ i \in 1..Len(dir) + 1 /\ i \in 1..Len(dir) + 1 - n
      BY <1>1, <1>4, <1>5
    <3>2. i > 1 => i - 1 \in 1..Len(dir) - n
      BY <1>1, <3>1
    <3>3. e[i] = (out \o dir)[i] /\ (out \o dir)[i] = IF i <= 1 THEN out[i] ELSE dir[i - 1]
      BY <1>3, <1>5, <3>1
    <3>4. (out \o c)[i] = IF i <= 1 THEN out[i] ELSE c[i - 1]
      BY <1>6, <3>1
    <3>5. i > 1 => c[i - 1] = dir[i - 1]
      BY <1>4, <3>2
    <3> QED BY <3>1, <3>3, <3>4, <3>5
  <2> QED BY <1>5, <1>6, <2>1, <2>2, SeqEqual
<1>8. Resolve(dir, spec).dir = c \o spec.dir /\ Resolve(out \o dir, spec).dir = e \o spec.dir
  BY <1>1 DEF Resolve, c, e, n
<1>9. (out \o c) \o spec.dir = out \o (c \o spec.dir)
  <2> DEFINE x == spec.dir
  <2>1. out \in Seq(Name) /\ c \in Seq(Name) /\ x \in Seq(Name)
    BY <1>1, <1>2, <1>4
  <2> HIDE DEF x
  <2>2. (out \o c) \o x = out \o (c \o x)
    BY <2>1, ConcatAssociative
  <2> QED BY <2>2 DEF x
<1> QED BY <1>7, <1>8, <1>9 DEF out

LEMMA OutputType ==
    ASSUME NEW p \in FilePath
    PROVE  /\ Output(p) \in FilePath /\ Output(p).dir = p.dir /\ Output(p).stem = p.stem
           /\ Output(p).ext = "sol" /\ (p.ext = "sol" => Output(p) = p)
           /\ Virtual(p) \in FilePath /\ Virtual(p).dir = <<OutDir>> \o p.dir
           /\ Virtual(p).stem = p.stem /\ Virtual(p).ext = "sol"
           /\ Virtual(Output(p)) = Virtual(p)
<1>1. Output(p) \in FilePath /\ Output(p).dir = p.dir /\ Output(p).stem = p.stem
      /\ Output(p).ext = "sol" /\ (p.ext = "sol" => Output(p) = p)
  BY ImportsAssumption DEF Output, FilePath
<1>2. <<OutDir>> \o p.dir \in Seq(Name)
  <2>1. <<OutDir>> \in Seq(Name) /\ p.dir \in Seq(Name)
    BY ImportsAssumption DEF OutDir, FilePath
  <2> QED BY <2>1, ConcatProperties
<1>3. Output(Output(p)) = Output(p)
  BY <1>1 DEF Output, FilePath
<1>4. Virtual(p) \in FilePath /\ Virtual(p).dir = <<OutDir>> \o p.dir
      /\ Virtual(p).stem = p.stem /\ Virtual(p).ext = "sol"
  BY <1>1, <1>2 DEF Virtual, FilePath
<1> QED BY <1>1, <1>3, <1>4 DEF Virtual

LEMMA VirtualInjective ==
    ASSUME NEW p \in FilePath, NEW q \in FilePath, Virtual(p) = Virtual(q)
    PROVE  Output(p) = Output(q)
<1>1. <<OutDir>> \o p.dir = <<OutDir>> \o q.dir /\ p.stem = q.stem
  <2>1. Virtual(p).dir = <<OutDir>> \o p.dir /\ Virtual(p).stem = p.stem
    BY OutputType
  <2>2. Virtual(q).dir = <<OutDir>> \o q.dir /\ Virtual(q).stem = q.stem
    BY OutputType
  <2> QED BY <2>1, <2>2
<1>2. p.dir \in Seq(Name) /\ q.dir \in Seq(Name) /\ <<OutDir>> \in Seq(Name)
  BY ImportsAssumption DEF FilePath, OutDir
<1>3. p.dir = q.dir
  BY <1>1, <1>2, ConcatSimplifications
<1> QED BY <1>1, <1>3 DEF Output, FilePath

-----------------------------------------------------------------------------
(* Lists of imports.                                                       *)

\* What the function in Read is, and the one in FlattenSeq with a start.
Scan(imports, F) ==
    F = [m \in 0..Len(imports) |->
            IF m = 0 THEN << >>
            ELSE IF imports[m].line THEN Append(F[m - 1], imports[m])
            ELSE F[m - 1]]
Join(ss, F) ==
    F = [i \in 1..Len(ss) |-> IF i = 1 THEN ss[i] ELSE F[i - 1] \o ss[i]]

LEMMA ScanExists ==
    ASSUME NEW imports \in Seq(Directive)
    PROVE  \E F : Scan(imports, F)
<1> DEFINE n == Len(imports)
           T == Seq(Directive)
           g == [x \in (1..n) \X T |-> IF imports[x[1]].line THEN Append(x[2], imports[x[1]])
                                       ELSE x[2]]
<1>1. n \in Nat /\ \A m \in 1..n : imports[m] \in Directive
  BY LenProperties, ElementOfSeq
<1>2. << >> \in T
  BY EmptySeq
<1>3. \A m \in 1..n : \A s \in T : Append(s, imports[m]) \in T
  BY <1>1, AppendProperties
<1>4. g \in [(1..n) \X T -> T]
  BY <1>3
<1>5. \A m \in 1..n : \A s \in T : g[<<m, s>>] = IF imports[m].line THEN Append(s, imports[m]) ELSE s
  OBVIOUS
<1> HIDE DEF n, T, g
<1>6. PICK F \in [0..n -> T] : Recursion(<< >>, g, n, F)
  BY <1>1, <1>2, <1>4, RecursionExists
<1>7. F = [m \in 0..n |-> IF m = 0 THEN << >> ELSE g[<<m, F[m - 1]>>]]
  BY <1>6 DEF Recursion
<1>8. \A m \in 0..n : m # 0 => m \in 1..n /\ F[m - 1] \in T
  BY <1>1, <1>6
<1>9. F = [m \in 0..n |-> IF m = 0 THEN << >>
                          ELSE IF imports[m].line THEN Append(F[m - 1], imports[m])
                          ELSE F[m - 1]]
  BY <1>5, <1>7, <1>8
<1> QED BY <1>9 DEF Scan, n

\* import_specs finds every directive that starts its line, and no other.
LEMMA ReadRange ==
    ASSUME NEW imports \in Seq(Directive)
    PROVE  /\ Read(imports) \in Seq(Directive)
           /\ Range(Read(imports)) = {d \in Range(imports) : d.line}
<1> DEFINE n == Len(imports)
           F == CHOOSE F : Scan(imports, F)
           Got(m) == {imports[i] : i \in {j \in 1..m : imports[j].line}}
           S == {m \in 0..n : F[m] \in Seq(Directive) /\ Range(F[m]) = Got(m)}
<1>1. n \in Nat /\ \A m \in 1..n : imports[m] \in Directive
  BY LenProperties, ElementOfSeq
<1>2. Scan(imports, F)
  BY ScanExists
<1>3. Read(imports) = F[n]
  BY DEF Read, Scan
<1> HIDE DEF F
<1>4. F[0] = << >> /\ \A m \in 1..n : F[m] = IF imports[m].line THEN Append(F[m - 1], imports[m])
                                             ELSE F[m - 1]
  <2> HIDE DEF n
  <2>1. F = [m \in 0..n |-> IF m = 0 THEN << >>
                            ELSE IF imports[m].line THEN Append(F[m - 1], imports[m])
                            ELSE F[m - 1]]
    BY <1>2 DEF Scan, n
  <2>2. 0 \in 0..n /\ \A m \in 1..n : m \in 0..n /\ m # 0
    BY <1>1
  <2> QED BY <2>1, <2>2
<1>5. 0 \in S
  <2>1. Got(0) = {}
    OBVIOUS
  <2>2. << >> \in Seq(Directive) /\ 0 \in 0..n
    BY <1>1, EmptySeq
  <2> HIDE DEF Got, n
  <2> QED BY <1>4, <2>1, <2>2, RangeEmpty
<1>6. ASSUME NEW m \in 1..n, m - 1 \in S PROVE m \in S
  <2>1. F[m - 1] \in Seq(Directive) /\ Range(F[m - 1]) = Got(m - 1) /\ m \in 0..n
    BY <1>6
  <2>2. CASE imports[m].line
    <3>1. Got(m) = Got(m - 1) \cup {imports[m]}
      <4>1. {j \in 1..m : imports[j].line} = {j \in 1..m - 1 : imports[j].line} \cup {m}
        BY <1>1, <2>2
      <4> QED BY <4>1
    <3> HIDE DEF Got, n
    <3>2. imports[m] \in Directive /\ F[m] = Append(F[m - 1], imports[m])
      BY <1>1, <1>4, <2>2
    <3>3. F[m] \in Seq(Directive) /\ Range(F[m]) = Range(F[m - 1]) \cup {imports[m]}
      BY <2>1, <3>2, AppendProperties, RangeAppend
    <3> QED BY <2>1, <3>1, <3>3
  <2>3. CASE ~imports[m].line
    <3>1. Got(m) = Got(m - 1)
      <4>1. {j \in 1..m : imports[j].line} = {j \in 1..m - 1 : imports[j].line}
        BY <1>1, <2>3
      <4> QED BY <4>1
    <3> HIDE DEF Got, n
    <3> QED BY <1>4, <2>1, <2>3, <3>1
  <2> QED BY <2>2, <2>3
<1>7. n \in S
  <2> HIDE DEF S, n
  <2>1. n \in Nat /\ \A m \in 1..n : m - 1 \in S => m \in S
    BY <1>1, <1>6
  <2>2. \A m \in 0..n : m \in S
    BY <1>5, <2>1, InductionTo
  <2> QED BY <2>1, <2>2
<1>8. Got(n) = {d \in Range(imports) : d.line}
  BY RangeEquality
<1> QED BY <1>3, <1>7, <1>8

LEMMA JoinExists ==
    ASSUME NEW S, NEW ss \in Seq(Seq(S))
    PROVE  \E F : Join(ss, F)
<1> DEFINE n == Len(ss)
           T == Seq(S)
           g == [x \in (1..n) \X T |-> x[2] \o ss[x[1]]]
<1>1. n \in Nat /\ \A i \in 1..n : ss[i] \in T
  BY LenProperties, ElementOfSeq
<1>2. << >> \in T
  BY EmptySeq
<1>3. \A i \in 1..n : \A s \in T : s \o ss[i] \in T
  BY <1>1, ConcatProperties
<1>4. g \in [(1..n) \X T -> T]
  BY <1>3
<1>5. \A i \in 1..n : \A s \in T : g[<<i, s>>] = s \o ss[i]
  OBVIOUS
<1>6. \A i \in 1..n : << >> \o ss[i] = ss[i]
  BY <1>1, ConcatEmptySeq
<1> HIDE DEF n, T, g
<1>7. PICK F \in [0..n -> T] : Recursion(<< >>, g, n, F)
  BY <1>1, <1>2, <1>4, RecursionExists
<1>8. F = [i \in 0..n |-> IF i = 0 THEN << >> ELSE g[<<i, F[i - 1]>>]]
  BY <1>7 DEF Recursion
<1> DEFINE G == [i \in 1..n |-> F[i]]
<1>9. ASSUME NEW i \in 1..n PROVE G[i] = IF i = 1 THEN ss[i] ELSE G[i - 1] \o ss[i]
  <2>1. i \in 0..n /\ i # 0 /\ i - 1 \in 0..n /\ F[i - 1] \in T
    BY <1>1, <1>7
  <2>2. F[i] = F[i - 1] \o ss[i]
    BY <1>5, <1>8, <2>1
  <2>3. CASE i = 1
    <3>1. F[i - 1] = << >>
      BY <1>8, <2>1, <2>3
    <3> QED BY <1>6, <2>2, <2>3, <3>1
  <2>4. CASE i # 1
    <3>1. i - 1 \in 1..n
      BY <1>1, <2>4
    <3> QED BY <2>2, <2>4, <3>1
  <2> QED BY <2>3, <2>4
<1>10. G = [i \in 1..n |-> G[i]]
  OBVIOUS
<1> HIDE DEF G
<1>11. Join(ss, G)
  BY <1>9, <1>10 DEF Join, n
<1> QED BY <1>11

\* A list of lists, one after the other, holds what they hold.
LEMMA FlattenRange ==
    ASSUME NEW S, NEW ss \in Seq(Seq(S))
    PROVE  /\ FlattenSeq(ss) \in Seq(S)
           /\ Range(FlattenSeq(ss)) = UNION {Range(ss[i]) : i \in DOMAIN ss}
<1> DEFINE n == Len(ss)
           F == CHOOSE F : Join(ss, F)
           Got(i) == UNION {Range(ss[j]) : j \in 1..i}
           Done == {i \in 0..n : i = 0 \/ (F[i] \in Seq(S) /\ Range(F[i]) = Got(i))}
<1>1. n \in Nat /\ DOMAIN ss = 1..n /\ \A i \in 1..n : ss[i] \in Seq(S)
  BY LenProperties, ElementOfSeq
<1>2. CASE n = 0
  <2>1. ss = << >>
    BY <1>2, EmptySeq
  <2>2. FlattenSeq(ss) = << >> /\ DOMAIN ss = {}
    BY <1>1, <1>2, <2>1 DEF FlattenSeq
  <2> QED BY <2>2, RangeEmpty, EmptySeq
<1>3. CASE n # 0
  <2>1. Join(ss, F)
    BY JoinExists
  <2>2. FlattenSeq(ss) = F[n]
    BY <1>3 DEF FlattenSeq, Join
  <2> HIDE DEF F
  <2>3. \A i \in 1..n : F[i] = IF i = 1 THEN ss[i] ELSE F[i - 1] \o ss[i]
    BY <2>1 DEF Join
  <2>4. 0 \in Done
    BY <1>1
  <2>5. ASSUME NEW i \in 1..n, i - 1 \in Done PROVE i \in Done
    <3>1. i \in 0..n /\ ss[i] \in Seq(S)
      BY <1>1
    <3>2. Got(i) = Got(i - 1) \cup Range(ss[i])
      <4>1. 1..i = (1..i - 1) \cup {i}
        BY <1>1
      <4> QED BY <4>1
    <3>3. Got(0) = {}
      OBVIOUS
    <3>4. CASE i = 1
      <4>1. F[i] = ss[i]
        BY <2>3, <3>4
      <4>2. Got(i) = Range(ss[i])
        BY <3>2, <3>3, <3>4
      <4> HIDE DEF Got
      <4> QED BY <3>1, <4>1, <4>2
    <3>5. CASE i # 1
      <4>1. F[i - 1] \in Seq(S) /\ Range(F[i - 1]) = Got(i - 1)
        BY <1>1, <2>5, <3>5
      <4>2. F[i] = F[i - 1] \o ss[i]
        BY <2>3, <3>5
      <4> HIDE DEF Got
      <4>3. F[i] \in Seq(S) /\ Range(F[i]) = Range(F[i - 1]) \cup Range(ss[i])
        BY <3>1, <4>1, <4>2, ConcatProperties, RangeConcatenation
      <4> QED BY <3>1, <3>2, <4>1, <4>3
    <3> QED BY <3>4, <3>5
  <2>6. n \in Done
    <3> HIDE DEF Done, n
    <3>1. n \in Nat /\ \A i \in 1..n : i - 1 \in Done => i \in Done
      BY <1>1, <2>5
    <3>2. \A i \in 0..n : i \in Done
      BY <2>4, <3>1, InductionTo
    <3> QED BY <3>1, <3>2
  <2> QED BY <1>1, <1>3, <2>2, <2>6
<1> QED BY <1>2, <1>3

\* What a text of this name in this directory asks for, as a set.
Asked(v, dir, imports) ==
    {[name |-> Resolve(v.dir, d.spec), from |-> dir] : d \in {e \in Range(imports) : e.line}}

LEMMA WantedRange ==
    ASSUME NEW v \in FilePath, NEW dir \in Seq(Name), NEW imports \in Seq(Directive)
    PROVE  /\ Wanted(v, dir, imports) \in Seq(Want)
           /\ Range(Wanted(v, dir, imports)) = Asked(v, dir, imports)
<1> DEFINE read == Read(imports)
           n == Len(read)
           e(m) == [name |-> Resolve(v.dir, read[m].spec), from |-> dir]
           w == [m \in 1..n |-> e(m)]
<1>1. read \in Seq(Directive) /\ Range(read) = {d \in Range(imports) : d.line}
  BY ReadRange
<1> HIDE DEF read
<1>2. n \in Nat /\ DOMAIN read = 1..n /\ Range(read) = {read[m] : m \in 1..n}
      /\ \A m \in 1..n : read[m] \in Directive
  BY <1>1, LenProperties, ElementOfSeq, RangeEquality
<1>3. v.dir \in Seq(Name)
  BY DEF FilePath
<1>4. \A m \in 1..n : e(m) \in Want
  <2> TAKE m \in 1..n
  <2>1. read[m].spec \in Specifier
    BY <1>2 DEF Directive
  <2>2. Resolve(v.dir, read[m].spec) \in FilePath
    BY <1>3, <2>1, ResolveType
  <2> QED BY <2>2 DEF Want
<1>5. Wanted(v, dir, imports) = w
  BY <1>2 DEF Wanted, read
<1> HIDE DEF n
<1>6. w \in [1..n -> Want]
  <2> HIDE DEF e
  <2> QED BY <1>4
<1>7. w \in Seq(Want)
  BY <1>2, <1>6, SeqDef
<1>8. Range(w) = {e(m) : m \in 1..n}
  BY DEF Range
<1>9. {e(m) : m \in 1..n} = Asked(v, dir, imports)
  BY <1>1, <1>2 DEF Asked
<1> QED BY <1>5, <1>7, <1>8, <1>9

LEMMA RewrittenType ==
    ASSUME NEW p, NEW d \in Directive
    PROVE  /\ Rewritten(p, d) \in Directive /\ Rewritten(p, d).spec \in Specifier
           /\ Rewritten(p, d).quote = d.quote /\ Rewritten(p, d).line = d.line
           /\ Rewritten(p, d).code = d.code
           /\ Rewritten(p, d).spec.up = d.spec.up /\ Rewritten(p, d).spec.dir = d.spec.dir
           /\ Rewritten(p, d).spec.stem = d.spec.stem
           /\ Rewritten(p, d).spec.ext = IF d.code /\ d.quote = "double" /\ d.spec.ext = "fsol"
                                         THEN "sol" ELSE d.spec.ext
<1>1. CASE d.code /\ d.quote = "double" /\ d.spec.ext = "fsol"
  <2>1. Rewritten(p, d) = [d EXCEPT !.spec.ext = "sol"]
    BY <1>1 DEF Rewritten
  <2>2. /\ Rewritten(p, d).spec = [d.spec EXCEPT !.ext = "sol"]
        /\ Rewritten(p, d) = [d EXCEPT !.spec = [d.spec EXCEPT !.ext = "sol"]]
    BY <2>1 DEF Directive
  <2>3. d.spec \in Specifier /\ Rewritten(p, d).spec \in Specifier
    BY <2>2, ImportsAssumption DEF Directive, Specifier
  <2>4. Rewritten(p, d).code = d.code /\ Rewritten(p, d).line = d.line
    BY <2>2 DEF Directive
  <2> QED BY <1>1, <2>2, <2>3, <2>4 DEF Directive, Specifier
<1>2. CASE ~(d.code /\ d.quote = "double" /\ d.spec.ext = "fsol")
  BY <1>2 DEF Rewritten, Directive
<1> QED BY <1>1, <1>2

LEMMA LoweredType ==
    ASSUME NEW u \in Seq(File)
    PROVE  /\ Lowered(u) \in Seq(File) /\ DOMAIN Lowered(u) = DOMAIN u
           /\ Len(Lowered(u)) = Len(u)
           /\ \A n \in DOMAIN u :
                 /\ u[n] \in File /\ Lowered(u)[n] \in File
                 /\ Lowered(u)[n].path = Output(u[n].path)
                 /\ DOMAIN Lowered(u)[n].imports = DOMAIN u[n].imports
                 /\ \A m \in DOMAIN u[n].imports :
                       /\ u[n].imports[m] \in Directive
                       /\ Lowered(u)[n].imports[m] = Rewritten(u[n].path, u[n].imports[m])
<1> DEFINE k == Len(u)
           r(n) == [m \in DOMAIN u[n].imports |-> Rewritten(u[n].path, u[n].imports[m])]
           e(n) == [path |-> Output(u[n].path), imports |-> r(n)]
<1>1. k \in Nat /\ DOMAIN u = 1..k /\ \A n \in 1..k : u[n] \in File
  BY LenProperties, ElementOfSeq
<1>2. ASSUME NEW n \in 1..k
      PROVE  /\ \A m \in DOMAIN u[n].imports : u[n].imports[m] \in Directive
             /\ r(n) \in Seq(Directive) /\ e(n) \in File
  <2>1. u[n].path \in FilePath /\ u[n].imports \in Seq(Directive)
    BY <1>1 DEF File
  <2> DEFINE s == u[n].imports
             p == u[n].path
  <2> HIDE DEF s, p
  <2>2. Len(s) \in Nat /\ DOMAIN s = 1..Len(s) /\ \A m \in 1..Len(s) : s[m] \in Directive
    BY <2>1, LenProperties, ElementOfSeq DEF s
  <2>3. \A m \in 1..Len(s) : Rewritten(p, s[m]) \in Directive
    BY <2>2, RewrittenType
  <2>4. [m \in 1..Len(s) |-> Rewritten(p, s[m])] \in [1..Len(s) -> Directive]
    BY <2>3
  <2>5. [m \in 1..Len(s) |-> Rewritten(p, s[m])] \in Seq(Directive)
    BY <2>2, <2>4, SeqDef
  <2>6. r(n) \in Seq(Directive)
    BY <2>2, <2>5 DEF s, p
  <2>7. Output(u[n].path) \in FilePath
    BY <2>1, OutputType
  <2> HIDE DEF r
  <2> QED BY <2>2, <2>6, <2>7 DEF File, s
<1>3. Lowered(u) = [n \in 1..k |-> e(n)]
  BY <1>1 DEF Lowered
<1> HIDE DEF k
<1>4. [n \in 1..k |-> e(n)] \in [1..k -> File]
  <2> HIDE DEF e
  <2> QED BY <1>2
<1>5. Lowered(u) \in Seq(File) /\ DOMAIN Lowered(u) = 1..k
  BY <1>1, <1>3, <1>4, SeqDef
<1>6. Len(Lowered(u)) = k
  BY <1>1, <1>5, LenProperties
<1>7. \A n \in 1..k : Lowered(u)[n] = e(n)
  BY <1>3
<1> QED BY <1>1, <1>2, <1>5, <1>6, <1>7 DEF k

-----------------------------------------------------------------------------
(* Types, and what is known of the unit and the outputs.                   *)

UnitOK(u) ==
    /\ u \in Seq(File)
    /\ \E paths \in Paths :
          /\ DOMAIN u = DOMAIN paths
          /\ \A n \in DOMAIN u : /\ u[n].path = paths[n]
                                 /\ u[n].imports \in Listed(paths[n])

TInv ==
    /\ UnitOK(unit) /\ disk \in Disks
    /\ stage \in {"bind", "lower", "collect", "close", "self-check", "end"}
    /\ stage \in {"lower", "collect", "close", "self-check"} => ~Unbound(unit)
    /\ stage \in {"collect", "close", "self-check"} => outs = Lowered(unit)
    /\ outs # << >> => outs = Lowered(unit) /\ ~Unbound(unit)
    /\ queue \in Seq(Want)
    /\ \A v \in DOMAIN sources : v \in FilePath /\ sources[v] \in Source

LEMMA UnitInit == Init => UnitOK(unit)
<1> SUFFICES ASSUME Init PROVE UnitOK(unit)
  OBVIOUS
<1>1. PICK paths \in Paths : \E lists \in [DOMAIN paths -> UNION {Listed(p) : p \in ToSet(paths)}] :
         /\ \A n \in DOMAIN paths : lists[n] \in Listed(paths[n])
         /\ unit = [n \in DOMAIN paths |-> [path |-> paths[n], imports |-> lists[n]]]
  BY DEF Init
<1>2. PICK lists :
         /\ \A n \in DOMAIN paths : lists[n] \in Listed(paths[n])
         /\ unit = [n \in DOMAIN paths |-> [path |-> paths[n], imports |-> lists[n]]]
  BY <1>1
<1> DEFINE k == Len(paths)
<1>3. /\ k \in Nat /\ DOMAIN paths = 1..k
      /\ \A n \in 1..k : paths[n] \in FilePath /\ Listed(paths[n]) \subseteq Seq(Directive)
  <2>1. paths \in Seq(FilePath) /\ \A n \in DOMAIN paths : Listed(paths[n]) \subseteq Seq(Directive)
    BY ImportsAssumption
  <2> QED BY <2>1, LenProperties, ElementOfSeq
<1> HIDE DEF k
<1>4. \A n \in 1..k : [path |-> paths[n], imports |-> lists[n]] \in File
  BY <1>2, <1>3 DEF File
<1>5. unit \in [1..k -> File]
  BY <1>2, <1>3, <1>4
<1>6. unit \in Seq(File)
  BY <1>3, <1>5, SeqDef
<1>7. \A n \in DOMAIN unit : unit[n].path = paths[n] /\ unit[n].imports \in Listed(paths[n])
  BY <1>2
<1> QED BY <1>2, <1>6, <1>7 DEF UnitOK

LEMMA DiskType ==
    ASSUME disk \in Disks, NEW dir \in Seq(Name), NEW p \in FilePath, OnDisk(dir, p)
    PROVE  /\ ResolveBare(dir, p) \in DOMAIN disk /\ ResolveBare(dir, p) \in FilePath
           /\ disk[ResolveBare(dir, p)] \in Seq(Directive)
           /\ ResolveBare(dir, p).dir \in Seq(Name)
<1> DEFINE H == Holders(dir, p)
           n == CHOOSE n \in H : \A m \in H : m <= n
<1>1. H \subseteq 0..Len(dir) /\ H # {} /\ Len(dir) \in Nat
  BY LenProperties DEF Holders, OnDisk
<1>2. \E k \in H : \A m \in H : m <= k
  <2> DEFINE up == {Len(dir) - k : k \in H}
  <2>1. up \in SUBSET Nat /\ up # {}
    BY <1>1
  <2> HIDE DEF up
  <2>2. PICK x \in up : \A y \in up : x <= y
    BY <2>1, Least
  <2>3. PICK k \in H : x = Len(dir) - k
    BY DEF up
  <2>4. \A m \in H : Len(dir) - k <= Len(dir) - m
    BY <2>2, <2>3 DEF up
  <2> HIDE DEF H
  <2>5. \A m \in H : m <= k
    BY <1>1, <2>3, <2>4
  <2> QED BY <2>3, <2>5
<1>3. n \in H
  BY <1>2
<1>4. ResolveBare(dir, p) = Candidate(SubSeq(dir, 1, n), p)
  BY DEF ResolveBare
<1> HIDE DEF n
<1>5. ResolveBare(dir, p) \in DOMAIN disk
  BY <1>3, <1>4 DEF Holders
<1> QED BY <1>5, ImportsAssumption DEF FilePath

LEMMA CollectSources ==
    ASSUME TInv, Collect
    PROVE  /\ DOMAIN sources' = {Virtual(outs[n].path) : n \in DOMAIN outs}
           /\ \A v \in DOMAIN sources' : \E n \in DOMAIN outs :
                 /\ v = Virtual(outs[n].path) /\ v \in FilePath
                 /\ sources'[v] = [imports |-> outs[n].imports, dir |-> Root]
                 /\ sources'[v] \in Source
<1> DEFINE D == {Virtual(p) : p \in Files(outs)}
           o(v) == CHOOSE o \in ToSet(outs) : Virtual(o.path) = v
<1>1. sources' = [v \in D |-> [imports |-> o(v).imports, dir |-> Root]]
  BY DEF Collect
<1>2. D = {Virtual(outs[n].path) : n \in DOMAIN outs}
  BY DEF Files
<1>3. outs \in Seq(File) /\ \A n \in DOMAIN outs : outs[n] \in File
  BY LoweredType DEF TInv, Collect, UnitOK
<1>4. ASSUME NEW v \in D
      PROVE  \E n \in DOMAIN outs : o(v) = outs[n] /\ Virtual(outs[n].path) = v
  <2>1. \E x \in ToSet(outs) : Virtual(x.path) = v
    BY <1>2, <1>4 DEF ToSet
  <2>2. o(v) \in ToSet(outs) /\ Virtual(o(v).path) = v
    BY <2>1
  <2> HIDE DEF o
  <2> QED BY <2>2 DEF ToSet
<1>5. Root \in Seq(Name)
  BY ImportsAssumption
<1>6. ASSUME NEW v \in D
      PROVE  \E n \in DOMAIN outs :
                 /\ v = Virtual(outs[n].path) /\ v \in FilePath
                 /\ sources'[v] = [imports |-> outs[n].imports, dir |-> Root]
                 /\ sources'[v] \in Source
  <2>1. PICK n \in DOMAIN outs : o(v) = outs[n] /\ Virtual(outs[n].path) = v
    BY <1>4
  <2>2. outs[n].path \in FilePath /\ outs[n].imports \in Seq(Directive)
    BY <1>3 DEF File
  <2>3. sources'[v] = [imports |-> outs[n].imports, dir |-> Root]
    <3> HIDE DEF o, D
    <3> QED BY <1>1, <2>1
  <2>4. v \in FilePath
    BY <2>1, <2>2, OutputType
  <2>5. sources'[v] \in Source
    BY <1>5, <2>2, <2>3 DEF Source
  <2> QED BY <2>1, <2>3, <2>4, <2>5
<1> HIDE DEF D, o
<1>7. DOMAIN sources' = D
  BY <1>1
<1> QED BY <1>2, <1>6, <1>7

LEMMA CollectQueue ==
    ASSUME TInv, Collect
    PROVE  /\ queue' \in Seq(Want)
           /\ Range(queue') = UNION {Asked(Virtual(outs[n].path), Root, outs[n].imports) : n \in DOMAIN outs}
<1> DEFINE w(n) == Wanted(Virtual(outs[n].path), Root, outs[n].imports)
           ww == [n \in DOMAIN outs |-> w(n)]
<1>1. outs \in Seq(File) /\ \A n \in DOMAIN outs : outs[n] \in File
  BY LoweredType DEF TInv, Collect, UnitOK
<1>2. ASSUME NEW n \in DOMAIN outs
      PROVE  w(n) \in Seq(Want) /\ Range(w(n)) = Asked(Virtual(outs[n].path), Root, outs[n].imports)
  <2>1. outs[n].path \in FilePath /\ outs[n].imports \in Seq(Directive) /\ Root \in Seq(Name)
    BY <1>1, ImportsAssumption DEF File
  <2>2. Virtual(outs[n].path) \in FilePath
    BY <2>1, OutputType
  <2> QED BY <2>1, <2>2, WantedRange
<1>3. Len(outs) \in Nat /\ DOMAIN outs = 1..Len(outs)
  BY <1>1, LenProperties
<1>4. ww \in [1..Len(outs) -> Seq(Want)]
  <2> HIDE DEF w
  <2> QED BY <1>2, <1>3
<1>5. ww \in Seq(Seq(Want))
  BY <1>3, <1>4, SeqDef
<1>6. queue' = FlattenSeq(ww)
  BY DEF Collect
<1>7. DOMAIN ww = DOMAIN outs /\ \A n \in DOMAIN outs : ww[n] = w(n)
  OBVIOUS
<1> HIDE DEF ww
<1>8. queue' \in Seq(Want) /\ Range(queue') = UNION {Range(ww[n]) : n \in DOMAIN ww}
  BY <1>5, <1>6, FlattenRange
<1> HIDE DEF w
<1>9. {Range(ww[n]) : n \in DOMAIN ww}
        = {Asked(Virtual(outs[n].path), Root, outs[n].imports) : n \in DOMAIN outs}
  BY <1>2, <1>7
<1> QED BY <1>8, <1>9

\* What the closure knows after it fetched what the last entry asks for.
LEMMA Fetched ==
    ASSUME TInv, Fetch
    PROVE  \E w \in Want, p \in FilePath :
              /\ w = Last(queue) /\ w \in Range(queue) /\ w.name \notin DOMAIN sources
              /\ p \in DOMAIN disk /\ disk[p] \in Seq(Directive)
              /\ DOMAIN sources' = DOMAIN sources \cup {w.name}
              /\ \A v \in DOMAIN sources : sources'[v] = sources[v]
              /\ sources'[w.name] = [imports |-> disk[p], dir |-> p.dir]
              /\ sources'[w.name] \in Source
              /\ queue' \in Seq(Want)
              /\ Range(queue) = {w} \cup Range(Front(queue))
              /\ Range(queue') = Range(Front(queue)) \cup Asked(w.name, p.dir, disk[p])
<1> DEFINE w == Last(queue)
           p == ResolveBare(w.from, w.name)
<1>1. queue # << >> /\ queue \in Seq(Want)
  BY DEF TInv, Fetch
<1>2. w \in Want /\ Front(queue) \in Seq(Want) /\ Range(queue) = {w} \cup Range(Front(queue))
  BY <1>1, RangeButLast DEF Last, Front
<1>3. /\ w.name \notin DOMAIN sources /\ OnDisk(w.from, w.name)
      /\ sources' = [v \in DOMAIN sources \cup {w.name} |->
                       IF v = w.name THEN [imports |-> disk[p], dir |-> p.dir]
                       ELSE sources[v]]
      /\ queue' = Front(queue) \o Wanted(w.name, p.dir, disk[p])
  BY DEF Fetch
<1>4. w.from \in Seq(Name) /\ w.name \in FilePath /\ disk \in Disks
  BY <1>2 DEF Want, TInv
<1>5. p \in DOMAIN disk /\ p \in FilePath /\ disk[p] \in Seq(Directive) /\ p.dir \in Seq(Name)
  BY <1>3, <1>4, DiskType
<1> HIDE DEF p, w
<1>6. /\ Wanted(w.name, p.dir, disk[p]) \in Seq(Want)
      /\ Range(Wanted(w.name, p.dir, disk[p])) = Asked(w.name, p.dir, disk[p])
  BY <1>4, <1>5, WantedRange
<1>7. /\ queue' \in Seq(Want)
      /\ Range(queue') = Range(Front(queue)) \cup Asked(w.name, p.dir, disk[p])
  BY <1>2, <1>3, <1>6, ConcatProperties, RangeConcatenation
<1>8. /\ DOMAIN sources' = DOMAIN sources \cup {w.name}
      /\ \A v \in DOMAIN sources : sources'[v] = sources[v]
      /\ sources'[w.name] = [imports |-> disk[p], dir |-> p.dir]
  BY <1>3
<1>9. sources'[w.name] \in Source
  BY <1>5, <1>8 DEF Source
<1> QED BY <1>2, <1>3, <1>5, <1>7, <1>8, <1>9 DEF w

LEMMA TypeInit == Init => TInv
<1> SUFFICES ASSUME Init PROVE TInv
  OBVIOUS
<1>1. DOMAIN << >> = {} /\ << >> \in Seq(Want)
  BY EmptySeq
<1> QED BY <1>1, UnitInit DEF Init, TInv

LEMMA TypeStep == TInv /\ [Next]_vars => TInv'
<1> SUFFICES ASSUME TInv, [Next]_vars PROVE TInv'
  OBVIOUS
<1>a. /\ unit' = unit => /\ UnitOK(unit)' /\ (Unbound(unit)' <=> Unbound(unit))
                         /\ Lowered(unit)' = Lowered(unit)
  BY DEF TInv, UnitOK, Unbound, Lowered, Files
<1>b. unit' = unit /\ disk' = disk
  BY DEF Next, Bind, Lower, Collect, Skip, Missing, Fetch, Compile, SelfCheck, vars
<1>c. /\ UnitOK(unit)' /\ (Unbound(unit)' <=> Unbound(unit)) /\ Lowered(unit)' = Lowered(unit)
      /\ disk' \in Disks
  BY <1>a, <1>b DEF TInv
<1>d. queue' \in Seq(Want) /\ \A v \in DOMAIN sources' : v \in FilePath /\ sources'[v] \in Source
  <2>1. CASE Collect
    BY <2>1, CollectQueue, CollectSources
  <2>2. CASE Skip
    <3>1. Front(queue) \in Seq(Want)
      BY <2>2, RangeButLast DEF Skip, Front, TInv
    <3> QED BY <2>2, <3>1 DEF Skip, TInv
  <2>3. CASE Fetch
    <3>1. PICK w \in Want :
             /\ queue' \in Seq(Want) /\ DOMAIN sources' = DOMAIN sources \cup {w.name}
             /\ \A v \in DOMAIN sources : sources'[v] = sources[v]
             /\ sources'[w.name] \in Source
      BY <2>3, Fetched
    <3>2. \A v \in DOMAIN sources' : v \in FilePath /\ sources'[v] \in Source
      BY <3>1 DEF Want, TInv
    <3> QED BY <3>1, <3>2
  <2>4. CASE UNCHANGED <<sources, queue>>
    BY <2>4 DEF TInv
  <2> QED BY <2>1, <2>2, <2>3, <2>4 DEF Next, Bind, Lower, Missing, Compile, SelfCheck, vars
<1>1. CASE Bind
  BY <1>1, <1>c, <1>d DEF TInv, Bind, Stop
<1>2. CASE Lower
  <2>1. stage = "lower" /\ outs' = Lowered(unit) /\ stage' \in {"collect", "self-check"}
    BY <1>2 DEF Lower
  <2> QED BY <1>c, <1>d, <2>1 DEF TInv
<1>3. CASE Collect
  BY <1>3, <1>c, <1>d DEF TInv, Collect
<1>4. CASE Skip
  BY <1>4, <1>c, <1>d DEF TInv, Skip
<1>5. CASE Missing
  BY <1>5, <1>c, <1>d DEF TInv, Missing, Stop
<1>6. CASE Fetch
  BY <1>6, <1>c, <1>d DEF TInv, Fetch
<1>7. CASE Compile
  BY <1>7, <1>c, <1>d DEF TInv, Compile, Stop
<1>8. CASE SelfCheck
  BY <1>8, <1>c, <1>d DEF TInv, SelfCheck, Stop
<1>9. CASE UNCHANGED vars
  BY <1>9, <1>c, <1>d DEF TInv, vars
<1> QED BY <1>1, <1>2, <1>3, <1>4, <1>5, <1>6, <1>7, <1>8, <1>9 DEF Next

\* The lists the driver passes on are lists of imports, of files and of wants.
THEOREM TypeCorrect == Spec => []TInv
BY TypeInit, TypeStep, PTL DEF Spec

-----------------------------------------------------------------------------
(* Nothing is missing from what solc is given.                             *)

\* Every directive of the project and of its libraries starts a line.
OnLines ==
    /\ \A paths \in Paths : \A n \in DOMAIN paths : \A ds \in Listed(paths[n]) :
          \A m \in DOMAIN ds : ds[m].code => ds[m].line
    /\ \A d \in Disks : \A p \in DOMAIN d : \A m \in DOMAIN d[p] : d[p][m].code => d[p][m].line

\* What a text asks for is among the sources or waits to be looked for.
CInv ==
    stage = "close" =>
        \A v \in DOMAIN sources :
            /\ \A d \in Range(sources[v].imports) : d.code => d.line
            /\ \A w \in Asked(v, sources[v].dir, sources[v].imports) :
                  \/ w.name \in DOMAIN sources
                  \/ \E x \in Range(queue) : x.name = w.name

LEMMA ClosureCollect == ASSUME OnLines, TInv, Collect PROVE CInv'
<1>1. outs = Lowered(unit) /\ UnitOK(unit) /\ unit \in Seq(File)
  BY DEF TInv, Collect, UnitOK
<1>2. ASSUME NEW v \in DOMAIN sources'
      PROVE  /\ \A d \in Range(sources'[v].imports) : d.code => d.line
             /\ \A w \in Asked(v, sources'[v].dir, sources'[v].imports) : w \in Range(queue')
  <2>1. PICK n \in DOMAIN outs :
           v = Virtual(outs[n].path) /\ sources'[v] = [imports |-> outs[n].imports, dir |-> Root]
    BY <1>2, CollectSources
  <2>2. sources'[v].dir = Root /\ sources'[v].imports = outs[n].imports
    BY <2>1
  <2>3. Asked(v, sources'[v].dir, sources'[v].imports) \subseteq Range(queue')
    BY <2>1, <2>2, CollectQueue
  <2>4. ASSUME NEW d \in Range(outs[n].imports) PROVE d.code => d.line
    <3>1. PICK m \in DOMAIN outs[n].imports : d = outs[n].imports[m]
      BY <2>4 DEF Range
    <3>2. /\ n \in DOMAIN unit /\ m \in DOMAIN unit[n].imports
          /\ unit[n].imports[m] \in Directive
          /\ d = Rewritten(unit[n].path, unit[n].imports[m])
      BY <1>1, <3>1, LoweredType
    <3>3. unit[n].imports[m].code => unit[n].imports[m].line
      BY <1>1, <3>2 DEF UnitOK, OnLines
    <3> QED BY <3>2, <3>3, RewrittenType
  <2> QED BY <2>2, <2>3, <2>4
<1> QED BY <1>2 DEF CInv

LEMMA ClosureSkip == ASSUME TInv, CInv, Skip PROVE CInv'
<1>1. queue # << >> /\ queue \in Seq(Want) /\ stage = "close"
      /\ Last(queue).name \in DOMAIN sources /\ queue' = Front(queue) /\ sources' = sources
  BY DEF TInv, Skip
<1>2. Range(queue) = {Last(queue)} \cup Range(queue')
  BY <1>1, RangeButLast DEF Last, Front
<1> QED BY <1>1, <1>2 DEF CInv

LEMMA ClosureFetch == ASSUME OnLines, TInv, CInv, Fetch PROVE CInv'
<1>1. PICK w \in Want, p \in FilePath :
         /\ w.name \notin DOMAIN sources
         /\ p \in DOMAIN disk /\ disk[p] \in Seq(Directive)
         /\ DOMAIN sources' = DOMAIN sources \cup {w.name}
         /\ \A v \in DOMAIN sources : sources'[v] = sources[v]
         /\ sources'[w.name] = [imports |-> disk[p], dir |-> p.dir]
         /\ Range(queue) = {w} \cup Range(Front(queue))
         /\ Range(queue') = Range(Front(queue)) \cup Asked(w.name, p.dir, disk[p])
  BY Fetched
<1>2. stage = "close" /\ disk \in Disks
  BY DEF Fetch, TInv
<1>3. ASSUME NEW v \in DOMAIN sources
      PROVE  /\ \A d \in Range(sources'[v].imports) : d.code => d.line
             /\ \A x \in Asked(v, sources'[v].dir, sources'[v].imports) :
                  \/ x.name \in DOMAIN sources'
                  \/ \E y \in Range(queue') : y.name = x.name
  <2>1. sources'[v] = sources[v]
    BY <1>1
  <2>2. /\ \A d \in Range(sources[v].imports) : d.code => d.line
        /\ \A x \in Asked(v, sources[v].dir, sources[v].imports) :
              x.name \in DOMAIN sources \/ \E y \in Range(queue) : y.name = x.name
    BY <1>2 DEF CInv
  <2> QED BY <1>1, <2>1, <2>2
<1>4. \A d \in Range(sources'[w.name].imports) : d.code => d.line
  BY <1>1, <1>2 DEF OnLines, Range
<1>5. \A x \in Asked(w.name, sources'[w.name].dir, sources'[w.name].imports) : x \in Range(queue')
  BY <1>1
<1> QED BY <1>1, <1>3, <1>4, <1>5 DEF CInv

LEMMA ClosureComplete ==
    ASSUME TInv, CInv, stage = "close", queue = << >>, NEW v \in DOMAIN sources
    PROVE  Imported(v) \subseteq DOMAIN sources
<1>1. ASSUME NEW m \in Directives(sources[v].imports)
      PROVE  Resolve(v.dir, sources[v].imports[m].spec) \in DOMAIN sources
  <2> DEFINE d == sources[v].imports[m]
             w == [name |-> Resolve(v.dir, d.spec), from |-> sources[v].dir]
  <2>1. d \in Range(sources[v].imports) /\ d.line
    BY DEF CInv, Range, Directives
  <2>2. w \in Asked(v, sources[v].dir, sources[v].imports)
    BY <2>1 DEF Asked
  <2>3. Range(queue) = {}
    BY RangeEmpty
  <2> HIDE DEF d
  <2>4. w.name \in DOMAIN sources
    BY <2>2, <2>3 DEF CInv
  <2> QED BY <2>4 DEF d
<1> QED BY <1>1 DEF Imported

\* The texts given to solc are closed under import: whatever libraries import,
\* in cycles or not, none of what a text names is left out.
THEOREM ClosureIsClosed == OnLines => (Spec => []NothingMissing)
<1> SUFFICES ASSUME OnLines PROVE Spec => []NothingMissing
  OBVIOUS
<1> DEFINE I == CInv /\ NothingMissing
<1>1. Init => I
  BY DEF Init, CInv, NothingMissing
<1>2. TInv /\ I /\ [Next]_vars => I'
  <2> SUFFICES ASSUME TInv, I, [Next]_vars PROVE I'
    OBVIOUS
  <2>1. CASE Bind \/ Lower \/ SelfCheck
    BY <2>1 DEF Bind, Lower, SelfCheck, Stop, CInv, NothingMissing
  <2>2. CASE Collect
    BY <2>2, ClosureCollect DEF Collect, NothingMissing
  <2>3. CASE Skip
    BY <2>3, ClosureSkip DEF Skip, NothingMissing
  <2>4. CASE Missing
    BY <2>4 DEF Missing, Stop, CInv, NothingMissing
  <2>5. CASE Fetch
    BY <2>5, ClosureFetch DEF Fetch, NothingMissing
  <2>6. CASE Compile
    <3>1. ~\E v \in DOMAIN sources : ~(Imported(v) \subseteq DOMAIN sources)
      BY <2>6, ClosureComplete DEF Compile
    <3> QED BY <2>6, <3>1 DEF Compile, CInv, NothingMissing
  <2>7. CASE UNCHANGED vars
    BY <2>7 DEF vars, CInv, NothingMissing
  <2> QED BY <2>1, <2>2, <2>3, <2>4, <2>5, <2>6, <2>7 DEF Next
<1>3. I => NothingMissing
  OBVIOUS
<1> QED BY <1>1, <1>2, <1>3, TypeCorrect, PTL DEF Spec

-----------------------------------------------------------------------------
(* What is reported as missing is missing.                                 *)

\* Whatever is read as an import, line by line, is a directive: there is no such
\* line in a comment, of the project or of its libraries.
Uncommented ==
    /\ \A paths \in Paths : \A n \in DOMAIN paths : \A ds \in Listed(paths[n]) :
          \A m \in DOMAIN ds : ds[m].line => ds[m].code
    /\ \A d \in Disks : \A p \in DOMAIN d : \A m \in DOMAIN d[p] : d[p][m].line => d[p][m].code

\* No two files of a unit have one output.
OneOutput ==
    \A paths \in Paths : \A m, n \in DOMAIN paths : Output(paths[m]) = Output(paths[n]) => m = n

\* What waits to be looked for is asked for by a text that was found.
EInv ==
    /\ stage = "close" =>
          \A w \in Range(queue) : \E v \in DOMAIN sources :
              w \in Asked(v, sources[v].dir, sources[v].imports)
    /\ stage = "close" =>
          \A v \in DOMAIN sources : \A d \in Range(sources[v].imports) : d.line => d.code
    /\ verdict = "unresolved" => stage = "end"
    /\ ErrorsAreReal

LEMMA WaitingCollect ==
    ASSUME OneOutput, TInv, Collect, NEW w \in Range(queue')
    PROVE  \E v \in DOMAIN sources' : w \in Asked(v, sources'[v].dir, sources'[v].imports)
<1>1. outs = Lowered(unit) /\ UnitOK(unit) /\ unit \in Seq(File)
  BY DEF TInv, Collect, UnitOK
<1>2. PICK n \in DOMAIN outs : w \in Asked(Virtual(outs[n].path), Root, outs[n].imports)
  BY CollectQueue
<1> DEFINE v == Virtual(outs[n].path)
<1>3. v \in DOMAIN sources'
  BY CollectSources
<1>4. PICK k \in DOMAIN outs :
         v = Virtual(outs[k].path) /\ sources'[v] = [imports |-> outs[k].imports, dir |-> Root]
  BY <1>3, CollectSources
<1>5. k = n
  <2>1. /\ n \in DOMAIN unit /\ k \in DOMAIN unit
        /\ outs[n].path = Output(unit[n].path) /\ outs[k].path = Output(unit[k].path)
        /\ unit[n].path \in FilePath /\ unit[k].path \in FilePath
    BY <1>1, LoweredType DEF File
  <2>2. Virtual(Output(unit[n].path)) = Virtual(unit[n].path)
        /\ Virtual(Output(unit[k].path)) = Virtual(unit[k].path)
    BY <2>1, OutputType
  <2>3. Output(unit[n].path) = Output(unit[k].path)
    BY <1>4, <2>1, <2>2, VirtualInjective
  <2>4. PICK paths \in Paths : DOMAIN unit = DOMAIN paths /\ \A i \in DOMAIN unit : unit[i].path = paths[i]
    BY <1>1 DEF UnitOK
  <2> QED BY <2>1, <2>3, <2>4 DEF OneOutput
<1>6. sources'[v].dir = Root /\ sources'[v].imports = outs[n].imports
  BY <1>4, <1>5
<1> QED BY <1>2, <1>3, <1>6

LEMMA WaitingFetch ==
    ASSUME TInv, EInv, Fetch, NEW x \in Range(queue')
    PROVE  \E v \in DOMAIN sources' : x \in Asked(v, sources'[v].dir, sources'[v].imports)
<1>1. PICK w \in Want, p \in FilePath :
         /\ w.name \notin DOMAIN sources
         /\ DOMAIN sources' = DOMAIN sources \cup {w.name}
         /\ \A v \in DOMAIN sources : sources'[v] = sources[v]
         /\ sources'[w.name] = [imports |-> disk[p], dir |-> p.dir]
         /\ Range(queue) = {w} \cup Range(Front(queue))
         /\ Range(queue') = Range(Front(queue)) \cup Asked(w.name, p.dir, disk[p])
  BY Fetched
<1>2. CASE x \in Range(Front(queue))
  <2>1. x \in Range(queue) /\ stage = "close"
    BY <1>1, <1>2 DEF Fetch
  <2>2. PICK v \in DOMAIN sources : x \in Asked(v, sources[v].dir, sources[v].imports)
    BY <2>1 DEF EInv
  <2> QED BY <1>1, <2>2
<1>3. CASE x \in Asked(w.name, p.dir, disk[p])
  <2>1. sources'[w.name].dir = p.dir /\ sources'[w.name].imports = disk[p]
    BY <1>1
  <2> QED BY <1>1, <1>3, <2>1
<1> QED BY <1>1, <1>2, <1>3

LEMMA WaitingMissing == ASSUME TInv, EInv, Missing PROVE ErrorsAreReal'
<1> DEFINE w == Last(queue)
<1>1. /\ queue \in Seq(Want) /\ queue # << >> /\ stage = "close"
      /\ w.name \notin DOMAIN sources /\ (InOutDir(w.name) \/ ~OnDisk(w.from, w.name))
      /\ UNCHANGED <<disk, sources>>
  BY DEF TInv, Missing
<1>2. w \in Range(queue)
  BY <1>1, RangeButLast DEF Last
<1> HIDE DEF w
<1>3. PICK v \in DOMAIN sources : w \in Asked(v, sources[v].dir, sources[v].imports)
  BY <1>1, <1>2 DEF EInv
<1>4. PICK d \in Range(sources[v].imports) :
         d.line /\ w = [name |-> Resolve(v.dir, d.spec), from |-> sources[v].dir]
  BY <1>3 DEF Asked
<1>a. d.code
  BY <1>1, <1>3, <1>4 DEF EInv
<1>5. PICK m \in Directives(sources[v].imports) : d = sources[v].imports[m]
  BY <1>a DEF Range, Directives
<1>6. w.name = Resolve(v.dir, sources[v].imports[m].spec) /\ w.from = sources[v].dir
  BY <1>4, <1>5
<1>7. Unresolvable(v, sources[v].imports[m].spec)
  BY <1>1, <1>6 DEF Unresolvable
<1>8. Unresolvable(v, sources[v].imports[m].spec)'
  BY <1>1, <1>7 DEF Unresolvable, OnDisk, Holders
<1> QED BY <1>1, <1>5, <1>8 DEF ErrorsAreReal

\* The texts of the outputs and of the libraries hold no such lines either.
LEMMA DirectivesCollect ==
    ASSUME Uncommented, TInv, Collect, NEW v \in DOMAIN sources', NEW d \in Range(sources'[v].imports)
    PROVE  d.line => d.code
<1>1. outs = Lowered(unit) /\ UnitOK(unit) /\ unit \in Seq(File)
  BY DEF TInv, Collect, UnitOK
<1>2. PICK n \in DOMAIN outs :
         v = Virtual(outs[n].path) /\ sources'[v] = [imports |-> outs[n].imports, dir |-> Root]
  BY CollectSources
<1>3. PICK m \in DOMAIN outs[n].imports : d = outs[n].imports[m]
  BY <1>2 DEF Range
<1>4. /\ n \in DOMAIN unit /\ m \in DOMAIN unit[n].imports
      /\ unit[n].imports[m] \in Directive
      /\ d = Rewritten(unit[n].path, unit[n].imports[m])
  BY <1>1, <1>3, LoweredType
<1>5. unit[n].imports[m].line => unit[n].imports[m].code
  BY <1>1, <1>4 DEF UnitOK, Uncommented
<1> QED BY <1>4, <1>5, RewrittenType

LEMMA DirectivesFetch ==
    ASSUME Uncommented, TInv, EInv, Fetch,
           NEW v \in DOMAIN sources', NEW d \in Range(sources'[v].imports)
    PROVE  d.line => d.code
<1>1. PICK w \in Want, p \in FilePath :
         /\ p \in DOMAIN disk /\ DOMAIN sources' = DOMAIN sources \cup {w.name}
         /\ \A x \in DOMAIN sources : sources'[x] = sources[x]
         /\ sources'[w.name] = [imports |-> disk[p], dir |-> p.dir]
  BY Fetched
<1>2. stage = "close" /\ disk \in Disks
  BY DEF Fetch, TInv
<1>3. CASE v \in DOMAIN sources
  BY <1>1, <1>2, <1>3 DEF EInv
<1>4. CASE v = w.name
  BY <1>1, <1>2, <1>4 DEF Uncommented, Range
<1> QED BY <1>1, <1>3, <1>4

\* What the gate says is missing is what a directive of a text names that solc
\* was to be given: closure, where no line of a comment looks like a directive
\* (import_specs reads lines).
THEOREM MissingIsAsked == OneOutput /\ Uncommented => (Spec => []ErrorsAreReal)
<1> SUFFICES ASSUME OneOutput, Uncommented PROVE Spec => []ErrorsAreReal
  OBVIOUS
<1>1. Init => EInv
  BY DEF Init, EInv, ErrorsAreReal
<1>2. TInv /\ EInv /\ [Next]_vars => EInv'
  <2> SUFFICES ASSUME TInv, EInv, [Next]_vars PROVE EInv'
    OBVIOUS
  <2>1. CASE Bind \/ Lower \/ SelfCheck \/ Compile
    <3>1. stage' # "close" /\ verdict' # "unresolved"
      BY <2>1 DEF Bind, Lower, SelfCheck, Compile, Stop, EInv
    <3> QED BY <3>1 DEF EInv, ErrorsAreReal
  <2>2. CASE Collect
    <3>1. stage' = "close" /\ verdict' # "unresolved"
      BY <2>2 DEF Collect, EInv
    <3> QED BY <2>2, <3>1, WaitingCollect, DirectivesCollect DEF EInv, ErrorsAreReal
  <2>3. CASE Skip
    <3>1. /\ stage' = "close" /\ stage = "close" /\ verdict' # "unresolved"
          /\ sources' = sources /\ queue' = Front(queue)
          /\ queue \in Seq(Want) /\ queue # << >>
      BY <2>3 DEF Skip, EInv, TInv
    <3>2. Range(queue') \subseteq Range(queue)
      BY <3>1, RangeButLast DEF Front
    <3> QED BY <3>1, <3>2 DEF EInv, ErrorsAreReal
  <2>4. CASE Missing
    BY <2>4, WaitingMissing DEF Missing, Stop, EInv
  <2>5. CASE Fetch
    <3>1. stage' = "close" /\ verdict' # "unresolved"
      BY <2>5 DEF Fetch, EInv
    <3> QED BY <2>5, <3>1, WaitingFetch, DirectivesFetch DEF EInv, ErrorsAreReal
  <2>6. CASE UNCHANGED vars
    BY <2>6 DEF vars, EInv, ErrorsAreReal, Unresolvable, OnDisk, Holders
  <2> QED BY <2>1, <2>2, <2>3, <2>4, <2>5, <2>6 DEF Next
<1>3. EInv => ErrorsAreReal
  BY DEF EInv
<1> QED BY <1>1, <1>2, <1>3, TypeCorrect, PTL DEF Spec

-----------------------------------------------------------------------------
(* The imports of the outputs.                                             *)

\* The relative specifier of a directive is in double quotes (imports.rs rewrites
\* no other) and does not climb out of the project.
Rewritable ==
    \A paths \in Paths : \A n \in DOMAIN paths : \A ds \in Listed(paths[n]) : \A m \in DOMAIN ds :
        ds[m].code /\ Relative(ds[m].spec) =>
            ds[m].quote = "double" /\ ds[m].spec.up <= Len(paths[n].dir) + 1

\* What was bound to a file of the unit names its output, rewritten, next to
\* the source and under out.
LEMMA BoundToOutput ==
    ASSUME Rewritable, UnitOK(unit), ~Unbound(unit),
           NEW n \in DOMAIN unit, NEW m \in Directives(unit[n].imports),
           Relative(unit[n].imports[m].spec)
    PROVE  LET p == unit[n].path
               d == unit[n].imports[m]
               r == Rewritten(p, d)
           IN /\ Resolve(p.dir, d.spec) \in Files(unit)
              /\ r.spec.ext = "sol"
              /\ Resolve(p.dir, r.spec) = Output(Resolve(p.dir, d.spec))
              /\ Resolve(Virtual(Output(p)).dir, r.spec) = Virtual(Output(Resolve(p.dir, d.spec)))
<1> DEFINE p == unit[n].path
           d == unit[n].imports[m]
           r == Rewritten(p, d)
           q == Resolve(p.dir, d.spec)
<1>1. unit \in Seq(File) /\ unit[n] \in File /\ d \in Directive /\ d.code
  BY LoweredType DEF UnitOK, Directives
<1>2. p \in FilePath /\ p.dir \in Seq(Name) /\ d.spec \in Specifier
  BY <1>1 DEF File, FilePath, Directive
<1>3. q \in Files(unit)
  BY DEF Unbound, Directives
<1>4. d.quote = "double" /\ d.spec.up <= Len(p.dir) + 1
  BY DEF UnitOK, Rewritable, Directives
<1>5. q \in FilePath /\ q.ext = d.spec.ext /\ q.stem = d.spec.stem
  BY <1>2, ResolveType
<1>6. d.spec.ext \in {"fsol", "sol"}
  <2>1. PICK k \in DOMAIN unit : q = unit[k].path
    BY <1>3 DEF Files
  <2>2. unit[k].path.ext \in {"fsol", "sol"}
    BY ImportsAssumption DEF UnitOK
  <2> QED BY <1>5, <2>1, <2>2
<1>7. /\ r.spec \in Specifier /\ r.spec.ext = "sol" /\ r.spec.up = d.spec.up
      /\ r.spec.dir = d.spec.dir /\ r.spec.stem = d.spec.stem
  BY <1>1, <1>4, <1>6, RewrittenType
<1>8. Relative(r.spec) /\ r.spec.up <= Len(p.dir) + 1
  BY <1>4, <1>7 DEF Relative
<1> HIDE DEF r
<1>9. \A dir : Resolve(dir, r.spec).dir = Resolve(dir, d.spec).dir
  BY <1>7 DEF Resolve
<1>10. Resolve(p.dir, r.spec) = Output(q)
  <2>1. Resolve(p.dir, r.spec).dir = q.dir
    BY <1>9
  <2>2. /\ Resolve(p.dir, r.spec) \in FilePath
        /\ Resolve(p.dir, r.spec).stem = q.stem /\ Resolve(p.dir, r.spec).ext = "sol"
    BY <1>2, <1>5, <1>7, ResolveType
  <2>3. /\ Output(q) \in FilePath /\ Output(q).dir = q.dir /\ Output(q).stem = q.stem
        /\ Output(q).ext = "sol"
    BY <1>5, OutputType
  <2> HIDE DEF q
  <2> QED BY <2>1, <2>2, <2>3 DEF FilePath
<1>11. Resolve(Virtual(Output(p)).dir, r.spec) = Virtual(Output(q))
  <2> DEFINE v == Virtual(Output(p))
             t == Resolve(v.dir, r.spec)
             z == Virtual(Output(q))
  <2>1. v \in FilePath /\ v.dir = <<OutDir>> \o p.dir
    BY <1>2, OutputType
  <2>2. v.dir \in Seq(Name)
    BY <2>1 DEF FilePath
  <2>3. t.dir = <<OutDir>> \o q.dir
    BY <1>2, <1>7, <1>8, <1>9, <2>1, ResolveUnderOut
  <2>4. t \in FilePath /\ t.stem = q.stem /\ t.ext = "sol"
    BY <1>5, <1>7, <2>2, ResolveType
  <2>5. z \in FilePath /\ z.dir = <<OutDir>> \o q.dir /\ z.stem = q.stem /\ z.ext = "sol"
    BY <1>5, OutputType
  <2> HIDE DEF t, z, q
  <2>6. t = z
    BY <2>3, <2>4, <2>5, SamePath
  <2> QED BY <2>6 DEF t, z
<1> QED BY <1>3, <1>7, <1>10, <1>11 DEF r

\* A relative import of an output names an output.
THEOREM OutputsImport == Rewritable => (Spec => []OutputsImportOutputs)
<1> SUFFICES ASSUME Rewritable PROVE Spec => []OutputsImportOutputs
  OBVIOUS
<1>1. ASSUME TInv, NEW n \in DOMAIN outs, NEW m \in Directives(outs[n].imports),
             Relative(outs[n].imports[m].spec)
      PROVE  Resolve(Virtual(outs[n].path).dir, outs[n].imports[m].spec)
                \in {Virtual(p) : p \in Files(outs)}
  <2>1. outs = Lowered(unit) /\ ~Unbound(unit) /\ UnitOK(unit) /\ unit \in Seq(File)
    <3>1. outs # << >>
      OBVIOUS
    <3> QED BY <1>1, <3>1 DEF TInv, UnitOK
  <2> DEFINE p == unit[n].path
             d == unit[n].imports[m]
             r == Rewritten(p, d)
             q == Resolve(p.dir, d.spec)
  <2>a. /\ n \in DOMAIN unit /\ m \in DOMAIN unit[n].imports /\ d \in Directive
        /\ outs[n].path = Output(p) /\ outs[n].imports[m] = r /\ r.code
    BY <2>1, LoweredType DEF Directives
  <2>2. /\ n \in DOMAIN unit /\ m \in Directives(unit[n].imports) /\ d \in Directive
        /\ outs[n].path = Output(p) /\ outs[n].imports[m] = r
    BY <2>a, RewrittenType DEF Directives
  <2>3. Relative(d.spec)
    BY <1>1, <2>2, RewrittenType DEF Relative
  <2>4. q \in Files(unit) /\ Resolve(Virtual(Output(p)).dir, r.spec) = Virtual(Output(q))
    BY <2>1, <2>2, <2>3, BoundToOutput
  <2>5. PICK k \in DOMAIN unit : q = unit[k].path
    BY <2>4 DEF Files
  <2>6. k \in DOMAIN outs /\ outs[k].path = Output(q)
    BY <2>1, <2>5, LoweredType
  <2>7. Output(q) \in Files(outs)
    BY <2>6 DEF Files
  <2> HIDE DEF q, r, p
  <2> QED BY <2>2, <2>4, <2>7
<1>2. TInv => OutputsImportOutputs
  BY <1>1 DEF OutputsImportOutputs
<1> QED BY <1>2, TypeCorrect, PTL

-----------------------------------------------------------------------------
(* The self-check.                                                         *)

\* In the unit, the relative specifier of a directive names files of the dialect
\* only (a plain .sol is taken for the output of a .fsol), and neither a bare
\* specifier in single quotes nor a line of a comment names an output.
Unmistakable ==
    \A paths \in Paths : \A n \in DOMAIN paths : \A ds \in Listed(paths[n]) : \A m \in DOMAIN ds :
        LET q == Resolve(paths[n].dir, ds[m].spec)
        IN /\ ds[m].code /\ Relative(ds[m].spec) /\ q \in ToSet(paths) => ds[m].spec.ext = "fsol"
           /\ (~Relative(ds[m].spec) /\ ds[m].quote = "single") \/ (ds[m].line /\ ~ds[m].code) =>
                 q \notin {Output(p) : p \in ToSet(paths)}

LEMMA FilesLowered ==
    ASSUME UnitOK(unit), NEW paths \in Paths, DOMAIN unit = DOMAIN paths,
           \A n \in DOMAIN unit : unit[n].path = paths[n]
    PROVE  Files(unit) = ToSet(paths) /\ Files(Lowered(unit)) = {Output(p) : p \in ToSet(paths)}
<1>1. Files(unit) = ToSet(paths)
  BY DEF Files, ToSet
<1>2. DOMAIN Lowered(unit) = DOMAIN unit
      /\ \A n \in DOMAIN unit : Lowered(unit)[n].path = Output(paths[n])
  BY LoweredType DEF UnitOK
<1> QED BY <1>1, <1>2 DEF Files, ToSet

\* unrewrite_imports gives every import back what rewrite_imports takes again,
\* and a relative one what it had.
LEMMA ThereAndBack ==
    ASSUME OnLines, Rewritable, Unmistakable, UnitOK(unit), ~Unbound(unit),
           outs = Lowered(unit),
           NEW n \in DOMAIN unit, NEW m \in DOMAIN unit[n].imports
    PROVE  LET p == unit[n].path
               d == unit[n].imports[m]
               a == Unrewritten(p, outs[n].imports[m])
           IN /\ Rewritten(p, a) = outs[n].imports[m]
              /\ a.code /\ Relative(a.spec) => a.spec = d.spec /\ d.code /\ Relative(d.spec)
<1> DEFINE p == unit[n].path
           d == unit[n].imports[m]
           r == Rewritten(p, d)
           a == Unrewritten(p, r)
           q == Resolve(p.dir, d.spec)
<1>1. /\ unit \in Seq(File) /\ unit[n] \in File /\ d \in Directive
      /\ outs[n].imports[m] = r
  BY LoweredType DEF UnitOK
<1>2. PICK paths \in Paths :
         /\ DOMAIN unit = DOMAIN paths
         /\ \A k \in DOMAIN unit : unit[k].path = paths[k] /\ unit[k].imports \in Listed(paths[k])
  BY DEF UnitOK
<1>3. /\ d.code => d.line
      /\ d.code /\ Relative(d.spec) => d.quote = "double"
      /\ d.code /\ Relative(d.spec) /\ q \in ToSet(paths) => d.spec.ext = "fsol"
      /\ ~Relative(d.spec) /\ d.quote = "single" => q \notin {Output(o) : o \in ToSet(paths)}
      /\ d.line /\ ~d.code => q \notin {Output(o) : o \in ToSet(paths)}
  BY <1>2 DEF OnLines, Rewritable, Unmistakable
<1>4. Files(unit) = ToSet(paths) /\ Files(outs) = {Output(o) : o \in ToSet(paths)}
  BY <1>2, FilesLowered
<1>5. /\ r \in Directive /\ r.quote = d.quote /\ r.line = d.line /\ r.code = d.code
      /\ r.spec.up = d.spec.up /\ r.spec.dir = d.spec.dir /\ r.spec.stem = d.spec.stem
      /\ r.spec.ext = IF d.code /\ d.quote = "double" /\ d.spec.ext = "fsol"
                      THEN "sol" ELSE d.spec.ext
  BY <1>1, RewrittenType
<1>6. d.quote \in {"double", "single"} /\ d.spec \in Specifier /\ r.spec \in Specifier
  BY <1>1, <1>5 DEF Directive
<1>7. CASE d.code /\ Relative(d.spec)
  <2>a. m \in Directives(unit[n].imports)
    BY <1>7 DEF Directives
  <2>1. /\ q \in Files(unit) /\ r.spec.ext = "sol"
        /\ Resolve(p.dir, r.spec) = Output(q)
    BY <1>7, <2>a, BoundToOutput
  <2>2. d.spec.ext = "fsol" /\ d.quote = "double" /\ r.line
    BY <1>3, <1>4, <1>5, <1>7, <2>1
  <2>3. Resolve(p.dir, r.spec) \in Files(outs)
    BY <1>4, <2>1
  <2> HIDE DEF r, q
  <2>4. a = [r EXCEPT !.spec.ext = "fsol"]
    BY <2>1, <2>2, <2>3 DEF Unrewritten
  <2> HIDE DEF d
  <2>5. a.spec = d.spec
    BY <1>5, <1>6, <2>2, <2>4 DEF Specifier, Directive
  <2>6. a.code /\ a.quote = "double" /\ a.spec.ext = "fsol" /\ a = [r EXCEPT !.spec.ext = "fsol"]
    BY <1>5, <1>7, <2>2, <2>4, <2>5 DEF Directive, d
  <2> HIDE DEF a
  <2>7. Rewritten(p, a) = [a EXCEPT !.spec.ext = "sol"]
    BY <2>6 DEF Rewritten
  <2>8. [a EXCEPT !.spec.ext = "sol"] = r
    BY <1>5, <2>1, <2>6 DEF Directive, Specifier
  <2> QED BY <1>1, <1>7, <2>5, <2>7, <2>8 DEF a, r, d
<1>8. CASE d.code /\ ~Relative(d.spec)
  <2>1. ~Relative(a.spec)
    <3>1. a = r \/ a = [r EXCEPT !.spec.ext = "fsol"]
      BY DEF Unrewritten
    <3> HIDE DEF r, a, d
    <3>2. a.spec.up = r.spec.up
      BY <1>5, <3>1 DEF Directive, Specifier
    <3> QED BY <1>5, <1>8, <3>2 DEF Relative
  <2>2. Rewritten(p, a) = r
    <3>1. CASE a = r
      <4>1. ~(r.code /\ r.quote = "double" /\ r.spec.ext = "fsol")
        BY <1>5
      <4> HIDE DEF r, a
      <4> QED BY <3>1, <4>1 DEF Rewritten
    <3>2. CASE a # r
      <4>1. /\ r.spec.ext = "sol" /\ Resolve(p.dir, r.spec) \in Files(outs)
            /\ a = [r EXCEPT !.spec.ext = "fsol"]
        BY <3>2 DEF Unrewritten
      <4>2. d.quote = "double"
        <5>1. ASSUME d.quote = "single" PROVE FALSE
          <6>1. r = d
            BY <5>1 DEF Rewritten
          <6> QED BY <1>3, <1>4, <1>8, <4>1, <5>1, <6>1
        <5> QED BY <1>6, <5>1
      <4> HIDE DEF r, a, d
      <4>3. a.code /\ a.quote = "double" /\ a.spec.ext = "fsol"
        BY <1>5, <1>8, <4>1, <4>2 DEF Directive, Specifier
      <4>4. Rewritten(p, a) = [a EXCEPT !.spec.ext = "sol"]
        BY <4>3 DEF Rewritten
      <4>5. [a EXCEPT !.spec.ext = "sol"] = r
        BY <1>5, <4>1 DEF Directive, Specifier
      <4> QED BY <4>4, <4>5
    <3> QED BY <3>1, <3>2
  <2> QED BY <1>1, <2>1, <2>2 DEF a, r
<1>9. CASE ~d.code
  <2>1. r = d
    BY <1>9 DEF Rewritten
  <2>2. ~(d.line /\ q \in Files(outs))
    BY <1>3, <1>4, <1>9
  <2>3. a = d
    BY <2>1, <2>2 DEF Unrewritten
  <2>4. Rewritten(p, a) = d
    BY <1>9, <2>3 DEF Rewritten
  <2> QED BY <1>1, <1>9, <2>1, <2>3, <2>4 DEF a, r, d
<1> QED BY <1>7, <1>8, <1>9

\* What a build wrote is accepted as its own source and comes out the same.
THEOREM SelfCheckPasses ==
    OnLines /\ Rewritable /\ Unmistakable => (Spec => []SelfCheckAccepts)
<1> SUFFICES ASSUME OnLines, Rewritable, Unmistakable PROVE Spec => []SelfCheckAccepts
  OBVIOUS
<1>1. ASSUME TInv, stage = "self-check"
      PROVE  ~Unbound(Again) /\ Lowered(Again) = outs
  <2>1. outs = Lowered(unit) /\ ~Unbound(unit) /\ UnitOK(unit)
    BY <1>1 DEF TInv
  <2>2. /\ DOMAIN Again = DOMAIN unit
        /\ \A n \in DOMAIN unit :
              /\ Again[n].path = unit[n].path
              /\ DOMAIN Again[n].imports = DOMAIN unit[n].imports
              /\ \A m \in DOMAIN unit[n].imports :
                    Again[n].imports[m] = Unrewritten(unit[n].path, outs[n].imports[m])
    BY <2>1, LoweredType DEF Again, UnitOK
  <2>3. Files(Again) = Files(unit)
    BY <2>2 DEF Files
  <2>4. ~Unbound(Again)
    <3>1. ASSUME NEW n \in DOMAIN unit, NEW m \in DOMAIN unit[n].imports,
                 Again[n].imports[m].code, Relative(Again[n].imports[m].spec)
          PROVE  Resolve(unit[n].path.dir, Again[n].imports[m].spec) \in Files(unit)
      BY <2>1, <2>2, <3>1, ThereAndBack DEF Unbound
    <3> QED BY <2>2, <2>3, <3>1 DEF Unbound
  <2>5. Lowered(Again) = outs
    <3>1. ASSUME NEW n \in DOMAIN unit
          PROVE  [m \in DOMAIN unit[n].imports |-> Rewritten(unit[n].path, Again[n].imports[m])]
                   = [m \in DOMAIN unit[n].imports |-> Rewritten(unit[n].path, unit[n].imports[m])]
      <4>1. ASSUME NEW m \in DOMAIN unit[n].imports
            PROVE  Rewritten(unit[n].path, Again[n].imports[m])
                     = Rewritten(unit[n].path, unit[n].imports[m])
        <5>1. Rewritten(unit[n].path, Again[n].imports[m]) = outs[n].imports[m]
          BY <2>1, <2>2, ThereAndBack
        <5>2. outs[n].imports[m] = Rewritten(unit[n].path, unit[n].imports[m])
          BY <2>1, LoweredType DEF UnitOK
        <5> QED BY <5>1, <5>2
      <4> QED BY <4>1
    <3>2. Lowered(Again)
            = [n \in DOMAIN unit |->
                 [path    |-> Output(unit[n].path),
                  imports |-> [m \in DOMAIN unit[n].imports |->
                                 Rewritten(unit[n].path, Again[n].imports[m])]]]
      BY <2>2 DEF Lowered
    <3> QED BY <2>1, <3>1, <3>2 DEF Lowered
  <2> QED BY <2>4, <2>5
<1>2. Init => SelfCheckAccepts
  BY DEF Init, SelfCheckAccepts
<1>3. TInv /\ SelfCheckAccepts /\ [Next]_vars => SelfCheckAccepts'
  BY <1>1 DEF SelfCheckAccepts, Next, Bind, Lower, Collect, Skip, Missing, Fetch, Compile,
              SelfCheck, Stop, vars
<1> QED BY <1>2, <1>3, TypeCorrect, PTL DEF Spec
=============================================================================
