------------------------------ MODULE Acl_proofs ------------------------------
(***************************************************************************)
(* Proofs about Acl: what the pass finds when it reads its own output, for *)
(* every body an author may write, every number of statements and every    *)
(* set of names and policies.                                              *)
(***************************************************************************)
EXTENDS Acl, SequenceTheorems, FiniteSetTheorems, WellFoundedInduction, TLAPS

-----------------------------------------------------------------------------
(* Sequences and numbers.                                                  *)

\* The library states this with an operator for "<", which no prover takes.
NatLess == {ss \in Nat \X Nat : ss[1] < ss[2]}

\* A set of numbers that is not empty has a least one.
LEMMA Least ==
    ASSUME NEW T \in SUBSET Nat, T # {}
    PROVE  \E x \in T : \A y \in T : x <= y
<1>1. IsWellFoundedOn(NatLess, Nat)
  BY NatLessThanWellFounded DEF OpToRel, NatLess
<1>2. PICK x \in T : \A y \in T : ~(<<y, x>> \in NatLess)
  BY <1>1, WFMin
<1>3. ASSUME NEW y \in T PROVE x <= y
  <2>1. x \in Nat /\ y \in Nat /\ <<y, x>> \in Nat \X Nat
    OBVIOUS
  <2>2. ~(y < x)
    BY <1>2, <2>1 DEF NatLess
  <2> QED BY <2>1, <2>2
<1> QED BY <1>3

\* Induction up to a number: the library's takes an operator, this a set.
LEMMA InductionTo ==
    ASSUME NEW n \in Nat, NEW S, 0 \in S, \A i \in 1..n : i - 1 \in S => i \in S
    PROVE  \A i \in 0..n : i \in S
<1> DEFINE Bad == {i \in 0..n : i \notin S}
<1>1. SUFFICES ASSUME Bad # {} PROVE FALSE
  OBVIOUS
<1>2. Bad \in SUBSET Nat
  OBVIOUS
<1>3. PICK low \in Bad : \A k \in Bad : low <= k
  <2> HIDE DEF Bad
  <2> QED BY <1>1, <1>2, Least
<1>4. low \in 1..n /\ low \notin S /\ low - 1 \in 0..n
  BY <1>3
<1>5. low - 1 \notin Bad
  BY <1>3, <1>4
<1> QED BY <1>4, <1>5

\* A function that starts at a and goes on by g.
Recursion(a, g, n, F) == F = [i \in 0..n |-> IF i = 0 THEN a ELSE g[<<i, F[i - 1]>>]]

\* A step function, taken again and again from a first value, is a function on
\* the numbers: what a recursive definition stands for.
LEMMA RecursionExists ==
    ASSUME NEW T, NEW a \in T, NEW n \in Nat, NEW g \in [(1..n) \X T -> T]
    PROVE  \E F \in [0..n -> T] : Recursion(a, g, n, F)
<1> DEFINE Up(k) == \E F \in [0..k -> T] : Recursion(a, g, k, F)
           S == {k \in 0..n : Up(k)}
<1>1. 0 \in S
  <2>1. [i \in 0..0 |-> a] \in [0..0 -> T] /\ Recursion(a, g, 0, [i \in 0..0 |-> a])
    BY DEF Recursion
  <2> QED BY <2>1
<1>2. ASSUME NEW k \in 1..n, k - 1 \in S PROVE k \in S
  <2>1. PICK F \in [0..k - 1 -> T] : Recursion(a, g, k - 1, F)
    BY <1>2
  <2> DEFINE G == [i \in 0..k |-> IF i = k THEN g[<<k, F[k - 1]>>] ELSE F[i]]
  <2>2. \A i \in 0..k - 1 : F[i] = IF i = 0 THEN a ELSE g[<<i, F[i - 1]>>]
    BY <2>1 DEF Recursion
  <2>3. k \in Nat /\ k - 1 \in 0..k - 1 /\ F[k - 1] \in T /\ <<k, F[k - 1]>> \in (1..n) \X T
    BY <2>1
  <2>4. ASSUME NEW i \in 0..k PROVE G[i] = IF i = 0 THEN a ELSE g[<<i, G[i - 1]>>]
    <3>1. CASE i = k
      <4>1. i # 0 /\ i - 1 \in 0..k /\ i - 1 # k
        BY <3>1
      <4>2. G[i] = g[<<i, F[i - 1]>>] /\ G[i - 1] = F[i - 1]
        BY <3>1, <4>1
      <4> QED BY <4>1, <4>2
    <3>2. CASE i # k
      <4>1. i \in 0..k - 1 /\ G[i] = F[i]
        BY <3>2
      <4>2. i # 0 => G[i - 1] = F[i - 1]
        BY <3>2
      <4> QED BY <2>2, <4>1, <4>2
    <3> QED BY <3>1, <3>2
  <2>5. G \in [0..k -> T]
    BY <2>3
  <2>6. G = [i \in 0..k |-> G[i]]
    OBVIOUS
  <2> HIDE DEF G
  <2>7. Recursion(a, g, k, G)
    BY <2>4, <2>6 DEF Recursion
  <2> QED BY <2>5, <2>7
<1> HIDE DEF S
<1>3. n \in S
  BY <1>1, <1>2, InductionTo
<1> QED BY <1>3 DEF S

\* Elements of a sequence, by their numbers.
LEMMA ElementsOf ==
    ASSUME NEW S, NEW s \in Seq(S)
    PROVE  /\ Elements(s) = {s[i] : i \in 1..Len(s)} /\ DOMAIN s = 1..Len(s)
           /\ Len(s) \in Nat /\ Elements(s) \subseteq S
<1>1. DOMAIN s = 1..Len(s) /\ Len(s) \in Nat
  BY LenProperties
<1> QED BY <1>1, ElementOfSeq DEF Elements

\* Only the empty sequence has no element.
LEMMA ElementsEmpty ==
    ASSUME NEW S, NEW s \in Seq(S)
    PROVE  s = << >> <=> Elements(s) = {}
<1>1. Elements(s) = {s[i] : i \in 1..Len(s)}
  BY ElementsOf
<1>2. CASE s = << >>
  <2>1. 1..Len(s) = {}
    BY <1>2
  <2> QED BY <1>1, <1>2, <2>1
<1>3. CASE s # << >>
  <2>1. 1 \in 1..Len(s)
    BY <1>3, EmptySeq
  <2> QED BY <1>1, <1>3, <2>1
<1> QED BY <1>2, <1>3

\* What Append does to the elements,
LEMMA ElementsAppend ==
    ASSUME NEW S, NEW s \in Seq(S), NEW e \in S
    PROVE  Elements(Append(s, e)) = Elements(s) \cup {e}
<1> DEFINE t == Append(s, e)
<1>1. t \in Seq(S) /\ Len(t) = Len(s) + 1 /\ t[Len(s) + 1] = e
      /\ \A i \in 1..Len(s) : t[i] = s[i]
  BY AppendProperties
<1> HIDE DEF t
<1>2. Elements(t) = {t[i] : i \in 1..Len(t)} /\ Elements(s) = {s[i] : i \in 1..Len(s)}
  BY <1>1, ElementsOf
<1>3. Len(s) \in Nat
  BY LenProperties
<1> QED BY <1>1, <1>2, <1>3 DEF t

\* and what \o does.
LEMMA ElementsConcat ==
    ASSUME NEW S, NEW s \in Seq(S), NEW t \in Seq(S)
    PROVE  s \o t \in Seq(S) /\ Elements(s \o t) = Elements(s) \cup Elements(t)
<1> DEFINE c == s \o t
           len == Len(s)
           n == Len(t)
<1>1. /\ c \in Seq(S) /\ Len(c) = len + n /\ len \in Nat /\ n \in Nat
      /\ \A i \in 1..len + n : c[i] = IF i <= len THEN s[i] ELSE t[i - len]
  BY ConcatProperties, LenProperties
<1>2. /\ Elements(c) = {c[i] : i \in 1..Len(c)} /\ Elements(s) = {s[i] : i \in 1..len}
      /\ Elements(t) = {t[i] : i \in 1..n}
  BY <1>1, ElementsOf
<1> HIDE DEF c, len, n
<1>3. ASSUME NEW x \in Elements(c) PROVE x \in Elements(s) \cup Elements(t)
  <2>1. PICK i \in 1..len + n : x = c[i]
    BY <1>1, <1>2, <1>3
  <2>2. CASE i <= len
    <3>1. i \in 1..len
      BY <1>1, <2>2
    <3> QED BY <1>1, <1>2, <2>1, <2>2, <3>1
  <2>3. CASE ~(i <= len)
    <3>1. i - len \in 1..n
      BY <1>1, <2>3
    <3> QED BY <1>1, <1>2, <2>1, <2>3, <3>1
  <2> QED BY <2>2, <2>3
<1>4. ASSUME NEW i \in 1..len PROVE s[i] \in Elements(c)
  <2>1. i \in 1..len + n /\ i <= len
    BY <1>1
  <2> QED BY <1>1, <1>2, <2>1
<1>5. ASSUME NEW i \in 1..n PROVE t[i] \in Elements(c)
  <2>0. PICK j : j = len + i
    OBVIOUS
  <2>1. j \in 1..len + n /\ ~(j <= len) /\ j - len = i
    BY <1>1, <2>0
  <2>2. c[j] = t[j - len]
    BY <1>1, <2>1
  <2>3. c[j] = t[i]
    BY <2>1, <2>2
  <2>4. c[j] \in Elements(c)
    BY <1>1, <1>2, <2>1
  <2> QED BY <2>3, <2>4
<1>6. Elements(s) \subseteq Elements(c) /\ Elements(t) \subseteq Elements(c)
  BY <1>2, <1>4, <1>5
<1>7. Elements(c) = Elements(s) \cup Elements(t)
  BY <1>3, <1>6
<1> QED BY <1>1, <1>7 DEF c

\* Where the parts of a concatenation begin.
Laid(ss, off) ==
    /\ off \in [0..Len(ss) -> Nat] /\ off[0] = 0
    /\ \A i \in 1..Len(ss) : off[i] = off[i - 1] + Len(ss[i])

LaidOut(ss, off) ==
    /\ Laid(ss, off) /\ Len(Concat(ss)) = off[Len(ss)]
    /\ \A i \in 1..Len(ss) : \A k \in 1..Len(ss[i]) :
          Concat(ss)[off[i - 1] + k] = ss[i][k]

\* Concat lays its sequences one after the other: where each begins and ends.
LEMMA ConcatLaid ==
    ASSUME NEW S, NEW ss \in Seq(Seq(S))
    PROVE  /\ Concat(ss) \in Seq(S)
           /\ \E off \in [0..Len(ss) -> Nat] : LaidOut(ss, off)
<1> DEFINE n == Len(ss)
           upto == CHOOSE f : f = [i \in 0..n |-> IF i = 0 THEN << >> ELSE f[i - 1] \o ss[i]]
           g == [x \in (1..n) \X Seq(S) |-> x[2] \o ss[x[1]]]
<1>1. n \in Nat /\ \A i \in 1..n : ss[i] \in Seq(S)
  BY LenProperties, ElementOfSeq
<1>2. Concat(ss) = upto[n]
  BY DEF Concat
<1> HIDE DEF n
<1>3. << >> \in Seq(S)
  BY EmptySeq
<1>4. g \in [(1..n) \X Seq(S) -> Seq(S)]
  <2>1. \A x \in (1..n) \X Seq(S) : x[2] \o ss[x[1]] \in Seq(S)
    BY <1>1, ConcatProperties
  <2> QED BY <2>1
<1>5. PICK F \in [0..n -> Seq(S)] : Recursion(<< >>, g, n, F)
  <2> HIDE DEF g
  <2> QED BY <1>1, <1>3, <1>4, RecursionExists
<1>6. F = [i \in 0..n |-> IF i = 0 THEN << >> ELSE F[i - 1] \o ss[i]]
  <2>1. \A i \in 0..n : i # 0 => <<i, F[i - 1]>> \in (1..n) \X Seq(S)
    BY <1>1, <1>5
  <2>2. \A i \in 0..n : i # 0 => g[<<i, F[i - 1]>>] = F[i - 1] \o ss[i]
    BY <2>1
  <2>3. F = [i \in 0..n |-> IF i = 0 THEN << >> ELSE g[<<i, F[i - 1]>>]]
    BY <1>5 DEF Recursion
  <2> HIDE DEF g
  <2> QED BY <2>2, <2>3
<1>7. upto = [i \in 0..n |-> IF i = 0 THEN << >> ELSE upto[i - 1] \o ss[i]]
  BY <1>6
<1> HIDE DEF upto, g
<1>8. upto[0] = << >> /\ \A i \in 1..n : upto[i] = upto[i - 1] \o ss[i]
  <2>1. \A i \in 0..n : upto[i] = IF i = 0 THEN << >> ELSE upto[i - 1] \o ss[i]
    BY <1>7, Zenon
  <2>2. 0 \in 0..n /\ \A i \in 1..n : i \in 0..n /\ i # 0
    BY <1>1
  <2> QED BY <2>1, <2>2
<1>9. \A i \in 0..n : upto[i] \in Seq(S)
  <2> DEFINE G == {i \in 0..n : upto[i] \in Seq(S)}
  <2>1. 0 \in G
    <3>1. 0 \in 0..n
      BY <1>1
    <3> QED BY <1>3, <1>8, <3>1
  <2>2. ASSUME NEW i \in 1..n, i - 1 \in G PROVE i \in G
    <3>1. upto[i - 1] \in Seq(S) /\ i \in 0..n
      BY <2>2
    <3>2. upto[i - 1] \o ss[i] \in Seq(S)
      BY <1>1, <3>1, ConcatProperties
    <3> QED BY <1>8, <3>1, <3>2
  <2> HIDE DEF G
  <2>3. \A i \in 0..n : i \in G
    BY <1>1, <2>1, <2>2, InductionTo
  <2> QED BY <2>3 DEF G
<1> DEFINE off == [i \in 0..n |-> Len(upto[i])]
<1>10. off \in [0..n -> Nat]
  BY <1>9, LenProperties
<1>11. off[0] = 0
  BY <1>1, <1>8, EmptySeq
<1>12. ASSUME NEW i \in 1..n
       PROVE  /\ off[i] = off[i - 1] + Len(ss[i])
              /\ \A k \in 1..off[i] : upto[i][k] =
                    IF k <= off[i - 1] THEN upto[i - 1][k] ELSE ss[i][k - off[i - 1]]
  <2>1. i \in 0..n /\ i - 1 \in 0..n
    BY <1>1
  <2>2. upto[i - 1] \in Seq(S) /\ ss[i] \in Seq(S)
    BY <1>1, <1>9, <2>1
  <2>3. /\ Len(upto[i - 1] \o ss[i]) = Len(upto[i - 1]) + Len(ss[i])
        /\ \A k \in 1..Len(upto[i - 1]) + Len(ss[i]) : (upto[i - 1] \o ss[i])[k] =
              IF k <= Len(upto[i - 1]) THEN upto[i - 1][k] ELSE ss[i][k - Len(upto[i - 1])]
    BY <2>2, ConcatProperties
  <2> QED BY <1>8, <2>1, <2>3
<1> HIDE DEF off
<1>13. \A j \in 0..n : \A i \in 1..j : \A k \in 1..Len(ss[i]) :
          off[i - 1] + k \in 1..off[j] /\ upto[j][off[i - 1] + k] = ss[i][k]
  <2> DEFINE G == {j \in 0..n : \A i \in 1..j : \A k \in 1..Len(ss[i]) :
                      off[i - 1] + k \in 1..off[j] /\ upto[j][off[i - 1] + k] = ss[i][k]}
  <2>1. 0 \in G
    BY <1>1
  <2>2. ASSUME NEW j \in 1..n, j - 1 \in G PROVE j \in G
    <3>1. off[j] \in Nat /\ off[j - 1] \in Nat /\ Len(ss[j]) \in Nat
      BY <1>1, <1>10, LenProperties
    <3>2. ASSUME NEW i \in 1..j, NEW k \in 1..Len(ss[i])
          PROVE  off[i - 1] + k \in 1..off[j] /\ upto[j][off[i - 1] + k] = ss[i][k]
      <4>1. off[i - 1] \in Nat
        BY <1>1, <1>10
      <4>2. CASE i = j
        <5> DEFINE x == off[i - 1] + k
        <5>1. x \in 1..off[j] /\ ~(x <= off[j - 1]) /\ x - off[j - 1] = k
          BY <1>12, <3>1, <4>1, <4>2
        <5> HIDE DEF x
        <5>2. upto[j][x] = ss[j][x - off[j - 1]]
          BY <1>12, <5>1
        <5> QED BY <4>2, <5>1, <5>2 DEF x
      <4>3. CASE i # j
        <5>1. i \in 1..j - 1
          BY <4>3
        <5>2. off[i - 1] + k \in 1..off[j - 1] /\ upto[j - 1][off[i - 1] + k] = ss[i][k]
          BY <2>2, <5>1
        <5>3. off[i - 1] + k \in 1..off[j] /\ off[i - 1] + k <= off[j - 1]
          BY <1>12, <3>1, <4>1, <5>2
        <5> QED BY <1>12, <5>2, <5>3
      <4> QED BY <4>2, <4>3
    <3> QED BY <3>2
  <2> HIDE DEF G
  <2>3. \A j \in 0..n : j \in G
    BY <1>1, <2>1, <2>2, InductionTo
  <2> QED BY <2>3 DEF G
<1>14. n \in 0..n
  BY <1>1
<1>15. Len(upto[n]) = off[n]
  BY <1>14 DEF off
<1>16. Laid(ss, off)
  BY <1>10, <1>11, <1>12 DEF Laid, n
<1>17. \A i \in 1..n : \A k \in 1..Len(ss[i]) : upto[n][off[i - 1] + k] = ss[i][k]
  BY <1>13, <1>14
<1>18. Concat(ss) \in Seq(S)
  BY <1>2, <1>9, <1>14
<1> QED BY <1>2, <1>10, <1>15, <1>16, <1>17, <1>18 DEF n, LaidOut

\* What was laid earlier stands earlier,
LEMMA LaidOrder ==
    ASSUME NEW S, NEW ss \in Seq(Seq(S)), NEW off, Laid(ss, off)
    PROVE  \A j \in 0..Len(ss) : \A i \in 0..j : off[i] <= off[j]
<1> DEFINE n == Len(ss)
           G == {j \in 0..n : \A i \in 0..j : off[i] <= off[j]}
<1>1. n \in Nat /\ \A i \in 1..n : ss[i] \in Seq(S)
  BY LenProperties, ElementOfSeq
<1>2. /\ \A i \in 0..n : off[i] \in Nat
      /\ \A i \in 1..n : off[i] = off[i - 1] + Len(ss[i]) /\ Len(ss[i]) \in Nat
  BY <1>1, LenProperties DEF Laid
<1> HIDE DEF n
<1>3. 0 \in G
  BY <1>1, <1>2
<1>4. ASSUME NEW j \in 1..n, j - 1 \in G PROVE j \in G
  <2>1. ASSUME NEW i \in 0..j PROVE off[i] <= off[j]
    <3>1. off[i] \in Nat /\ off[j] \in Nat /\ off[j - 1] \in Nat
      BY <1>1, <1>2
    <3>2. CASE i = j
      BY <3>1, <3>2
    <3>3. CASE i # j
      <4>1. i \in 0..j - 1
        BY <3>3
      <4>2. off[i] <= off[j - 1]
        BY <1>4, <4>1
      <4> QED BY <1>2, <3>1, <4>2
    <3> QED BY <3>2, <3>3
  <2> QED BY <2>1
<1> HIDE DEF G
<1>5. \A j \in 0..n : j \in G
  BY <1>1, <1>3, <1>4, InductionTo
<1> QED BY <1>5 DEF G, n

Covered(ss, off) ==
    \A q \in 1..off[Len(ss)] :
       \E i \in 1..Len(ss) : \E k \in 1..Len(ss[i]) : q = off[i - 1] + k

\* and every place is in one of them.
LEMMA LaidFinds ==
    ASSUME NEW S, NEW ss \in Seq(Seq(S)), NEW off, Laid(ss, off)
    PROVE  Covered(ss, off)
<1> DEFINE n == Len(ss)
           G == {j \in 0..n : \A p \in 1..off[j] :
                   \E i \in 1..j : \E k \in 1..Len(ss[i]) : p = off[i - 1] + k}
<1>1. n \in Nat /\ \A i \in 1..n : ss[i] \in Seq(S)
  BY LenProperties, ElementOfSeq
<1>2. /\ off[0] = 0 /\ \A i \in 0..n : off[i] \in Nat
      /\ \A i \in 1..n : off[i] = off[i - 1] + Len(ss[i]) /\ Len(ss[i]) \in Nat
  BY <1>1, LenProperties DEF Laid
<1> HIDE DEF n
<1>3. 0 \in G
  BY <1>1, <1>2
<1>4. ASSUME NEW j \in 1..n, j - 1 \in G PROVE j \in G
  <2>1. ASSUME NEW p \in 1..off[j]
        PROVE  \E i \in 1..j : \E k \in 1..Len(ss[i]) : p = off[i - 1] + k
    <3>1. off[j] \in Nat /\ off[j - 1] \in Nat /\ off[j] = off[j - 1] + Len(ss[j])
          /\ Len(ss[j]) \in Nat
      BY <1>1, <1>2
    <3>2. CASE p <= off[j - 1]
      <4>1. p \in 1..off[j - 1]
        BY <3>1, <3>2
      <4>2. PICK i \in 1..j - 1 : \E k \in 1..Len(ss[i]) : p = off[i - 1] + k
        BY <1>4, <4>1
      <4>3. i \in 1..j
        OBVIOUS
      <4> QED BY <4>2, <4>3
    <3>3. CASE ~(p <= off[j - 1])
      <4>1. p - off[j - 1] \in 1..Len(ss[j]) /\ p = off[j - 1] + (p - off[j - 1]) /\ j \in 1..j
        BY <3>1, <3>3
      <4> QED BY <4>1
    <3> QED BY <3>2, <3>3
  <2> QED BY <2>1
<1> HIDE DEF G
<1>5. \A j \in 0..n : j \in G
  BY <1>1, <1>3, <1>4, InductionTo
<1>6. n \in G
  BY <1>1, <1>5
<1> QED BY <1>6 DEF G, n, Covered

\* Those keeps exactly the elements of the set,
LEMMA ElementsThose ==
    ASSUME NEW X, NEW s \in Seq(X), NEW S
    PROVE  Those(s, S) \in Seq(X) /\ Elements(Those(s, S)) = Elements(s) \cap S
<1> DEFINE n == Len(s)
           upto == CHOOSE f : f = [i \in 0..n |->
                     IF i = 0 THEN << >>
                     ELSE IF s[i] \in S THEN Append(f[i - 1], s[i]) ELSE f[i - 1]]
           g == [x \in (1..n) \X Seq(X) |->
                   IF s[x[1]] \in S THEN Append(x[2], s[x[1]]) ELSE x[2]]
<1>1. n \in Nat /\ \A i \in 1..n : s[i] \in X
  BY LenProperties, ElementOfSeq
<1>2. Those(s, S) = upto[n]
  BY DEF Those
<1> HIDE DEF n
<1>3. << >> \in Seq(X)
  BY EmptySeq
<1>4. g \in [(1..n) \X Seq(X) -> Seq(X)]
  <2>1. \A x \in (1..n) \X Seq(X) : Append(x[2], s[x[1]]) \in Seq(X) /\ x[2] \in Seq(X)
    BY <1>1, AppendProperties
  <2> QED BY <2>1
<1>5. PICK F \in [0..n -> Seq(X)] : Recursion(<< >>, g, n, F)
  <2> HIDE DEF g
  <2> QED BY <1>1, <1>3, <1>4, RecursionExists
<1>6. F = [i \in 0..n |-> IF i = 0 THEN << >>
             ELSE IF s[i] \in S THEN Append(F[i - 1], s[i]) ELSE F[i - 1]]
  <2>1. \A i \in 0..n : i # 0 => <<i, F[i - 1]>> \in (1..n) \X Seq(X)
    BY <1>1, <1>5
  <2>2. \A i \in 0..n : i # 0 =>
          g[<<i, F[i - 1]>>] = IF s[i] \in S THEN Append(F[i - 1], s[i]) ELSE F[i - 1]
    BY <2>1
  <2>3. F = [i \in 0..n |-> IF i = 0 THEN << >> ELSE g[<<i, F[i - 1]>>]]
    BY <1>5 DEF Recursion
  <2> HIDE DEF g
  <2> QED BY <2>2, <2>3
<1>7. upto = [i \in 0..n |-> IF i = 0 THEN << >>
                ELSE IF s[i] \in S THEN Append(upto[i - 1], s[i]) ELSE upto[i - 1]]
  BY <1>6
<1> HIDE DEF upto, g
<1>8. /\ upto[0] = << >>
      /\ \A i \in 1..n : upto[i] = IF s[i] \in S THEN Append(upto[i - 1], s[i])
                                     ELSE upto[i - 1]
  <2>1. \A i \in 0..n : upto[i] = IF i = 0 THEN << >>
             ELSE IF s[i] \in S THEN Append(upto[i - 1], s[i]) ELSE upto[i - 1]
    BY <1>7, Zenon
  <2>2. 0 \in 0..n /\ \A i \in 1..n : i \in 0..n /\ i # 0
    BY <1>1
  <2> QED BY <2>1, <2>2
<1> DEFINE G == {i \in 0..n : /\ upto[i] \in Seq(X)
                               /\ Elements(upto[i]) = {s[k] : k \in 1..i} \cap S}
<1>9. 0 \in G
  <2>1. 1..0 = {}
    OBVIOUS
  <2>2. Elements(<< >>) = {}
    BY <1>3, ElementsEmpty
  <2>3. 0 \in 0..n
    BY <1>1
  <2>4. {s[k] : k \in 1..0} = {}
    BY <2>1
  <2> QED BY <1>3, <1>8, <2>2, <2>3, <2>4
<1>10. ASSUME NEW i \in 1..n, i - 1 \in G PROVE i \in G
  <2>1. 1..i = (1..i - 1) \cup {i}
    OBVIOUS
  <2>2. {s[k] : k \in 1..i} = {s[k] : k \in 1..i - 1} \cup {s[i]}
    BY <2>1
  <2>3. CASE s[i] \in S
    <3>1. upto[i] = Append(upto[i - 1], s[i])
      BY <1>8, <2>3
    <3>2. Elements(upto[i]) = Elements(upto[i - 1]) \cup {s[i]} /\ upto[i] \in Seq(X)
      BY <1>1, <1>10, <3>1, ElementsAppend, AppendProperties
    <3> QED BY <1>10, <2>2, <2>3, <3>2
  <2>4. CASE s[i] \notin S
    <3>1. upto[i] = upto[i - 1]
      BY <1>8, <2>4
    <3> QED BY <1>10, <2>2, <2>4, <3>1
  <2> QED BY <2>3, <2>4
<1> HIDE DEF G
<1>11. \A i \in 0..n : i \in G
  BY <1>1, <1>9, <1>10, InductionTo
<1>12. upto[n] \in Seq(X) /\ Elements(upto[n]) = {s[k] : k \in 1..n} \cap S
  <2>1. n \in G
    BY <1>1, <1>11
  <2> QED BY <2>1 DEF G
<1> QED BY <1>2, <1>12, ElementsOf DEF n

\* and is empty where there are none.
LEMMA ThoseEmpty ==
    ASSUME NEW X, NEW s \in Seq(X), NEW S
    PROVE  Those(s, S) = << >> <=> Elements(s) \cap S = {}
BY ElementsThose, ElementsEmpty

\* The elements of a Concat are those of its parts.
LEMMA ElementsOfConcat ==
    ASSUME NEW S, NEW ss \in Seq(Seq(S))
    PROVE  /\ Concat(ss) \in Seq(S)
           /\ Elements(Concat(ss)) = UNION {Elements(ss[i]) : i \in 1..Len(ss)}
<1> DEFINE c == Concat(ss)
           n == Len(ss)
<1>1. c \in Seq(S)
  BY ConcatLaid
<1>2. PICK off \in [0..n -> Nat] :
         /\ Laid(ss, off) /\ Len(c) = off[n]
         /\ \A i \in 1..n : \A k \in 1..Len(ss[i]) : c[off[i - 1] + k] = ss[i][k]
  <2>1. \E off \in [0..Len(ss) -> Nat] : LaidOut(ss, off)
    BY ConcatLaid
  <2> QED BY <2>1 DEF LaidOut
<1>3. n \in Nat /\ \A i \in 1..n : ss[i] \in Seq(S)
  BY LenProperties, ElementOfSeq
<1>4. Elements(c) = {c[q] : q \in 1..off[n]}
  BY <1>1, <1>2, ElementsOf
<1>5. \A i \in 1..n : Elements(ss[i]) = {ss[i][k] : k \in 1..Len(ss[i])}
  BY <1>3, ElementsOf
<1>6. Covered(ss, off)
  <2>1. Laid(ss, off)
    BY <1>2
  <2> QED BY <2>1, LaidFinds
<1>7. \A i \in 0..Len(ss) : off[i] <= off[Len(ss)]
  <2>1. Laid(ss, off) /\ Len(ss) \in 0..Len(ss)
    BY <1>2, <1>3
  <2> QED BY <2>1, LaidOrder
<1>a. \A i \in 1..n : off[i] = off[i - 1] + Len(ss[i]) /\ Len(ss[i]) \in Nat
  BY <1>2, <1>3, LenProperties DEF Laid
<1>b. \A i \in 0..n : off[i] \in Nat
  OBVIOUS
<1> HIDE DEF c
<1>c. ASSUME NEW i \in 1..n, NEW k \in 1..Len(ss[i]) PROVE off[i - 1] + k \in 1..off[n]
  <2> HIDE DEF n
  <2>1. i \in 0..n /\ i - 1 \in 0..n /\ n \in 0..n
    BY <1>3
  <2>2. off[i] <= off[n]
    BY <1>7, <2>1 DEF n
  <2>3. off[i - 1] \in Nat /\ off[i] \in Nat /\ off[n] \in Nat
    BY <1>b, <2>1
  <2> QED BY <1>a, <2>2, <2>3
<1>d. \A q \in 1..off[n] : \E i \in 1..n : \E k \in 1..Len(ss[i]) : q = off[i - 1] + k
  BY <1>6 DEF n, Covered
<1> HIDE DEF c, n
<1>8. ASSUME NEW x \in Elements(c) PROVE \E i \in 1..n : x \in Elements(ss[i])
  <2>1. PICK q \in 1..off[n] : x = c[q]
    BY <1>4, <1>8
  <2>2. PICK i \in 1..n : \E k \in 1..Len(ss[i]) : q = off[i - 1] + k
    BY <1>d
  <2>3. PICK k \in 1..Len(ss[i]) : q = off[i - 1] + k
    BY <2>2
  <2>4. x = ss[i][k]
    BY <1>2, <2>1, <2>3
  <2> QED BY <1>5, <2>4
<1>9. ASSUME NEW i \in 1..n, NEW x \in Elements(ss[i]) PROVE x \in Elements(c)
  <2>1. PICK k \in 1..Len(ss[i]) : x = ss[i][k]
    BY <1>5
  <2>2. off[i - 1] + k \in 1..off[n] /\ c[off[i - 1] + k] = x
    BY <1>2, <1>c, <2>1
  <2> QED BY <1>4, <2>2
<1>10. Elements(c) = UNION {Elements(ss[i]) : i \in 1..n}
  BY <1>8, <1>9
<1> QED BY <1>1, <1>10 DEF c, n

\* A function on 1..n is a sequence of length n.
LEMMA FunctionSeq ==
    ASSUME NEW S, NEW n \in Nat, NEW f \in [1..n -> S]
    PROVE  f \in Seq(S) /\ Len(f) = n
BY SeqDef

\* The sequences the rules write down have one element
LEMMA OneElement ==
    ASSUME NEW S, NEW x \in S
    PROVE  <<x>> \in Seq(S) /\ Len(<<x>>) = 1 /\ <<x>>[1] = x /\ Elements(<<x>>) = {x}
<1> DEFINE s == <<x>>
<1>1. s \in Seq(S) /\ Len(s) = 1 /\ s[1] = x
  OBVIOUS
<1> HIDE DEF s
<1>2. Elements(s) = {s[i] : i \in 1..1}
  BY <1>1, ElementsOf
<1>3. Elements(s) = {x}
  BY <1>1, <1>2
<1> QED BY <1>1, <1>3 DEF s

\* or two.
LEMMA TwoElements ==
    ASSUME NEW S, NEW x \in S, NEW y \in S
    PROVE  <<x, y>> \in Seq(S) /\ Elements(<<x, y>>) = {x, y}
<1> DEFINE s == <<x, y>>
<1>1. s \in Seq(S) /\ Len(s) = 2 /\ s[1] = x /\ s[2] = y
  OBVIOUS
<1> HIDE DEF s
<1>2. Elements(s) = {s[i] : i \in 1..2}
  BY <1>1, ElementsOf
<1>3. Elements(s) = {x, y}
  BY <1>1, <1>2
<1> QED BY <1>1, <1>3 DEF s

-----------------------------------------------------------------------------
(* What the shapes of statements and bodies say.                           *)

\* The kind of a statement tells its fields.
LEMMA StmtShapes ==
    ASSUME NEW N, NEW s \in Stmts(N)
    PROVE  /\ s.op \in {"set", "call", "return", "decl", "grant", "guard", "emit",
                        "reader", "key"}
           /\ s.op = "set" => s \in [op : {"set"}, into : Stored \cup N, e : Exprs(N), to : {None}]
           /\ s.op = "call" =>
                 s \in [op : {"call"}, into : Targets(N), e : Exprs(N), to : Callees]
           /\ s.op = "return" =>
                 s \in [op : {"return"}, into : Targets(N), e : Exprs(N),
                        to : Callees \cup {None}]
           /\ s.op = "decl" =>
                 s \in [op : {"decl"}, name : N, into : Targets(N), e : Exprs(N),
                        to : Callees \cup {None}]
           /\ s.op = "grant" => s \in GrantsOn(N)
           /\ s.op = "guard" => s \in Guards(N)
           /\ s.op = "emit" => s \in Emits(N)
           /\ s.op = "reader" => s \in ReaderSets
<1>1. CASE s \in Writers(N)
  <2>1. \/ s \in [op : {"set"}, into : Stored \cup N, e : Exprs(N), to : {None}]
        \/ s \in [op : {"call"}, into : Targets(N), e : Exprs(N), to : Callees]
        \/ s \in [op : {"return"}, into : Targets(N), e : Exprs(N), to : Callees \cup {None}]
        \/ s \in [op : {"decl"}, name : N, into : Targets(N), e : Exprs(N),
                  to : Callees \cup {None}]
    BY <1>1 DEF Writers
  <2> QED BY <2>1
<1>2. CASE s \in GrantsOn(N)
  BY <1>2 DEF GrantsOn
<1>3. CASE s \in Guards(N)
  BY <1>3 DEF Guards
<1>4. CASE s \in Emits(N) \cup ReaderSets \cup [op : {"key"}]
  BY <1>4 DEF Emits, ReaderSets
<1> QED BY <1>1, <1>2, <1>3, <1>4 DEF Stmts

\* A statement that computes has a target, an argument and a callee.
LEMMA WriterShape ==
    ASSUME NEW N, NEW s \in Stmts(N), Computes(s)
    PROVE  /\ s.into \in Targets(N) /\ s.e \in Exprs(N) /\ s.to \in Callees \cup {None}
           /\ s.op = "set" => s.to = None
BY StmtShapes DEF Computes, Targets

-----------------------------------------------------------------------------
(* The facts: which duties there are, and which follow each other.         *)

Blocks(t, X) ==
    /\ "main" \in DOMAIN t
    /\ \A b \in DOMAIN t : t[b].stmts \in Seq(X)
    /\ \A s \in Elements(t["main"].stmts) : s.op = "branch" => s.block \in DOMAIN t

Reached(t) == {b \in DOMAIN t : \E s \in Elements(t["main"].stmts) :
                                   s.op = "branch" /\ s.block = b}
Spots(t)   == {p \in (DOMAIN t) \X Nat :
                 /\ p[2] \in 1..Len(t[p[1]].stmts)
                 /\ p[1] = "main" \/ p[1] \in Reached(t)}

Row(t, b) == [i \in DOMAIN t[b].stmts |-> <<b, i>>]

\* The positions of one block, in order.
LEMMA BlockSpots ==
    ASSUME NEW X, NEW t, Blocks(t, X), NEW b \in DOMAIN t
    PROVE  /\ Row(t, b) \in Seq((DOMAIN t) \X Nat)
           /\ Elements(Row(t, b)) = {<<b, i>> : i \in 1..Len(t[b].stmts)}
<1> DEFINE n == Len(t[b].stmts)
           f == [i \in DOMAIN t[b].stmts |-> <<b, i>>]
<1>1. t[b].stmts \in Seq(X)
  BY DEF Blocks
<1>2. DOMAIN t[b].stmts = 1..n /\ n \in Nat
  BY <1>1, LenProperties
<1>3. f = [i \in 1..n |-> <<b, i>>]
  BY <1>2
<1> HIDE DEF n, f
<1>4. f \in [1..n -> (DOMAIN t) \X Nat] /\ \A i \in 1..n : f[i] = <<b, i>>
  BY <1>2, <1>3
<1>5. f \in Seq((DOMAIN t) \X Nat) /\ Len(f) = n
  BY <1>2, <1>4, FunctionSeq
<1>6. Elements(f) = {f[i] : i \in 1..n}
  BY <1>5, ElementsOf
<1>7. Elements(f) = {<<b, i>> : i \in 1..n}
  BY <1>4, <1>6
<1> QED BY <1>5, <1>7 DEF f, n, Row

\* Positions has every position once, a block in the order of its statements.
LEMMA PositionsOf ==
    ASSUME NEW X, NEW t, Blocks(t, X)
    PROVE  /\ Positions(t) \in Seq((DOMAIN t) \X Nat)
           /\ Elements(Positions(t)) = Spots(t)
<1> DEFINE P == (DOMAIN t) \X Nat
           M == t["main"].stmts
           n == Len(M)
           more(s) == IF s.op = "branch" THEN Row(t, s.block) ELSE << >>
           ss == [i \in DOMAIN M |-> << <<"main", i>> >> \o more(M[i])]
<1>1. Positions(t) = Concat(ss)
  BY DEF Positions, Row
<1>2. M \in Seq(X) /\ DOMAIN M = 1..n /\ n \in Nat /\ Elements(M) = {M[i] : i \in 1..n}
  BY ElementsOf DEF Blocks
<1>3. ASSUME NEW b \in DOMAIN t
      PROVE  Row(t, b) \in Seq(P) /\ Elements(Row(t, b)) = {<<b, i>> : i \in 1..Len(t[b].stmts)}
  BY BlockSpots
<1>4. "main" \in DOMAIN t /\ \A s \in Elements(M) : s.op = "branch" => s.block \in DOMAIN t
  BY DEF Blocks
<1> HIDE DEF n
<1>5. ASSUME NEW i \in 1..n
      PROVE  /\ << <<"main", i>> >> \o more(M[i]) \in Seq(P)
             /\ Elements(<< <<"main", i>> >> \o more(M[i])) =
                  {<<"main", i>>} \cup
                  {q \in P : M[i].op = "branch" /\ q[1] = M[i].block /\ q[2] \in 1..Len(t[q[1]].stmts)}
  <2>1. <<"main", i>> \in P
    BY <1>2, <1>4
  <2>2. << <<"main", i>> >> \in Seq(P) /\ Elements(<< <<"main", i>> >>) = {<<"main", i>>}
    BY <2>1, OneElement
  <2>3. /\ more(M[i]) \in Seq(P)
        /\ Elements(more(M[i])) = {q \in P :
              M[i].op = "branch" /\ q[1] = M[i].block /\ q[2] \in 1..Len(t[q[1]].stmts)}
    <3>1. CASE M[i].op = "branch"
      <4>1. M[i].block \in DOMAIN t
        BY <1>2, <1>4, <3>1
      <4>2. more(M[i]) = Row(t, M[i].block)
        BY <3>1
      <4>3. {<<M[i].block, k>> : k \in 1..Len(t[M[i].block].stmts)} =
              {q \in P : q[1] = M[i].block /\ q[2] \in 1..Len(t[q[1]].stmts)}
        BY <4>1
      <4> QED BY <1>3, <3>1, <4>1, <4>2, <4>3
    <3>2. CASE M[i].op # "branch"
      <4>1. more(M[i]) = << >>
        BY <3>2
      <4>2. << >> \in Seq(P) /\ Elements(<< >>) = {}
        BY EmptySeq, ElementsEmpty
      <4> QED BY <3>2, <4>1, <4>2
    <3> QED BY <3>1, <3>2
  <2> DEFINE a == << <<"main", i>> >>
             z == more(M[i])
  <2>4. a \in Seq(P) /\ z \in Seq(P)
    BY <2>2, <2>3
  <2>5. a \o z \in Seq(P) /\ Elements(a \o z) = Elements(a) \cup Elements(z)
    <3> HIDE DEF a, z, P
    <3> QED BY <2>4, ElementsConcat
  <2> QED BY <2>2, <2>3, <2>5
<1>6. ss = [i \in 1..n |-> << <<"main", i>> >> \o more(M[i])]
  BY <1>2
<1> HIDE DEF more, ss
<1>7. ss \in [1..n -> Seq(P)]
  BY <1>5, <1>6
<1>8. ss \in Seq(Seq(P)) /\ Len(ss) = n
  BY <1>2, <1>7, FunctionSeq
<1>9. Concat(ss) \in Seq(P) /\ Elements(Concat(ss)) = UNION {Elements(ss[i]) : i \in 1..n}
  BY <1>8, ElementsOfConcat
<1>10. \A i \in 1..n : Elements(ss[i]) = {<<"main", i>>} \cup
           {q \in P : M[i].op = "branch" /\ q[1] = M[i].block /\ q[2] \in 1..Len(t[q[1]].stmts)}
  BY <1>5, <1>6
<1>11. ASSUME NEW p \in Spots(t) PROVE \E i \in 1..n : p \in Elements(ss[i])
  <2>1. p \in P /\ p[2] \in 1..Len(t[p[1]].stmts)
    BY <1>11 DEF Spots
  <2>a. p = <<p[1], p[2]>>
    BY <2>1
  <2>2. CASE p[1] = "main"
    <3>1. p[2] \in 1..n
      BY <2>1, <2>2 DEF n
    <3>2. p \in Elements(ss[p[2]])
      BY <1>10, <2>1, <2>a, <2>2, <3>1
    <3> QED BY <3>1, <3>2
  <2>3. CASE p[1] \in Reached(t)
    <3>1. PICK i \in 1..n : M[i].op = "branch" /\ M[i].block = p[1]
      BY <1>2, <2>3 DEF Reached
    <3>2. p \in Elements(ss[i])
      BY <1>10, <2>1, <3>1
    <3> QED BY <3>2
  <2> QED BY <2>2, <2>3 DEF Spots
<1>12. ASSUME NEW i \in 1..n, NEW p \in Elements(ss[i]) PROVE p \in Spots(t)
  <2>1. CASE p = <<"main", i>>
    <3>1. i \in 1..Len(t["main"].stmts) /\ i \in Nat
      BY <1>2 DEF n
    <3> QED BY <1>4, <2>1, <3>1 DEF Spots
  <2>2. CASE p # <<"main", i>>
    <3>1. /\ p \in P /\ M[i].op = "branch" /\ p[1] = M[i].block
          /\ p[2] \in 1..Len(t[p[1]].stmts)
      BY <1>10, <2>2
    <3>2. M[i] \in Elements(M)
      BY <1>2
    <3>3. p[1] \in Reached(t)
      BY <1>4, <3>1, <3>2 DEF Reached
    <3> QED BY <3>1, <3>3 DEF Spots
  <2> QED BY <2>1, <2>2
<1>13. UNION {Elements(ss[i]) : i \in 1..n} = Spots(t)
  BY <1>11, <1>12
<1> QED BY <1>1, <1>9, <1>13

\* The duties of a list, each followed by the next one of its statement.
Duty(R, P) == [rule : R, at : P]
Follows(ds, ps, rules) ==
    \A q \in 1..Len(ds) : \E n \in 1..Len(ps) : \E k \in 1..Len(rules[n]) :
       /\ ds[q] = [rule |-> rules[n][k], at |-> ps[n]]
       /\ k < Len(rules[n]) => /\ q + 1 <= Len(ds)
                               /\ ds[q + 1] = [rule |-> rules[n][k + 1], at |-> ps[n]]

Collects(ds, ps, rules) ==
    /\ \A d \in Elements(ds) : \E n \in 1..Len(ps) :
          d.at = ps[n] /\ d.rule \in Elements(rules[n])
    /\ \A n \in 1..Len(ps) : \A r \in Elements(rules[n]) :
          [rule |-> r, at |-> ps[n]] \in Elements(ds)

\* Duties has each rule of each position, in their order.
LEMMA DutiesOf ==
    ASSUME NEW R, NEW P, NEW ps \in Seq(P), NEW rules, DOMAIN rules = 1..Len(ps),
           \A n \in 1..Len(ps) : rules[n] \in Seq(R)
    PROVE  /\ Duties(ps, rules) \in Seq(Duty(R, P))
           /\ Collects(Duties(ps, rules), ps, rules)
           /\ Follows(Duties(ps, rules), ps, rules)
<1> DEFINE N == Len(ps)
           D == Duty(R, P)
           part(n) == [r \in DOMAIN rules[n] |-> [rule |-> rules[n][r], at |-> ps[n]]]
           ss == [n \in DOMAIN ps |-> part(n)]
           ds == Duties(ps, rules)
<1>1. DOMAIN ps = 1..N /\ N \in Nat /\ \A n \in 1..N : ps[n] \in P
  BY LenProperties, ElementOfSeq
<1>2. ds = Concat(ss)
  BY DEF Duties
<1> HIDE DEF ds, N
<1>3. ASSUME NEW n \in 1..N
      PROVE  /\ part(n) \in Seq(D) /\ Len(part(n)) = Len(rules[n]) /\ Len(rules[n]) \in Nat
             /\ \A k \in 1..Len(rules[n]) : part(n)[k] = [rule |-> rules[n][k], at |-> ps[n]]
             /\ Elements(rules[n]) = {rules[n][k] : k \in 1..Len(rules[n])}
             /\ Elements(part(n)) = {part(n)[k] : k \in 1..Len(rules[n])}
  <2> DEFINE c == rules[n]
             L == Len(c)
             f == part(n)
  <2>1. c \in Seq(R)
    BY DEF N
  <2>2. DOMAIN c = 1..L /\ L \in Nat /\ (\A k \in 1..L : c[k] \in R)
        /\ Elements(c) = {c[k] : k \in 1..L}
    BY <2>1, LenProperties, ElementOfSeq, ElementsOf
  <2> HIDE DEF c, L
  <2>3. f = [k \in 1..L |-> [rule |-> c[k], at |-> ps[n]]]
    BY <2>2 DEF c
  <2> HIDE DEF f
  <2>4. f \in [1..L -> D]
    BY <1>1, <2>2, <2>3 DEF Duty
  <2>5. f \in Seq(D) /\ Len(f) = L
    BY <2>2, <2>4, FunctionSeq
  <2>6. Elements(f) = {f[k] : k \in 1..L}
    BY <2>5, ElementsOf
  <2> QED BY <2>2, <2>3, <2>5, <2>6 DEF f, c, L
<1>4. ss = [n \in 1..N |-> part(n)]
  BY <1>1
<1> HIDE DEF part, ss, D
<1>5. ss \in [1..N -> Seq(D)] /\ \A n \in 1..N : ss[n] = part(n)
  BY <1>3, <1>4
<1>6. ss \in Seq(Seq(D)) /\ Len(ss) = N
  BY <1>1, <1>5, FunctionSeq
<1>7. ds \in Seq(D) /\ Elements(ds) = UNION {Elements(ss[n]) : n \in 1..N}
  BY <1>2, <1>6, ElementsOfConcat
<1>8. ASSUME NEW d \in Elements(ds)
      PROVE  \E n \in 1..N : d.at = ps[n] /\ d.rule \in Elements(rules[n])
  <2>1. PICK n \in 1..N : d \in Elements(part(n))
    BY <1>5, <1>7, <1>8
  <2>2. /\ Elements(part(n)) = {part(n)[k] : k \in 1..Len(rules[n])}
        /\ Elements(rules[n]) = {rules[n][k] : k \in 1..Len(rules[n])}
        /\ \A k \in 1..Len(rules[n]) : part(n)[k] = [rule |-> rules[n][k], at |-> ps[n]]
    BY <1>3
  <2>3. PICK k \in 1..Len(rules[n]) : d = part(n)[k]
    BY <2>1, <2>2
  <2>4. d = [rule |-> rules[n][k], at |-> ps[n]] /\ rules[n][k] \in Elements(rules[n])
    BY <2>2, <2>3
  <2> QED BY <2>4
<1>9. ASSUME NEW n \in 1..N, NEW r \in Elements(rules[n])
      PROVE  [rule |-> r, at |-> ps[n]] \in Elements(ds)
  <2>1. /\ Elements(part(n)) = {part(n)[k] : k \in 1..Len(rules[n])}
        /\ Elements(rules[n]) = {rules[n][k] : k \in 1..Len(rules[n])}
        /\ \A k \in 1..Len(rules[n]) : part(n)[k] = [rule |-> rules[n][k], at |-> ps[n]]
    BY <1>3
  <2>2. PICK k \in 1..Len(rules[n]) : r = rules[n][k]
    BY <1>9, <2>1
  <2>3. [rule |-> r, at |-> ps[n]] = part(n)[k]
    BY <2>1, <2>2
  <2>4. [rule |-> r, at |-> ps[n]] \in Elements(part(n))
    BY <2>1, <2>3
  <2> QED BY <1>5, <1>7, <2>4
<1>10. Follows(ds, ps, rules)
  <2>1. PICK off \in [0..Len(ss) -> Nat] :
          /\ Laid(ss, off) /\ Len(Concat(ss)) = off[Len(ss)]
          /\ \A i \in 1..Len(ss) : \A k \in 1..Len(ss[i]) :
                Concat(ss)[off[i - 1] + k] = ss[i][k]
    <3>1. \E off \in [0..Len(ss) -> Nat] : LaidOut(ss, off)
      BY <1>6, ConcatLaid
    <3> QED BY <3>1 DEF LaidOut
  <2>2. Covered(ss, off) /\ (\A j \in 0..Len(ss) : \A i \in 0..j : off[i] <= off[j])
    BY <1>6, <2>1, LaidFinds, LaidOrder
  <2>3. /\ off \in [0..N -> Nat] /\ Len(ds) = off[N]
        /\ \A n \in 1..N : \A k \in 1..Len(rules[n]) : ds[off[n - 1] + k] = part(n)[k]
        /\ \A n \in 1..N : off[n] = off[n - 1] + Len(rules[n])
    BY <1>2, <1>3, <1>5, <1>6, <2>1 DEF Laid
  <2>4. ASSUME NEW q \in 1..Len(ds)
        PROVE  \E n \in 1..N : \E k \in 1..Len(rules[n]) :
                 /\ ds[q] = [rule |-> rules[n][k], at |-> ps[n]]
                 /\ k < Len(rules[n]) => /\ q + 1 <= Len(ds)
                                         /\ ds[q + 1] = [rule |-> rules[n][k + 1], at |-> ps[n]]
    <3>1. PICK n \in 1..N : \E k \in 1..Len(ss[n]) : q = off[n - 1] + k
      BY <1>6, <2>2, <2>3 DEF Covered
    <3>2. PICK k \in 1..Len(rules[n]) : q = off[n - 1] + k
      BY <1>3, <1>5, <3>1
    <3>a. n - 1 \in 0..N /\ n \in 0..N /\ N \in 0..N
      BY <1>1
    <3>b. off[n - 1] \in Nat /\ off[n] \in Nat /\ off[N] \in Nat
      <4>1. \A i \in 0..N : off[i] \in Nat
        BY <2>3
      <4> QED BY <3>a, <4>1
    <3>c. Len(rules[n]) \in Nat
      BY <1>3
    <3>d. off[n] = off[n - 1] + Len(rules[n])
      BY <2>3
    <3>4. off[n] <= off[N]
      BY <1>6, <2>2, <3>a
    <3> DEFINE a == off[n - 1]
               z == off[N]
               L == Len(rules[n])
    <3> HIDE DEF a, z, L
    <3>3. a \in Nat /\ z \in Nat /\ L \in Nat /\ a + L <= z
      BY <3>b, <3>c, <3>d, <3>4 DEF a, z, L
    <3>5. ds[q] = [rule |-> rules[n][k], at |-> ps[n]]
      BY <1>3, <2>3, <3>2
    <3>6. ASSUME k < Len(rules[n])
          PROVE  q + 1 <= Len(ds) /\ ds[q + 1] = [rule |-> rules[n][k + 1], at |-> ps[n]]
      <4>1. k + 1 \in 1..Len(rules[n]) /\ q + 1 = off[n - 1] + (k + 1)
        <5>1. k \in 1..L /\ k < L /\ q = a + k
          BY <3>2, <3>6 DEF L, a
        <5>2. k + 1 \in 1..L /\ q + 1 = a + (k + 1)
          BY <3>3, <5>1
        <5> QED BY <5>2 DEF L, a
      <4>2. ds[q + 1] = part(n)[k + 1]
        <5>0. PICK j : j = k + 1
          OBVIOUS
        <5>1. j \in 1..Len(rules[n]) /\ q + 1 = off[n - 1] + j
          BY <4>1, <5>0
        <5>2. ds[off[n - 1] + j] = part(n)[j]
          <6>1. \A i \in 1..Len(rules[n]) : ds[off[n - 1] + i] = part(n)[i]
            BY <2>3
          <6> HIDE DEF part, N, ds
          <6> QED BY <5>1, <6>1
        <5>3. ds[q + 1] = part(n)[j]
          BY <5>1, <5>2
        <5> QED BY <5>0, <5>3
      <4>3. q + 1 <= off[N]
        <5>1. k + 1 \in 1..L /\ q + 1 = a + (k + 1)
          BY <4>1 DEF L, a
        <5>2. q + 1 <= z
          BY <3>3, <5>1
        <5> QED BY <5>2 DEF z
      <4> QED BY <1>3, <2>3, <4>1, <4>2, <4>3
    <3> QED BY <3>5, <3>6
  <2> QED BY <2>4 DEF Follows, N
<1>11. Collects(ds, ps, rules)
  BY <1>8, <1>9 DEF Collects, N
<1> QED BY <1>7, <1>10, <1>11 DEF ds, N, D

RuleNames == {"R1", "R2", "R3", "R5", "reapply"}

Three(w, c, r) ==
    (IF w THEN <<"R1">> ELSE << >>) \o (IF c THEN <<"R2">> ELSE << >>) \o
    (IF r THEN <<"R3">> ELSE << >>)

\* Of R1, R2 and R3 those that are asked for, in this order.
LEMMA ThreeIs ==
    ASSUME NEW w \in BOOLEAN, NEW c \in BOOLEAN, NEW r \in BOOLEAN
    PROVE  /\ w /\ c /\ r    => Three(w, c, r) = <<"R1", "R2", "R3">>
           /\ w /\ c /\ ~r   => Three(w, c, r) = <<"R1", "R2">>
           /\ w /\ ~c /\ r   => Three(w, c, r) = <<"R1", "R3">>
           /\ w /\ ~c /\ ~r  => Three(w, c, r) = <<"R1">>
           /\ ~w /\ c /\ r   => Three(w, c, r) = <<"R2", "R3">>
           /\ ~w /\ c /\ ~r  => Three(w, c, r) = <<"R2">>
           /\ ~w /\ ~c /\ r  => Three(w, c, r) = <<"R3">>
           /\ ~w /\ ~c /\ ~r => Three(w, c, r) = << >>
<1>a. \A x, y \in RuleNames : <<x>> \o <<y>> = <<x, y>>
  <2> SUFFICES ASSUME NEW x \in RuleNames, NEW y \in RuleNames
               PROVE  <<x>> \o <<y>> = <<x, y>>
    OBVIOUS
  <2> DEFINE u == <<x>>
             v == <<y>>
             z == <<x, y>>
  <2>1. u \in Seq(RuleNames) /\ Len(u) = 1 /\ u[1] = x
    OBVIOUS
  <2>2. v \in Seq(RuleNames) /\ Len(v) = 1 /\ v[1] = y
    OBVIOUS
  <2>3. z \in Seq(RuleNames) /\ Len(z) = 2 /\ z[1] = x /\ z[2] = y
    OBVIOUS
  <2> HIDE DEF u, v, z
  <2>4. /\ u \o v \in Seq(RuleNames) /\ Len(u \o v) = 2
        /\ \A i \in 1..2 : (u \o v)[i] = IF i <= 1 THEN u[i] ELSE v[i - 1]
    BY <2>1, <2>2, ConcatProperties
  <2>5. \A i \in 1..2 : (u \o v)[i] = z[i]
    BY <2>1, <2>2, <2>3, <2>4
  <2>6. u \o v = z
    BY <2>3, <2>4, <2>5, SeqEqual
  <2> QED BY <2>6 DEF u, v, z
<1>r. "R1" \in RuleNames /\ "R2" \in RuleNames /\ "R3" \in RuleNames
  BY DEF RuleNames
<1>c. <<"R1", "R2">> \o <<"R3">> = <<"R1", "R2", "R3">>
  <2> DEFINE u == <<"R1", "R2">>
             v == <<"R3">>
             z == <<"R1", "R2", "R3">>
  <2>1. u \in Seq(RuleNames) /\ Len(u) = 2 /\ u[1] = "R1" /\ u[2] = "R2"
    BY DEF RuleNames
  <2>2. v \in Seq(RuleNames) /\ Len(v) = 1 /\ v[1] = "R3"
    BY DEF RuleNames
  <2>3. z \in Seq(RuleNames) /\ Len(z) = 3 /\ z[1] = "R1" /\ z[2] = "R2" /\ z[3] = "R3"
    BY DEF RuleNames
  <2> HIDE DEF u, v, z
  <2>4. /\ u \o v \in Seq(RuleNames) /\ Len(u \o v) = 3
        /\ \A i \in 1..3 : (u \o v)[i] = IF i <= 2 THEN u[i] ELSE v[i - 2]
    BY <2>1, <2>2, ConcatProperties
  <2>5. \A i \in 1..3 : (u \o v)[i] = z[i]
    BY <2>1, <2>2, <2>3, <2>4
  <2>6. u \o v = z
    BY <2>3, <2>4, <2>5, SeqEqual
  <2> QED BY <2>6 DEF u, v, z
<1>b. /\ <<"R1">> \o << >> = <<"R1">> /\ << >> \o <<"R2">> = <<"R2">>
      /\ <<"R2">> \o << >> = <<"R2">> /\ <<"R1", "R2">> \o << >> = <<"R1", "R2">>
  OBVIOUS
<1>1. /\ Three(TRUE, TRUE, TRUE) = <<"R1", "R2", "R3">>
      /\ Three(TRUE, TRUE, FALSE) = <<"R1", "R2">>
  BY <1>a, <1>b, <1>c, <1>r, Zenon DEF Three
<1>2. /\ Three(TRUE, FALSE, TRUE) = <<"R1", "R3">>
      /\ Three(TRUE, FALSE, FALSE) = <<"R1">>
  BY <1>a, <1>b, <1>r, Zenon DEF Three
<1>3. /\ Three(FALSE, TRUE, TRUE) = <<"R2", "R3">>
      /\ Three(FALSE, TRUE, FALSE) = <<"R2">>
  BY <1>a, <1>b, <1>r, Zenon DEF Three
<1>4. /\ Three(FALSE, FALSE, TRUE) = <<"R3">>
      /\ Three(FALSE, FALSE, FALSE) = << >>
  BY DEF Three
<1>5. (w = TRUE \/ w = FALSE) /\ (c = TRUE \/ c = FALSE) /\ (r = TRUE \/ r = FALSE)
  OBVIOUS
<1> QED BY <1>1, <1>2, <1>3, <1>4, <1>5

Asked1(s) == Computes(s) /\ s.into \in Stored
Asked2(s) == Computes(s) /\ s.to # None
Asked3(s) == Computes(s) /\ s.op = "return"

\* The rules of a statement are these.
LEMMA RulesAre ==
    ASSUME NEW s
    PROVE  RulesOf(s) = Three(Asked1(s), Asked2(s), Asked3(s))
<1>1. CASE Computes(s)
  BY <1>1 DEF RulesOf, Three, Asked1, Asked2, Asked3
<1>2. CASE ~Computes(s)
  <2>1. ~Asked1(s) /\ ~Asked2(s) /\ ~Asked3(s)
    BY <1>2 DEF Asked1, Asked2, Asked3
  <2>2. Three(FALSE, FALSE, FALSE) = << >>
    BY DEF Three
  <2>3. RulesOf(s) = << >>
    BY <1>2 DEF RulesOf
  <2>4. Three(Asked1(s), Asked2(s), Asked3(s)) = << >>
    BY <2>1 DEF Three
  <2> QED BY <2>3, <2>4
<1> QED BY <1>1, <1>2

\* They are a sequence of names of rules.
LEMMA RulesOfShape ==
    ASSUME NEW s
    PROVE  /\ RulesOf(s) \in Seq(RuleNames)
           /\ \A r : r \in Elements(RulesOf(s)) <=>
                 \/ r = "R1" /\ Asked1(s)
                 \/ r = "R2" /\ Asked2(s)
                 \/ r = "R3" /\ Asked3(s)
           /\ Asked3(s) => \A k \in 1..Len(RulesOf(s)) :
                 /\ RulesOf(s)[k] \in {"R1", "R2"} =>
                       k < Len(RulesOf(s)) /\ RulesOf(s)[k + 1] \in {"R2", "R3"}
                 /\ RulesOf(s)[k] = "R2" => RulesOf(s)[k + 1] = "R3"
<1> DEFINE w == Asked1(s)
           c == Asked2(s)
           r == Asked3(s)
           x == RulesOf(s)
<1>1. x = Three(w, c, r)
  BY RulesAre
<1>2. w \in BOOLEAN /\ c \in BOOLEAN /\ r \in BOOLEAN
  BY DEF Asked1, Asked2, Asked3
<1>a. "R1" \in RuleNames /\ "R2" \in RuleNames /\ "R3" \in RuleNames
  BY DEF RuleNames
<1> HIDE DEF w, c, r, x
<1>3. CASE w /\ c /\ r
  <2>1. x = <<"R1", "R2", "R3">>
    BY <1>1, <1>2, <1>3, ThreeIs
  <2>2. x \in Seq(RuleNames) /\ Len(x) = 3 /\ x[1] = "R1" /\ x[2] = "R2" /\ x[3] = "R3"
    BY <1>a, <2>1
  <2>3. Elements(x) = {x[k] : k \in 1..3}
    BY <2>2, ElementsOf
  <2>4. Elements(x) = {"R1", "R2", "R3"}
    BY <2>2, <2>3
  <2> QED BY <1>3, <2>2, <2>4 DEF w, c, r, x
<1>4. CASE w /\ c /\ ~r
  <2>1. x = <<"R1", "R2">>
    BY <1>1, <1>2, <1>4, ThreeIs
  <2>2. x \in Seq(RuleNames) /\ Elements(x) = {"R1", "R2"}
    BY <1>a, <2>1, TwoElements
  <2> QED BY <1>4, <2>2 DEF w, c, r, x
<1>5. CASE w /\ ~c /\ r
  <2>1. x = <<"R1", "R3">>
    BY <1>1, <1>2, <1>5, ThreeIs
  <2>2. x \in Seq(RuleNames) /\ Len(x) = 2 /\ x[1] = "R1" /\ x[2] = "R3"
    BY <1>a, <2>1
  <2>3. Elements(x) = {"R1", "R3"}
    BY <1>a, <2>1, TwoElements
  <2> QED BY <1>5, <2>2, <2>3 DEF w, c, r, x
<1>6. CASE w /\ ~c /\ ~r
  <2>1. x = <<"R1">>
    BY <1>1, <1>2, <1>6, ThreeIs
  <2>2. x \in Seq(RuleNames) /\ Elements(x) = {"R1"}
    BY <1>a, <2>1, OneElement
  <2> QED BY <1>6, <2>2 DEF w, c, r, x
<1>7. CASE ~w /\ c /\ r
  <2>1. x = <<"R2", "R3">>
    BY <1>1, <1>2, <1>7, ThreeIs
  <2>2. x \in Seq(RuleNames) /\ Len(x) = 2 /\ x[1] = "R2" /\ x[2] = "R3"
    BY <1>a, <2>1
  <2>3. Elements(x) = {"R2", "R3"}
    BY <1>a, <2>1, TwoElements
  <2> QED BY <1>7, <2>2, <2>3 DEF w, c, r, x
<1>8. CASE ~w /\ c /\ ~r
  <2>1. x = <<"R2">>
    BY <1>1, <1>2, <1>8, ThreeIs
  <2>2. x \in Seq(RuleNames) /\ Elements(x) = {"R2"}
    BY <1>a, <2>1, OneElement
  <2> QED BY <1>8, <2>2 DEF w, c, r, x
<1>9. CASE ~w /\ ~c /\ r
  <2>1. x = <<"R3">>
    BY <1>1, <1>2, <1>9, ThreeIs
  <2>2. x \in Seq(RuleNames) /\ Elements(x) = {"R3"} /\ Len(x) = 1 /\ x[1] = "R3"
    BY <1>a, <2>1, OneElement
  <2> QED BY <1>9, <2>2 DEF w, c, r, x
<1>10. CASE ~w /\ ~c /\ ~r
  <2>1. x = << >>
    BY <1>1, <1>2, <1>10, ThreeIs
  <2>2. x \in Seq(RuleNames) /\ Elements(x) = {}
    BY <1>a, <2>1, EmptySeq, ElementsEmpty
  <2> QED BY <1>10, <2>2 DEF w, c, r, x
<1> QED BY <1>2, <1>3, <1>4, <1>5, <1>6, <1>7, <1>8, <1>9, <1>10

Asked5(s) == s.op = "emit"
AskedR(s) == s.op = "reader" /\ s.form = "assign"

\* So are those about emits and readers.
LEMMA LateRules ==
    ASSUME NEW s
    PROVE  /\ EmitRulesOf(s) \in Seq(RuleNames)
           /\ \A r : r \in Elements(EmitRulesOf(s)) <=> r = "R5" /\ Asked5(s)
           /\ ReaderRulesOf(s) \in Seq(RuleNames)
           /\ \A r : r \in Elements(ReaderRulesOf(s)) <=> r = "reapply" /\ AskedR(s)
<1>1. << >> \in Seq(RuleNames) /\ Elements(<< >>) = {}
  BY EmptySeq, ElementsEmpty
<1>a. "R5" \in RuleNames /\ "reapply" \in RuleNames
  BY DEF RuleNames
<1>2. \A x \in RuleNames : <<x>> \in Seq(RuleNames) /\ Elements(<<x>>) = {x}
  BY OneElement
<1>3. EmitRulesOf(s) = IF Asked5(s) THEN <<"R5">> ELSE << >>
  BY DEF EmitRulesOf, Asked5
<1>4. ReaderRulesOf(s) = IF AskedR(s) THEN <<"reapply">> ELSE << >>
  BY DEF ReaderRulesOf, AskedR
<1>5. /\ EmitRulesOf(s) \in Seq(RuleNames)
      /\ \A r : r \in Elements(EmitRulesOf(s)) <=> r = "R5" /\ Asked5(s)
  BY <1>1, <1>2, <1>3, <1>a
<1>6. /\ ReaderRulesOf(s) \in Seq(RuleNames)
      /\ \A r : r \in Elements(ReaderRulesOf(s)) <=> r = "reapply" /\ AskedR(s)
  BY <1>1, <1>2, <1>4, <1>a
<1> QED BY <1>5, <1>6

\* A sequence is one over its elements.
LEMMA SeqOfElements ==
    ASSUME NEW S, NEW s \in Seq(S), NEW T, Elements(s) \subseteq T
    PROVE  s \in Seq(T)
<1> DEFINE n == Len(s)
<1>1. n \in Nat /\ DOMAIN s = 1..n /\ s = [i \in 1..n |-> s[i]] /\ Elements(s) = {s[i] : i \in 1..n}
  BY SeqDef, LenProperties, ElementsOf
<1> HIDE DEF n
<1>2. s \in [1..n -> T]
  BY <1>1
<1> QED BY <1>1, <1>2, FunctionSeq

Asks(r, s) ==
    \/ r = "R1" /\ Asked1(s)
    \/ r = "R2" /\ Asked2(s)
    \/ r = "R3" /\ Asked3(s)
    \/ r = "R5" /\ Asked5(s)
    \/ r = "reapply" /\ AskedR(s)

\* At a return R1 and R2 are followed by R3 of the same statement.
Next3(ds, t) ==
    \A q \in 1..Len(ds) :
       ds[q].rule \in {"R1", "R2"} /\ At(t, ds[q].at).op = "return" =>
          /\ q + 1 <= Len(ds) /\ ds[q + 1].at = ds[q].at
          /\ ds[q + 1].rule \in {"R2", "R3"}
          /\ ds[q].rule = "R2" => ds[q + 1].rule = "R3"

\* What follows what in a queue, after it is extended.
LEMMA Next3Prefix ==
    ASSUME NEW S, NEW u \in Seq(S), NEW v \in Seq(S), NEW t, Next3(u, t),
           \A i \in 1..Len(v) : v[i].rule \notin {"R1", "R2"}
    PROVE  Next3(u \o v, t)
<1> DEFINE len == Len(u)
           n == Len(v)
           c == u \o v
<1>1. /\ len \in Nat /\ n \in Nat /\ Len(c) = len + n
      /\ \A i \in 1..len + n : c[i] = IF i <= len THEN u[i] ELSE v[i - len]
  BY ConcatProperties, LenProperties
<1>2. \A q \in 1..len :
       u[q].rule \in {"R1", "R2"} /\ At(t, u[q].at).op = "return" =>
          /\ q + 1 <= len /\ u[q + 1].at = u[q].at
          /\ u[q + 1].rule \in {"R2", "R3"}
          /\ u[q].rule = "R2" => u[q + 1].rule = "R3"
  BY DEF Next3
<1>3. \A i \in 1..n : v[i].rule \notin {"R1", "R2"}
  OBVIOUS
<1> HIDE DEF len, n, c
<1>4. ASSUME NEW q \in 1..len + n, c[q].rule \in {"R1", "R2"}, At(t, c[q].at).op = "return"
      PROVE  /\ q + 1 <= len + n /\ c[q + 1].at = c[q].at
             /\ c[q + 1].rule \in {"R2", "R3"}
             /\ c[q].rule = "R2" => c[q + 1].rule = "R3"
  <2>1. CASE q <= len
    <3>1. q \in 1..len /\ c[q] = u[q]
      BY <1>1, <2>1
    <3>2. /\ q + 1 <= len /\ u[q + 1].at = u[q].at
          /\ u[q + 1].rule \in {"R2", "R3"}
          /\ u[q].rule = "R2" => u[q + 1].rule = "R3"
      BY <1>2, <1>4, <3>1
    <3>3. q + 1 \in 1..len + n /\ c[q + 1] = u[q + 1]
      BY <1>1, <3>1, <3>2
    <3> QED BY <3>1, <3>2, <3>3
  <2>2. CASE ~(q <= len)
    <3>1. q - len \in 1..n /\ c[q] = v[q - len]
      BY <1>1, <2>2
    <3> QED BY <1>3, <1>4, <3>1
  <2> QED BY <2>1, <2>2
<1> QED BY <1>1, <1>4 DEF Next3, c

\* The queue: each fact is of a position, none is forgotten, and R3 of a return
\* comes right after the R1 and R2 of the same return.
LEMMA FactsOf ==
    ASSUME NEW X, NEW t, Blocks(t, X)
    PROVE  /\ Facts(t) \in Seq(Duty(RuleNames, Spots(t)))
           /\ \A d \in Elements(Facts(t)) : d.at \in Spots(t) /\ Asks(d.rule, At(t, d.at))
           /\ \A p \in Spots(t) : \A r : Asks(r, At(t, p)) =>
                 [rule |-> r, at |-> p] \in Elements(Facts(t))
           /\ Next3(Facts(t), t)
<1> DEFINE ps == Positions(t)
           N == Len(ps)
           P == Spots(t)
           D == Duty(RuleNames, P)
           r1 == [n \in DOMAIN ps |-> RulesOf(At(t, ps[n]))]
           r2 == [n \in DOMAIN ps |-> EmitRulesOf(At(t, ps[n]))]
           r3 == [n \in DOMAIN ps |-> ReaderRulesOf(At(t, ps[n]))]
           d1 == Duties(ps, r1)
           d2 == Duties(ps, r2)
           d3 == Duties(ps, r3)
<1>1. ps \in Seq(P) /\ Elements(ps) = P
  BY PositionsOf, SeqOfElements
<1>2. DOMAIN ps = 1..N /\ N \in Nat /\ P = {ps[n] : n \in 1..N}
  BY <1>1, ElementsOf
<1>3. Facts(t) = d1 \o d2 \o d3
  BY DEF Facts
<1> HIDE DEF ps, N, P
<1>4. DOMAIN r1 = 1..N /\ DOMAIN r2 = 1..N /\ DOMAIN r3 = 1..N
  BY <1>2
<1>5. \A n \in 1..N : /\ r1[n] = RulesOf(At(t, ps[n])) /\ r2[n] = EmitRulesOf(At(t, ps[n]))
                       /\ r3[n] = ReaderRulesOf(At(t, ps[n]))
  BY <1>2
<1> HIDE DEF r1, r2, r3
<1>6. \A n \in 1..N : r1[n] \in Seq(RuleNames) /\ r2[n] \in Seq(RuleNames) /\ r3[n] \in Seq(RuleNames)
  BY <1>5, RulesOfShape, LateRules
<1>a. /\ ps \in Seq(P) /\ DOMAIN r1 = 1..Len(ps) /\ DOMAIN r2 = 1..Len(ps)
      /\ DOMAIN r3 = 1..Len(ps)
  BY <1>1, <1>4 DEF N
<1>b. /\ \A n \in 1..Len(ps) : r1[n] \in Seq(RuleNames)
      /\ \A n \in 1..Len(ps) : r2[n] \in Seq(RuleNames)
      /\ \A n \in 1..Len(ps) : r3[n] \in Seq(RuleNames)
  BY <1>6 DEF N
<1>d. d1 \in Seq(D) /\ Collects(d1, ps, r1) /\ Follows(d1, ps, r1)
  BY <1>a, <1>b, DutiesOf
<1>7. /\ d1 \in Seq(D)
      /\ \A d \in Elements(d1) : \E n \in 1..N : d.at = ps[n] /\ d.rule \in Elements(r1[n])
      /\ \A n \in 1..N : \A r \in Elements(r1[n]) : [rule |-> r, at |-> ps[n]] \in Elements(d1)
      /\ Follows(d1, ps, r1)
  BY <1>d DEF N, Collects
<1>e. d2 \in Seq(D) /\ Collects(d2, ps, r2) /\ Follows(d2, ps, r2)
  BY <1>a, <1>b, DutiesOf
<1>8. /\ d2 \in Seq(D)
      /\ \A d \in Elements(d2) : \E n \in 1..N : d.at = ps[n] /\ d.rule \in Elements(r2[n])
      /\ \A n \in 1..N : \A r \in Elements(r2[n]) : [rule |-> r, at |-> ps[n]] \in Elements(d2)
  BY <1>e DEF N, Collects
<1>f. d3 \in Seq(D) /\ Collects(d3, ps, r3) /\ Follows(d3, ps, r3)
  BY <1>a, <1>b, DutiesOf
<1>9. /\ d3 \in Seq(D)
      /\ \A d \in Elements(d3) : \E n \in 1..N : d.at = ps[n] /\ d.rule \in Elements(r3[n])
      /\ \A n \in 1..N : \A r \in Elements(r3[n]) : [rule |-> r, at |-> ps[n]] \in Elements(d3)
  BY <1>f DEF N, Collects
<1> HIDE DEF d1, d2, d3, D
<1>10. /\ d1 \o d2 \in Seq(D) /\ Elements(d1 \o d2) = Elements(d1) \cup Elements(d2)
  BY <1>7, <1>8, ElementsConcat
<1>11. /\ d1 \o d2 \o d3 \in Seq(D)
       /\ Elements(d1 \o d2 \o d3) = Elements(d1) \cup Elements(d2) \cup Elements(d3)
  <2> DEFINE e == d1 \o d2
  <2>1. e \in Seq(D) /\ d3 \in Seq(D) /\ Elements(e) = Elements(d1) \cup Elements(d2)
    BY <1>9, <1>10
  <2> HIDE DEF e
  <2>2. e \o d3 \in Seq(D) /\ Elements(e \o d3) = Elements(e) \cup Elements(d3)
    BY <2>1, ElementsConcat
  <2> QED BY <2>1, <2>2 DEF e
<1>12. ASSUME NEW d \in Elements(d1) \cup Elements(d2) \cup Elements(d3)
       PROVE  d.at \in P /\ Asks(d.rule, At(t, d.at))
  <2>1. CASE d \in Elements(d1)
    <3>1. PICK n \in 1..N : d.at = ps[n] /\ d.rule \in Elements(r1[n])
      BY <1>7, <2>1
    <3> QED BY <1>2, <1>5, <3>1, RulesOfShape DEF Asks
  <2>2. CASE d \in Elements(d2)
    <3>1. PICK n \in 1..N : d.at = ps[n] /\ d.rule \in Elements(r2[n])
      BY <1>8, <2>2
    <3> QED BY <1>2, <1>5, <3>1, LateRules DEF Asks
  <2>3. CASE d \in Elements(d3)
    <3>1. PICK n \in 1..N : d.at = ps[n] /\ d.rule \in Elements(r3[n])
      BY <1>9, <2>3
    <3> QED BY <1>2, <1>5, <3>1, LateRules DEF Asks
  <2> QED BY <1>12, <2>1, <2>2, <2>3
<1>13. ASSUME NEW p \in P, NEW r, Asks(r, At(t, p))
       PROVE  [rule |-> r, at |-> p] \in Elements(d1) \cup Elements(d2) \cup Elements(d3)
  <2>1. PICK n \in 1..N : p = ps[n]
    BY <1>2, <1>13
  <2>2. r \in Elements(r1[n]) \/ r \in Elements(r2[n]) \/ r \in Elements(r3[n])
    BY <1>5, <1>13, <2>1, RulesOfShape, LateRules DEF Asks
  <2> QED BY <1>7, <1>8, <1>9, <2>1, <2>2
<1>14. Next3(d1, t)
  <2>1. ASSUME NEW q \in 1..Len(d1), d1[q].rule \in {"R1", "R2"}, At(t, d1[q].at).op = "return"
        PROVE  /\ q + 1 <= Len(d1) /\ d1[q + 1].at = d1[q].at
               /\ d1[q + 1].rule \in {"R2", "R3"}
               /\ d1[q].rule = "R2" => d1[q + 1].rule = "R3"
    <3>1. PICK n \in 1..N : \E k \in 1..Len(r1[n]) :
             /\ d1[q] = [rule |-> r1[n][k], at |-> ps[n]]
             /\ k < Len(r1[n]) => /\ q + 1 <= Len(d1)
                                  /\ d1[q + 1] = [rule |-> r1[n][k + 1], at |-> ps[n]]
      BY <1>7, <2>1 DEF Follows, N
    <3>2. PICK k \in 1..Len(r1[n]) :
             /\ d1[q] = [rule |-> r1[n][k], at |-> ps[n]]
             /\ k < Len(r1[n]) => /\ q + 1 <= Len(d1)
                                  /\ d1[q + 1] = [rule |-> r1[n][k + 1], at |-> ps[n]]
      BY <3>1
    <3>3. Asked3(At(t, ps[n]))
      BY <2>1, <3>2 DEF Asked3, Computes
    <3>4. /\ r1[n][k] \in {"R1", "R2"} => k < Len(r1[n]) /\ r1[n][k + 1] \in {"R2", "R3"}
          /\ r1[n][k] = "R2" => r1[n][k + 1] = "R3"
      BY <1>5, <3>3, RulesOfShape
    <3> QED BY <2>1, <3>2, <3>4
  <2> QED BY <2>1 DEF Next3
<1>15. /\ \A d \in Elements(d2) : d.rule \notin {"R1", "R2"}
       /\ \A d \in Elements(d3) : d.rule \notin {"R1", "R2"}
  BY <1>5, <1>8, <1>9, LateRules
<1>16. /\ \A i \in 1..Len(d2) : d2[i].rule \notin {"R1", "R2"}
       /\ \A i \in 1..Len(d3) : d3[i].rule \notin {"R1", "R2"}
  <2>1. Elements(d2) = {d2[i] : i \in 1..Len(d2)} /\ Elements(d3) = {d3[i] : i \in 1..Len(d3)}
    BY <1>8, <1>9, ElementsOf
  <2> QED BY <1>15, <2>1
<1>17. Next3(d1 \o d2, t)
  BY <1>7, <1>8, <1>14, <1>16, Next3Prefix
<1>18. Next3(d1 \o d2 \o d3, t)
  BY <1>9, <1>10, <1>16, <1>17, Next3Prefix
<1> QED BY <1>3, <1>11, <1>12, <1>13, <1>18 DEF D, P

-----------------------------------------------------------------------------
(* What a rule finds, as conditions on the text it reads.                  *)

GrantedWrite(t, p, call) ==
    \/ Granted(ForwardWindow(t, p, call.e), call)
    \/ /\ call.e \notin Policied
       /\ \E l \in AssignedLocal(At(t, p)) :
            \/ Granted(LocalWindow(t, p, l), [call EXCEPT !.e = l])
            \/ /\ call.fn = "allowThis"
               /\ \E fn \in {"allowPublic", "allowGlobal"} :
                    Granted(LocalWindow(t, p, l), Grant(fn, l, None))

Quiet1(t, k, p) ==
    \/ k = "view" \/ Wrapped(At(t, p))
    \/ \A c \in Elements(WriteCalls(At(t, p).into)) : GrantedWrite(t, p, c)
Quiet2(t, k, p) ==
    \/ k = "view"
    \/ Granted(BackwardWindow(t, p), Grant("allowTransient", At(t, p).e, At(t, p).to))
Quiet3(t, k, p) ==
    \/ k # "public"
    \/ /\ At(t, p).into = None /\ At(t, p).to = None
       /\ Granted(BackwardWindow(t, p), Grant("allowTransient", At(t, p).e, Sender))
Quiet5(t, p) ==
    \/ ~EventPolicy \/ At(t, p).e = "wrap"
    \/ /\ IsIdent(At(t, p).e)
       /\ \A c \in Elements(EventCalls(At(t, p).e)) : Granted(BackwardWindow(t, p), c)
QuietR(t, p) ==
    \A x \in Policied : \A c \in Elements(WriteCalls(x)) :
       Granted(ForwardWindow(t, p, x), c)

Quiet(t, k, d) ==
    /\ d.rule = "R1" => Quiet1(t, k, d.at)
    /\ d.rule = "R2" => Quiet2(t, k, d.at)
    /\ d.rule = "R3" => Quiet3(t, k, d.at)
    /\ d.rule = "R5" => Quiet5(t, d.at)
    /\ d.rule = "reapply" => QuietR(t, d.at)

WriteGrants(x) == {Grant("allowThis", x, None), Grant("allow", x, "reader"),
                   Grant("allowSender", x, None)}
EventGrants(x) == {Grant("allowThis", x, None), Grant("allow", x, Witness)}

\* The grants of a write.
LEMMA CallsAre ==
    ASSUME NEW x
    PROVE  /\ WriteCalls(x) \in Seq(WriteGrants(x))
           /\ \A c \in Elements(WriteCalls(x)) : c \in WriteGrants(x) /\ c.e = x
           /\ EventCalls(x) \in Seq(EventGrants(x))
           /\ Elements(EventCalls(x)) = EventGrants(x)
<1> DEFINE G == WriteGrants(x)
           a == Grant("allowThis", x, None)
           b == Grant("allow", x, "reader")
           c == Grant("allowSender", x, None)
<1>1. a \in G /\ b \in G /\ c \in G
  BY DEF WriteGrants
<1>2. WriteCalls(x) = <<a>> \o (IF x \in Policied THEN <<b>>
                                ELSE IF x \in SenderKeyed THEN <<c>> ELSE << >>)
  BY DEF WriteCalls
<1> HIDE DEF G, a, b, c
<1>3. <<a>> \in Seq(G) /\ <<b>> \in Seq(G) /\ <<c>> \in Seq(G) /\ << >> \in Seq(G)
  BY <1>1
<1>4. WriteCalls(x) \in Seq(G)
  <2> DEFINE z == IF x \in Policied THEN <<b>> ELSE IF x \in SenderKeyed THEN <<c>> ELSE << >>
  <2>1. z \in Seq(G)
    BY <1>3
  <2> HIDE DEF z
  <2>2. <<a>> \o z \in Seq(G)
    BY <1>3, <2>1, ConcatProperties
  <2> QED BY <1>2, <2>2 DEF z
<1>5. \A g \in G : g.e = x
  BY DEF G, WriteGrants, Grant
<1>6. Elements(WriteCalls(x)) \subseteq G
  BY <1>4, ElementsOf
<1>7. EventCalls(x) \in Seq(EventGrants(x)) /\ Elements(EventCalls(x)) = EventGrants(x)
  <2>1. /\ Grant("allowThis", x, None) \in EventGrants(x)
        /\ Grant("allow", x, Witness) \in EventGrants(x)
    BY DEF EventGrants
  <2> QED BY <2>1, TwoElements DEF EventCalls, EventGrants
<1> QED BY <1>4, <1>5, <1>6, <1>7 DEF G

\* Nothing is missing just where all is granted.
LEMMA MissingIs ==
    ASSUME NEW S, NEW calls \in Seq(S), NEW p
    PROVE  /\ MissingBefore(p, calls) \in Seq(S) /\ MissingAfter(p, calls) \in Seq(S)
           /\ Elements(MissingBefore(p, calls)) =
                 {c \in Elements(calls) : ~Granted(BackwardWindow(text, p), c)}
           /\ Elements(MissingAfter(p, calls)) =
                 {c \in Elements(calls) : ~Granted(ForwardWindow(text, p, c.e), c)}
<1> DEFINE B == {c \in Elements(calls) : ~Granted(BackwardWindow(text, p), c)}
           A == {c \in Elements(calls) : ~Granted(ForwardWindow(text, p, c.e), c)}
<1>1. MissingBefore(p, calls) = Those(calls, B) /\ MissingAfter(p, calls) = Those(calls, A)
  BY DEF MissingBefore, MissingAfter
<1>2. B \subseteq Elements(calls) /\ A \subseteq Elements(calls)
  OBVIOUS
<1>3. B = {c \in Elements(calls) : ~Granted(BackwardWindow(text, p), c)}
  OBVIOUS
<1>4. A = {c \in Elements(calls) : ~Granted(ForwardWindow(text, p, c.e), c)}
  OBVIOUS
<1> HIDE DEF A, B
<1>5. Those(calls, B) \in Seq(S) /\ Elements(Those(calls, B)) = Elements(calls) \cap B
  BY ElementsThose
<1>6. Those(calls, A) \in Seq(S) /\ Elements(Those(calls, A)) = Elements(calls) \cap A
  BY ElementsThose
<1> QED BY <1>1, <1>2, <1>3, <1>4, <1>5, <1>6

\* At a write,
LEMMA MissingWrite ==
    ASSUME NEW p
    PROVE  LET x == At(text, p).into IN
           /\ MissingAtWrite(p) \in Seq(WriteGrants(x))
           /\ MissingAtWrite(p) = << >> <=> Quiet1(text, kind, p)
           /\ \A c \in Elements(WriteCalls(x)) :
                 kind # "view" /\ ~Wrapped(At(text, p)) =>
                    GrantedWrite(text, p, c) \/ c \in Elements(MissingAtWrite(p))
<1> DEFINE x == At(text, p).into
           B == {c \in Elements(WriteCalls(x)) : ~GrantedWrite(text, p, c)}
<1>1. B = {c \in Elements(WriteCalls(x)) : ~GrantedAtWrite(p, c)}
  BY DEF GrantedAtWrite, GrantedWrite
<1>2. MissingAtWrite(p) = IF kind = "view" \/ Wrapped(At(text, p)) THEN << >>
                          ELSE Those(WriteCalls(x), B)
  BY <1>1 DEF MissingAtWrite
<1>3. B = {c \in Elements(WriteCalls(x)) : ~GrantedWrite(text, p, c)}
  OBVIOUS
<1>4. << >> \in Seq(WriteGrants(x)) /\ Elements(<< >>) = {}
  BY EmptySeq, ElementsEmpty
<1> HIDE DEF B, x
<1>5. WriteCalls(x) \in Seq(WriteGrants(x))
  BY CallsAre
<1>6. /\ Those(WriteCalls(x), B) \in Seq(WriteGrants(x))
      /\ Elements(Those(WriteCalls(x), B)) = B
      /\ Those(WriteCalls(x), B) = << >> <=> B = {}
  <2>1. /\ Those(WriteCalls(x), B) \in Seq(WriteGrants(x))
        /\ Elements(Those(WriteCalls(x), B)) = Elements(WriteCalls(x)) \cap B
    BY <1>5, ElementsThose
  <2>2. Those(WriteCalls(x), B) = << >> <=> Elements(Those(WriteCalls(x), B)) = {}
    BY <2>1, ElementsEmpty
  <2> QED BY <1>3, <2>1, <2>2
<1>7. CASE kind = "view" \/ Wrapped(At(text, p))
  BY <1>2, <1>4, <1>7 DEF Quiet1, x
<1>8. CASE ~(kind = "view" \/ Wrapped(At(text, p)))
  <2>1. MissingAtWrite(p) = Those(WriteCalls(x), B)
    BY <1>2, <1>8
  <2>2. Quiet1(text, kind, p) <=> \A c \in Elements(WriteCalls(x)) : GrantedWrite(text, p, c)
    BY <1>8 DEF Quiet1, x
  <2> QED BY <1>3, <1>6, <2>1, <2>2 DEF x
<1> QED BY <1>7, <1>8

\* and where one grant is asked for.
LEMMA MissingOne ==
    ASSUME NEW p, NEW g
    PROVE  MissingBefore(p, <<g>>) = << >> <=> Granted(BackwardWindow(text, p), g)
<1>1. <<g>> \in Seq({g}) /\ Elements(<<g>>) = {g}
  BY OneElement
<1>2. MissingBefore(p, <<g>>) \in Seq({g})
      /\ Elements(MissingBefore(p, <<g>>)) =
            {c \in {g} : ~Granted(BackwardWindow(text, p), c)}
  <2> DEFINE calls == <<g>>
  <2> HIDE DEF calls
  <2>1. calls \in Seq({g}) /\ Elements(calls) = {g}
    BY <1>1 DEF calls
  <2>2. MissingBefore(p, calls) \in Seq({g})
        /\ Elements(MissingBefore(p, calls)) =
              {c \in Elements(calls) : ~Granted(BackwardWindow(text, p), c)}
    BY <2>1, MissingIs
  <2> QED BY <2>1, <2>2 DEF calls
<1>3. MissingBefore(p, <<g>>) = << >> <=> Elements(MissingBefore(p, <<g>>)) = {}
  BY <1>2, ElementsEmpty
<1> QED BY <1>2, <1>3

\* A guard's lines: none, or the guard.
LEMMA GuardLinesAre ==
    ASSUME NEW e, NEW calls
    PROVE  /\ GuardLines(e, calls) = << >> <=> calls = << >>
           /\ calls # << >> => GuardLines(e, calls) = <<Guard(e, calls)>>
<1>1. <<Guard(e, calls)>> # << >>
  BY OneElement, ElementsEmpty
<1> QED BY <1>1 DEF GuardLines

-----------------------------------------------------------------------------
(* Splicing: where the old statements stand among the inserted ones.       *)

\* What the splice makes of one statement: lines before, the statement or its
\* replacement, lines after.
LEMMA PieceAt ==
    ASSUME NEW X, NEW B \in Seq(X), NEW M \in Seq(X), NEW A \in Seq(X)
    PROVE  /\ B \o M \o A \in Seq(X) /\ Len(B) \in Nat /\ Len(M) \in Nat /\ Len(A) \in Nat
           /\ Len(B \o M \o A) = Len(B) + Len(M) + Len(A)
           /\ \A k \in 1..Len(B) + Len(M) + Len(A) : (B \o M \o A)[k] =
                 IF k <= Len(B) THEN B[k]
                 ELSE IF k <= Len(B) + Len(M) THEN M[k - Len(B)]
                 ELSE A[k - (Len(B) + Len(M))]
<1> DEFINE x == Len(B)
           y == Len(M)
           z == Len(A)
           e == B \o M
<1>1. x \in Nat /\ y \in Nat /\ z \in Nat
  BY LenProperties
<1>2. e \in Seq(X) /\ Len(e) = x + y /\ \A k \in 1..x + y : e[k] = IF k <= x THEN B[k] ELSE M[k - x]
  BY ConcatProperties
<1> HIDE DEF e, x, y, z
<1>3. /\ e \o A \in Seq(X) /\ Len(e \o A) = Len(e) + z
      /\ \A k \in 1..Len(e) + z : (e \o A)[k] = IF k <= Len(e) THEN e[k] ELSE A[k - Len(e)]
  BY <1>2, ConcatProperties DEF z
<1>4. ASSUME NEW k \in 1..x + y + z
      PROVE  (e \o A)[k] = IF k <= x THEN B[k] ELSE IF k <= x + y THEN M[k - x] ELSE A[k - (x + y)]
  <2>1. k \in 1..Len(e) + z
    BY <1>2
  <2>2. (e \o A)[k] = IF k <= x + y THEN e[k] ELSE A[k - (x + y)]
    BY <1>2, <1>3, <2>1
  <2>3. CASE k <= x + y
    <3>1. k \in 1..x + y
      BY <1>1, <2>3
    <3> QED BY <1>1, <1>2, <2>2, <2>3, <3>1
  <2>4. CASE ~(k <= x + y)
    <3>1. ~(k <= x)
      BY <1>1, <2>4
    <3> QED BY <2>2, <2>4, <3>1
  <2> QED BY <2>3, <2>4
<1> QED BY <1>1, <1>2, <1>3, <1>4 DEF e, x, y, z

\* The new statements of a block: home[i] is where the i-th old one went.
Homes(home, new, n, M) ==
    /\ home \in [1..n -> 1..Len(new)]
    /\ \A i \in 1..n : new[home[i]] = M[i][1]
    /\ \A i, j \in 1..n : i < j => home[i] < home[j]
Above(home, new, n, B) ==
    \A i \in 1..n : \A x \in Elements(B[i]) :
       \E q \in 1..Len(new) : q < home[i] /\ new[q] = x
Below(home, new, n, M, A) ==
    \A i \in 1..n : \A x :
       x \in Elements(A[i]) \/ (\E k \in 2..Len(M[i]) : x = M[i][k]) =>
          \E q \in 1..Len(new) : /\ home[i] < q /\ new[q] = x
                                 /\ \A j \in 1..n : i < j => q < home[j]
Else(home, new, n, B, M, A) ==
    \A q \in 1..Len(new) : \E i \in 1..n :
       \/ q = home[i]
       \/ /\ \A j \in 1..n : q # home[j]
          /\ \/ new[q] \in Elements(B[i]) \cup Elements(A[i])
             \/ \E k \in 2..Len(M[i]) : new[q] = M[i][k] /\ q - 1 \in 1..Len(new)
                                        /\ new[q - 1] = M[i][k - 1]

\* Every old statement has a home among the pieces, in the old order.
LEMMA HomesExist ==
    ASSUME NEW X, NEW n \in Nat, NEW B, NEW M, NEW A, NEW ss,
           \A i \in 1..n : B[i] \in Seq(X) /\ M[i] \in Seq(X) /\ A[i] \in Seq(X),
           \A i \in 1..n : M[i] # << >>,
           ss = [i \in 1..n |-> B[i] \o M[i] \o A[i]]
    PROVE  \E home \in [1..n -> 1..Len(Concat(ss))] :
              /\ Homes(home, Concat(ss), n, M) /\ Above(home, Concat(ss), n, B)
              /\ Below(home, Concat(ss), n, M, A) /\ Else(home, Concat(ss), n, B, M, A)
<1> DEFINE new == Concat(ss)
           L == Len(new)
           b == [i \in 1..n |-> Len(B[i])]
           m1 == [i \in 1..n |-> Len(M[i])]
           a == [i \in 1..n |-> Len(A[i])]
<1>1. ASSUME NEW i \in 1..n
      PROVE  /\ ss[i] = B[i] \o M[i] \o A[i] /\ ss[i] \in Seq(X)
             /\ b[i] \in Nat /\ m1[i] \in Nat /\ a[i] \in Nat /\ m1[i] >= 1
             /\ Len(ss[i]) = b[i] + m1[i] + a[i]
             /\ \A k \in 1..b[i] + m1[i] + a[i] : ss[i][k] =
                   IF k <= b[i] THEN B[i][k]
                   ELSE IF k <= b[i] + m1[i] THEN M[i][k - b[i]]
                   ELSE A[i][k - (b[i] + m1[i])]
  <2> DEFINE u == B[i]
             v == M[i]
             w == A[i]
  <2>1. u \in Seq(X) /\ v \in Seq(X) /\ w \in Seq(X) /\ v # << >>
    OBVIOUS
  <2>2. ss[i] = u \o v \o w /\ b[i] = Len(u) /\ m1[i] = Len(v) /\ a[i] = Len(w)
    OBVIOUS
  <2> HIDE DEF u, v, w, b, m1, a
  <2>3. Len(v) \in Nat /\ Len(v) # 0
    BY <2>1, EmptySeq, LenProperties
  <2>4. /\ u \o v \o w \in Seq(X) /\ Len(u) \in Nat /\ Len(v) \in Nat /\ Len(w) \in Nat
        /\ Len(u \o v \o w) = Len(u) + Len(v) + Len(w)
        /\ \A k \in 1..Len(u) + Len(v) + Len(w) : (u \o v \o w)[k] =
              IF k <= Len(u) THEN u[k]
              ELSE IF k <= Len(u) + Len(v) THEN v[k - Len(u)]
              ELSE w[k - (Len(u) + Len(v))]
    BY <2>1, PieceAt
  <2>5. Len(v) >= 1
    BY <2>3
  <2> QED BY <2>2, <2>4, <2>5 DEF u, v, w
<1>2. ss \in Seq(Seq(X)) /\ Len(ss) = n
  <2>1. ss \in [1..n -> Seq(X)]
    BY <1>1
  <2> QED BY <2>1, FunctionSeq
<1> HIDE DEF new, L, b, m1, a
<1>3. PICK off \in [0..Len(ss) -> Nat] :
         /\ Laid(ss, off) /\ Len(Concat(ss)) = off[Len(ss)]
         /\ \A i \in 1..Len(ss) : \A k \in 1..Len(ss[i]) :
               Concat(ss)[off[i - 1] + k] = ss[i][k]
  <2>1. \E off \in [0..Len(ss) -> Nat] : LaidOut(ss, off)
    BY <1>2, ConcatLaid
  <2> QED BY <2>1 DEF LaidOut
<1>4. Covered(ss, off) /\ (\A j \in 0..Len(ss) : \A i \in 0..j : off[i] <= off[j])
  BY <1>2, <1>3, LaidFinds, LaidOrder
<1>5. /\ off \in [0..n -> Nat] /\ L = off[n]
      /\ \A i \in 1..n : \A k \in 1..Len(ss[i]) : new[off[i - 1] + k] = ss[i][k]
      /\ \A i \in 1..n : off[i] = off[i - 1] + Len(ss[i])
      /\ \A j \in 0..n : \A i \in 0..j : off[i] <= off[j]
      /\ \A q \in 1..off[n] : \E i \in 1..n : \E k \in 1..Len(ss[i]) : q = off[i - 1] + k
  BY <1>2, <1>3, <1>4 DEF Laid, Covered, new, L
<1> DEFINE home == [i \in 1..n |-> off[i - 1] + b[i] + 1]
<1>6. \A i \in 1..n : home[i] = off[i - 1] + b[i] + 1
  OBVIOUS
<1> HIDE DEF home
<1>7. ASSUME NEW i \in 1..n
      PROVE  /\ off[i - 1] \in Nat /\ off[i] \in Nat /\ off[i] <= L /\ L \in Nat
             /\ off[i] = off[i - 1] + b[i] + m1[i] + a[i]
             /\ \A j \in 1..n : i < j => off[i] <= off[j - 1]
             /\ \A k \in 1..b[i] + m1[i] + a[i] :
                   off[i - 1] + k \in 1..L /\ new[off[i - 1] + k] = ss[i][k]
  <2>1. i - 1 \in 0..n /\ i \in 0..n /\ n \in 0..n
    OBVIOUS
  <2>2. \A j \in 0..n : off[j] \in Nat
    BY <1>5
  <2>3. off[i - 1] \in Nat /\ off[i] \in Nat /\ L \in Nat /\ off[i] <= L
    BY <1>5, <2>1, <2>2
  <2>4. off[i] = off[i - 1] + b[i] + m1[i] + a[i] /\ b[i] \in Nat /\ m1[i] \in Nat /\ a[i] \in Nat
    <3>1. off[i] = off[i - 1] + Len(ss[i]) /\ Len(ss[i]) = b[i] + m1[i] + a[i]
      BY <1>1, <1>5
    <3>2. b[i] \in Nat /\ m1[i] \in Nat /\ a[i] \in Nat
      BY <1>1
    <3> DEFINE o == off[i - 1]
               u == b[i]
               v == m1[i]
               w == a[i]
               l == Len(ss[i])
    <3>3. off[i] = o + l /\ l = u + v + w /\ u \in Nat /\ v \in Nat /\ w \in Nat /\ o \in Nat
      BY <2>3, <3>1, <3>2
    <3> HIDE DEF o, u, v, w, l
    <3>4. off[i] = o + u + v + w
      BY <3>3
    <3> QED BY <3>2, <3>4 DEF o, u, v, w
  <2>5. ASSUME NEW j \in 1..n, i < j PROVE off[i] <= off[j - 1]
    <3>1. j - 1 \in 0..n /\ i \in 0..j - 1
      BY <2>5
    <3> QED BY <1>5, <3>1
  <2>6. ASSUME NEW k \in 1..b[i] + m1[i] + a[i]
        PROVE  off[i - 1] + k \in 1..L /\ new[off[i - 1] + k] = ss[i][k]
    <3>1. k \in 1..Len(ss[i])
      BY <1>1
    <3> DEFINE o == off[i - 1]
    <3>2. new[o + k] = ss[i][k]
      BY <1>5, <3>1
    <3> DEFINE u == b[i]
               v == m1[i]
               w == a[i]
               f == off[i]
    <3>3. o \in Nat /\ u \in Nat /\ v \in Nat /\ w \in Nat /\ L \in Nat /\ f <= L
          /\ f = o + u + v + w /\ k \in 1..u + v + w
      BY <2>3, <2>4
    <3> HIDE DEF o, u, v, w, f
    <3>4. o + k \in 1..L
      BY <3>3
    <3> QED BY <3>2, <3>4 DEF o
  <2> QED BY <2>3, <2>4, <2>5, <2>6
<1>8. ASSUME NEW i \in 1..n
      PROVE  /\ home[i] \in 1..L /\ new[home[i]] = M[i][1]
             /\ off[i - 1] < home[i] /\ home[i] <= off[i] /\ home[i] - off[i - 1] = b[i] + 1
  <2> DEFINE k == b[i] + 1
             o == off[i - 1]
             x == b[i]
             y == m1[i]
             z == a[i]
  <2>1. x \in Nat /\ y \in Nat /\ z \in Nat /\ y >= 1 /\ o \in Nat
    BY <1>1, <1>7
  <2>2. off[i] = o + x + y + z
    BY <1>7
  <2> HIDE DEF o, x, y, z
  <2>3. k = x + 1
    BY DEF x
  <2> HIDE DEF k
  <2>4. k \in 1..x + y + z /\ ~(k <= x) /\ k <= x + y /\ k - x = 1
    BY <2>1, <2>3
  <2>5. o + k \in 1..L /\ new[o + k] = ss[i][k]
    BY <1>7, <2>4 DEF o, x, y, z
  <2>6. ss[i][k] = M[i][k - x]
    BY <1>1, <2>4 DEF x, y, z
  <2>7. home[i] = o + x + 1
    BY <1>6 DEF o, x
  <2>8. home[i] = o + k
    BY <2>1, <2>3, <2>7
  <2>9. o < home[i] /\ home[i] <= off[i] /\ home[i] - o = x + 1
    BY <2>1, <2>2, <2>7
  <2> QED BY <2>4, <2>5, <2>6, <2>8, <2>9 DEF o, x
<1>9. ASSUME NEW i \in 1..n, NEW j \in 1..n, i < j PROVE home[i] < home[j] /\ off[i] < home[j]
  <2>1. home[i] <= off[i] /\ off[i] <= off[j - 1] /\ off[j - 1] < home[j]
    BY <1>7, <1>8, <1>9
  <2>2. home[i] \in Nat /\ home[j] \in Nat /\ off[i] \in Nat /\ off[j - 1] \in Nat
    BY <1>7, <1>8
  <2> QED BY <2>1, <2>2
<1>10. Homes(home, new, n, M)
  BY <1>8, <1>9 DEF Homes, home, L
<1>11. ASSUME NEW i \in 1..n, NEW x \in Elements(B[i])
       PROVE  \E q \in 1..L : q < home[i] /\ new[q] = x
  <2>1. PICK k \in 1..b[i] : x = B[i][k]
    <3>1. b[i] = Len(B[i])
      BY DEF b
    <3>2. B[i] \in Seq(X)
      OBVIOUS
    <3>3. Elements(B[i]) = {B[i][k] : k \in 1..Len(B[i])}
      BY <3>2, ElementsOf
    <3> QED BY <1>11, <3>1, <3>3
  <2> DEFINE o == off[i - 1]
  <2>2. b[i] \in Nat /\ m1[i] \in Nat /\ a[i] \in Nat /\ o \in Nat /\ home[i] = o + b[i] + 1
    BY <1>1, <1>6, <1>7
  <2>3. k \in 1..b[i] + m1[i] + a[i] /\ k <= b[i]
    BY <2>2
  <2>4. o + k \in 1..L /\ new[o + k] = B[i][k]
    BY <1>1, <1>7, <2>3
  <2> HIDE DEF o
  <2>5. o + k < home[i]
    BY <2>2, <2>3
  <2> QED BY <2>1, <2>4, <2>5
<1>12. Above(home, new, n, B)
  BY <1>11 DEF Above, L
<1>13. ASSUME NEW i \in 1..n, NEW x,
              x \in Elements(A[i]) \/ (\E k \in 2..Len(M[i]) : x = M[i][k])
       PROVE  \E q \in 1..L : /\ home[i] < q /\ new[q] = x
                              /\ \A j \in 1..n : i < j => q < home[j]
  <2> DEFINE o == off[i - 1]
             u == b[i]
             v == m1[i]
             w == a[i]
  <2>1. u \in Nat /\ v \in Nat /\ w \in Nat /\ o \in Nat /\ home[i] = o + u + 1
        /\ off[i] = o + u + v + w /\ v >= 1
    BY <1>1, <1>6, <1>7
  <2>2. \E k \in u + 2..u + v + w : x = ss[i][k]
    <3>1. CASE x \in Elements(A[i])
      <4>1. w = Len(A[i]) /\ A[i] \in Seq(X)
        BY DEF a
      <4>2. Elements(A[i]) = {A[i][k] : k \in 1..Len(A[i])}
        BY <4>1, ElementsOf
      <4>3. PICK h \in 1..w : x = A[i][h]
        BY <3>1, <4>1, <4>2
      <4> HIDE DEF u, v, w
      <4> DEFINE k == u + v + h
      <4>4. k \in 1..u + v + w /\ k \in u + 2..u + v + w /\ ~(k <= u) /\ ~(k <= u + v)
            /\ k - (u + v) = h
        BY <2>1
      <4> HIDE DEF k
      <4>5. ss[i][k] = A[i][k - (u + v)]
        BY <1>1, <4>4 DEF u, v, w
      <4> QED BY <4>3, <4>4, <4>5
    <3>2. CASE \E k \in 2..Len(M[i]) : x = M[i][k]
      <4>1. v = Len(M[i])
        BY DEF m1
      <4>2. PICK h \in 2..v : x = M[i][h]
        BY <3>2, <4>1
      <4> HIDE DEF u, v, w
      <4> DEFINE k == u + h
      <4>3. k \in 1..u + v + w /\ k \in u + 2..u + v + w /\ ~(k <= u) /\ k <= u + v /\ k - u = h
        BY <2>1
      <4> HIDE DEF k
      <4>4. ss[i][k] = M[i][k - u]
        BY <1>1, <4>3 DEF u, v, w
      <4> QED BY <4>2, <4>3, <4>4
    <3> QED BY <1>13, <3>1, <3>2
  <2>3. PICK k \in u + 2..u + v + w : x = ss[i][k]
    BY <2>2
  <2>4. k \in 1..u + v + w
    BY <2>1, <2>3
  <2>5. o + k \in 1..L /\ new[o + k] = x
    BY <1>7, <2>3, <2>4
  <2> HIDE DEF o, u, v, w
  <2>6. home[i] < o + k /\ o + k <= off[i]
    BY <2>1
  <2>7. ASSUME NEW j \in 1..n, i < j PROVE o + k < home[j]
    <3>1. off[i] < home[j] /\ off[i] \in Nat /\ home[j] \in Nat
      BY <1>7, <1>8, <1>9, <2>7
    <3>2. o + k \in Nat /\ o + k <= off[i]
      BY <2>1, <2>3, <2>6
    <3> QED BY <3>1, <3>2
  <2> QED BY <2>5, <2>6, <2>7
<1>14. Below(home, new, n, M, A)
  BY <1>13 DEF Below, L
<1>15. ASSUME NEW q \in 1..L
       PROVE  \E i \in 1..n :
                 \/ q = home[i]
                 \/ /\ \A j \in 1..n : q # home[j]
                    /\ \/ new[q] \in Elements(B[i]) \cup Elements(A[i])
                       \/ \E k \in 2..Len(M[i]) : new[q] = M[i][k] /\ q - 1 \in 1..L
                                                  /\ new[q - 1] = M[i][k - 1]
  <2>1. PICK i \in 1..n : \E k \in 1..Len(ss[i]) : q = off[i - 1] + k
    BY <1>5
  <2>2. PICK k \in 1..Len(ss[i]) : q = off[i - 1] + k
    BY <2>1
  <2> DEFINE o == off[i - 1]
             u == b[i]
             v == m1[i]
             w == a[i]
  <2>3. u \in Nat /\ v \in Nat /\ w \in Nat /\ o \in Nat /\ home[i] = o + u + 1
        /\ off[i] = o + u + v + w /\ v >= 1 /\ L \in Nat
    BY <1>1, <1>6, <1>7
  <2>4. k \in 1..u + v + w /\ q = o + k
    BY <1>1, <2>2
  <2>5. new[q] = ss[i][k]
    BY <1>7, <2>4
  <2>6. ss[i][k] = IF k <= u THEN B[i][k]
                   ELSE IF k <= u + v THEN M[i][k - u]
                   ELSE A[i][k - (u + v)]
    BY <1>1, <2>4
  <2>7. u = Len(B[i]) /\ v = Len(M[i]) /\ w = Len(A[i])
    BY DEF b, m1, a
  <2>8. /\ Elements(B[i]) = {B[i][h] : h \in 1..Len(B[i])}
        /\ Elements(A[i]) = {A[i][h] : h \in 1..Len(A[i])}
    <3>1. B[i] \in Seq(X) /\ A[i] \in Seq(X)
      OBVIOUS
    <3> QED BY <3>1, ElementsOf
  <2>9. ASSUME q # home[i] PROVE \A j \in 1..n : q # home[j]
    <3>1. ASSUME NEW j \in 1..n, q = home[j] PROVE FALSE
      <4>1. home[i] \in Nat /\ home[j] \in Nat /\ off[i] \in Nat /\ off[j] \in Nat
            /\ off[j - 1] \in Nat
        BY <1>7, <1>8
      <4>2. q <= off[i] /\ q > o
        <5> HIDE DEF o, u, v, w
        <5> QED BY <2>3, <2>4
      <4>3. ~(i < j)
        <5>1. i < j => off[i] < home[j]
          BY <1>9
        <5> QED BY <3>1, <4>1, <4>2, <5>1
      <4>4. ~(j < i)
        <5>1. j < i => off[j] <= o
          BY <1>7
        <5>2. home[j] <= off[j]
          BY <1>8
        <5> QED BY <2>3, <3>1, <4>1, <4>2, <5>1, <5>2
      <4>5. i # j
        BY <2>9, <3>1
      <4> QED BY <4>3, <4>4, <4>5
    <3> QED BY <3>1
  <2>10. CASE q = home[i]
    BY <2>10
  <2>11. CASE q # home[i] /\ k <= u
    <3> HIDE DEF o, u, v, w
    <3>1. k \in 1..u /\ new[q] = B[i][k]
      <4>1. k \in 1..u
        BY <2>3, <2>4, <2>11
      <4>2. new[q] = ss[i][k] /\ k <= u
        BY <2>5, <2>11
      <4> QED BY <2>6, <4>1, <4>2
    <3>2. new[q] \in Elements(B[i])
      BY <2>7, <2>8, <3>1
    <3> QED BY <2>9, <2>11, <3>2
  <2>12. CASE q # home[i] /\ ~(k <= u) /\ k <= u + v
    <3> HIDE DEF o, u, v, w
    <3> DEFINE h == k - u
    <3>1. h \in 2..v /\ k = u + h /\ h - 1 \in 1..v
      <4>1. k # u + 1
        BY <2>3, <2>4, <2>12
      <4>2. k \in Nat /\ k > u + 1 /\ k <= u + v
        BY <2>3, <2>4, <2>12, <4>1
      <4> QED BY <2>3, <4>2
    <3>2. new[q] = M[i][h]
      BY <2>5, <2>6, <2>12
    <3> HIDE DEF h
    <3> DEFINE g == k - 1
    <3>3. g \in 1..u + v + w /\ ~(g <= u) /\ g <= u + v /\ g - u = h - 1 /\ q - 1 = o + g
      BY <2>3, <2>4, <2>12, <3>1
    <3> HIDE DEF g
    <3>4. o + g \in 1..L /\ new[o + g] = ss[i][g]
      BY <1>7, <3>3 DEF o, u, v, w
    <3>5. ss[i][g] = M[i][g - u]
      BY <1>1, <3>3 DEF u, v, w
    <3>6. q - 1 \in 1..L /\ new[q - 1] = M[i][h - 1]
      BY <3>3, <3>4, <3>5
    <3>7. \E x \in 2..Len(M[i]) : new[q] = M[i][x] /\ q - 1 \in 1..L /\ new[q - 1] = M[i][x - 1]
      BY <2>7, <3>1, <3>2, <3>6
    <3> QED BY <2>9, <2>12, <3>7
  <2>13. CASE q # home[i] /\ ~(k <= u) /\ ~(k <= u + v)
    <3> HIDE DEF o, u, v, w
    <3>1. k - (u + v) \in 1..w
      BY <2>3, <2>4, <2>13
    <3>2. new[q] = A[i][k - (u + v)]
      BY <2>5, <2>6, <2>13
    <3>3. new[q] \in Elements(A[i])
      BY <2>7, <2>8, <3>1, <3>2
    <3> QED BY <2>9, <2>13, <3>3
  <2> QED BY <2>10, <2>11, <2>12, <2>13
<1>16. Else(home, new, n, B, M, A)
  BY <1>15 DEF Else, L
<1> QED BY <1>10, <1>12, <1>14, <1>16 DEF Homes, new

-----------------------------------------------------------------------------
(* A text grown out of another: every old statement has a home, in the old *)
(* order, and what is new beside them writes nothing the author reads.     *)

TempNames == Elements(Temps)

\* What may stand in the place of a statement.
Kin(s, z) ==
    \/ z = s
    \/ s.op = "emit" /\ z.op = "emit"
    \/ /\ Computes(s) /\ s.to # None
       /\ z.op = s.op /\ z.into = s.into /\ z.to = s.to
       /\ s.op = "decl" => z.name = s.name
    \/ /\ s.op = "return" /\ z.op = "decl" /\ z.name \in TempNames
       /\ z.into = s.into /\ z.to = s.to /\ z.e = s.e

Still(s) ==
    \/ s.op = "guard"
    \/ s.op = "decl" /\ s.into = None /\ s.to = None /\ s.name \in TempNames
    \/ s.op = "return" /\ s.into = None /\ s.to = None

Grown(t, u, b, home) ==
    /\ DOMAIN t[b].stmts = 1..Len(t[b].stmts) /\ Len(t[b].stmts) \in Nat
    /\ DOMAIN u[b].stmts = 1..Len(u[b].stmts) /\ Len(u[b].stmts) \in Nat
    /\ home \in [1..Len(t[b].stmts) -> 1..Len(u[b].stmts)]
    /\ \A i, j \in 1..Len(t[b].stmts) : i < j => home[i] < home[j]
    /\ \A i \in 1..Len(t[b].stmts) : Kin(t[b].stmts[i], u[b].stmts[home[i]])
    /\ \A q \in 1..Len(u[b].stmts) :
          (\E i \in 1..Len(t[b].stmts) : q = home[i]) \/ Still(u[b].stmts[q])

AllGrown(t, u) ==
    /\ DOMAIN u = DOMAIN t
    /\ \A b \in DOMAIN t : \E home : Grown(t, u, b, home)
    /\ \A b \in DOMAIN t : \A i \in 1..Len(t[b].stmts) :
          t[b].stmts[i].op = "branch" => t[b].stmts[i].block \in DOMAIN t

HasGrant(s, c) == s = c \/ (s.op = "guard" /\ \E i \in DOMAIN s.calls : s.calls[i] = c)

\* A home of a grant is that grant.
LEMMA KinGrant ==
    ASSUME NEW s, NEW z, NEW c, Kin(s, z), HasGrant(s, c), c.op = "grant"
    PROVE  z = s
BY DEF Kin, HasGrant, Computes

\* A home that writes is one of a statement that writes the same.
LEMMA KinWrites ==
    ASSUME NEW s, NEW z, Kin(s, z), Computes(z)
    PROVE  Computes(s) /\ z.into = s.into
BY DEF Kin, Computes

\* What is inserted between homes writes nothing.
LEMMA StillWrites ==
    ASSUME NEW s, Still(s), NEW x, x # None
    PROVE  s.op # "branch" /\ ~(Computes(s) /\ s.into = x)
BY DEF Still, Computes

\* A home writes no more than the old statement did.
LEMMA GrownWrites ==
    ASSUME NEW t, NEW u, AllGrown(t, u), NEW b \in DOMAIN t, NEW home, Grown(t, u, b, home),
           NEW i \in 1..Len(t[b].stmts), NEW x, x # None,
           WritesTo(u, u[b].stmts[home[i]], x)
    PROVE  WritesTo(t, t[b].stmts[i], x)
<1> DEFINE s == t[b].stmts[i]
           z == u[b].stmts[home[i]]
<1>1. Kin(s, z)
  BY DEF Grown
<1>2. s.op = "branch" => s.block \in DOMAIN t
  BY DEF AllGrown
<1>3. \/ Computes(z) /\ z.into = x
      \/ z.op = "branch" /\ \E k \in DOMAIN u[z.block].stmts :
            Computes(u[z.block].stmts[k]) /\ u[z.block].stmts[k].into = x
  BY DEF WritesTo
<1> HIDE DEF s, z
<1>4. CASE Computes(z) /\ z.into = x
  <2>1. Computes(s) /\ s.into = x
    BY <1>1, <1>4, KinWrites
  <2> QED BY <2>1 DEF WritesTo, s
<1>5. CASE z.op = "branch" /\ \E k \in DOMAIN u[z.block].stmts :
              Computes(u[z.block].stmts[k]) /\ u[z.block].stmts[k].into = x
  <2>1. z = s
    BY <1>1, <1>5 DEF Kin, Computes
  <2> DEFINE d == s.block
  <2>2. d \in DOMAIN t
    BY <1>2, <1>5, <2>1
  <2>3. PICK h : Grown(t, u, d, h)
    BY <2>2 DEF AllGrown
  <2>4. PICK k \in 1..Len(u[d].stmts) : Computes(u[d].stmts[k]) /\ u[d].stmts[k].into = x
    BY <1>5, <2>1, <2>3 DEF Grown
  <2>5. ~Still(u[d].stmts[k])
    BY <2>4, StillWrites
  <2>6. PICK j \in 1..Len(t[d].stmts) : k = h[j]
    BY <2>3, <2>5 DEF Grown
  <2>7. Kin(t[d].stmts[j], u[d].stmts[k])
    BY <2>3, <2>6 DEF Grown
  <2>8. Computes(t[d].stmts[j]) /\ t[d].stmts[j].into = x /\ j \in DOMAIN t[d].stmts
    BY <2>3, <2>4, <2>7, KinWrites DEF Grown
  <2>9. \E j1 \in DOMAIN t[s.block].stmts :
           Computes(t[s.block].stmts[j1]) /\ t[s.block].stmts[j1].into = x
    BY <2>8
  <2>10. s.op = "branch"
    BY <1>5, <2>1
  <2> QED BY <2>9, <2>10 DEF WritesTo, s
<1> QED BY <1>3, <1>4, <1>5

\* The windows of a text, as conditions on positions.
LEMMA WindowsAre ==
    ASSUME NEW t, NEW p, NEW x, NEW c
    PROVE  /\ Granted(BackwardWindow(t, p), c) <=>
                 \E j \in 1..p[2] - 1 : HasGrant(t[p[1]].stmts[j], c)
           /\ Granted(ForwardWindow(t, p, x), c) <=>
                 \E j \in p[2] + 1..Len(t[p[1]].stmts) :
                    /\ HasGrant(t[p[1]].stmts[j], c)
                    /\ \A k \in p[2] + 1..j : ~WritesTo(t, t[p[1]].stmts[k], x)
           /\ Granted(LocalWindow(t, p, x), c) <=>
                 \E j \in 1..p[2] - 1 :
                    /\ HasGrant(t[p[1]].stmts[j], c)
                    /\ \A k \in j..p[2] - 1 :
                          /\ ~WritesTo(t, t[p[1]].stmts[k], x)
                          /\ ~(t[p[1]].stmts[k].op = "decl" /\ t[p[1]].stmts[k].name = x)
<1>1. Granted(BackwardWindow(t, p), c) <=>
         \E j \in 1..p[2] - 1 : HasGrant(t[p[1]].stmts[j], c)
  BY Zenon DEF Granted, BackwardWindow, In, Before, HasGrant
<1> DEFINE F == {j \in After(t, p) : \A i \in p[2] + 1 .. j : ~WritesTo(t, t[p[1]].stmts[i], x)}
           W == {j \in Before(t, p) : \A i \in j .. p[2] - 1 :
                    LET s == t[p[1]].stmts[i] IN
                    ~WritesTo(t, s, x) /\ ~(s.op = "decl" /\ s.name = x)}
<1>2. Granted(ForwardWindow(t, p, x), c) <=> \E j \in F : HasGrant(t[p[1]].stmts[j], c)
  <2>1. ForwardWindow(t, p, x) = {t[p[1]].stmts[j] : j \in F}
    BY DEF ForwardWindow, In
  <2> HIDE DEF F
  <2> QED BY <2>1, Zenon DEF Granted, HasGrant
<1>3. Granted(LocalWindow(t, p, x), c) <=> \E j \in W : HasGrant(t[p[1]].stmts[j], c)
  <2>1. LocalWindow(t, p, x) = {t[p[1]].stmts[j] : j \in W}
    BY DEF LocalWindow, In
  <2> HIDE DEF W
  <2> QED BY <2>1, Zenon DEF Granted, HasGrant
<1>4. After(t, p) = p[2] + 1..Len(t[p[1]].stmts) /\ Before(t, p) = 1..p[2] - 1
  BY DEF After, Before
<1>5. (\E j \in F : HasGrant(t[p[1]].stmts[j], c)) <=>
          \E j \in p[2] + 1..Len(t[p[1]].stmts) :
                    /\ HasGrant(t[p[1]].stmts[j], c)
                    /\ \A k \in p[2] + 1..j : ~WritesTo(t, t[p[1]].stmts[k], x)
  BY <1>4, Zenon
<1>6. (\E j \in W : HasGrant(t[p[1]].stmts[j], c)) <=>
          \E j \in 1..p[2] - 1 :
                    /\ HasGrant(t[p[1]].stmts[j], c)
                    /\ \A k \in j..p[2] - 1 :
                          /\ ~WritesTo(t, t[p[1]].stmts[k], x)
                          /\ ~(t[p[1]].stmts[k].op = "decl" /\ t[p[1]].stmts[k].name = x)
  BY <1>4, Zenon
<1> QED BY <1>1, <1>2, <1>3, <1>5, <1>6

\* A grant before a statement is before its home.
LEMMA BackwardKept ==
    ASSUME NEW t, NEW u, NEW b, NEW home, Grown(t, u, b, home),
           NEW i \in 1..Len(t[b].stmts), NEW c, c.op = "grant",
           Granted(BackwardWindow(t, <<b, i>>), c)
    PROVE  Granted(BackwardWindow(u, <<b, home[i]>>), c)
<1> DEFINE o == t[b].stmts
           z == u[b].stmts
<1>1. PICK j \in 1..i - 1 : HasGrant(o[j], c)
  <2> DEFINE p == <<b, i>>
  <2>1. p[1] = b /\ p[2] = i
    OBVIOUS
  <2>2. Granted(BackwardWindow(t, p), c)
    OBVIOUS
  <2> HIDE DEF p
  <2> QED BY <2>1, <2>2, WindowsAre
<1>2. j \in 1..Len(o) /\ j < i /\ i \in 1..Len(o)
  BY DEF Grown
<1>3. home[j] < home[i] /\ home[j] \in 1..Len(z) /\ home[i] \in 1..Len(z) /\ Kin(o[j], z[home[j]])
      /\ Len(z) \in Nat
  BY <1>2 DEF Grown
<1>4. HasGrant(z[home[j]], c)
  BY <1>1, <1>3, KinGrant
<1>5. home[j] \in 1..home[i] - 1
  BY <1>3
<1> DEFINE p == <<b, home[i]>>
<1>6. p[1] = b /\ p[2] = home[i]
  OBVIOUS
<1> HIDE DEF p
<1>7. Granted(BackwardWindow(u, p), c)
  BY <1>4, <1>5, <1>6, WindowsAre
<1> QED BY <1>7 DEF p

\* One after it, with no write between, is after its home with none.
LEMMA ForwardKept ==
    ASSUME NEW t, NEW u, AllGrown(t, u), NEW b \in DOMAIN t, NEW home, Grown(t, u, b, home),
           NEW i \in 1..Len(t[b].stmts), NEW c, c.op = "grant", NEW x, x # None,
           Granted(ForwardWindow(t, <<b, i>>, x), c)
    PROVE  Granted(ForwardWindow(u, <<b, home[i]>>, x), c)
<1> DEFINE o == t[b].stmts
           z == u[b].stmts
           n == Len(o)
           L == Len(z)
<1>1. PICK j \in i + 1..n : HasGrant(o[j], c) /\ \A k \in i + 1..j : ~WritesTo(t, o[k], x)
  <2> DEFINE p == <<b, i>>
  <2>1. p[1] = b /\ p[2] = i
    OBVIOUS
  <2>2. Granted(ForwardWindow(t, p, x), c)
    OBVIOUS
  <2> HIDE DEF p
  <2> QED BY <2>1, <2>2, WindowsAre
<1>2. /\ n \in Nat /\ L \in Nat /\ \A k \in 1..n : home[k] \in 1..L
      /\ \A k, l \in 1..n : k < l => home[k] < home[l]
      /\ \A k \in 1..n : Kin(o[k], z[home[k]])
      /\ \A q \in 1..L : (\E k \in 1..n : q = home[k]) \/ Still(z[q])
  BY DEF Grown
<1>3. \A k \in 1..n : WritesTo(u, z[home[k]], x) => WritesTo(t, o[k], x)
  BY GrownWrites
<1>4. \A q \in 1..L : Still(z[q]) => ~WritesTo(u, z[q], x)
  BY StillWrites DEF WritesTo
<1> HIDE DEF o, z, n, L
<1>5. j \in 1..n /\ i \in 1..n /\ i < j
  BY <1>2 DEF n, o
<1>6. home[i] < home[j] /\ home[i] \in 1..L /\ home[j] \in 1..L
  BY <1>2, <1>5
<1>7. HasGrant(z[home[j]], c)
  BY <1>1, <1>2, <1>5, KinGrant
<1>8. ASSUME NEW q \in home[i] + 1..home[j] PROVE ~WritesTo(u, z[q], x)
  <2>1. q \in 1..L /\ home[i] < q /\ q <= home[j]
    BY <1>2, <1>6
  <2>2. CASE Still(z[q])
    BY <1>4, <2>1, <2>2
  <2>3. CASE ~Still(z[q])
    <3>1. PICK k \in 1..n : q = home[k]
      BY <1>2, <2>1, <2>3
    <3>2. ~(k < i) /\ k # i
      BY <1>2, <1>5, <1>6, <2>1, <3>1
    <3>3. ~(j < k)
      BY <1>2, <1>5, <1>6, <2>1, <3>1
    <3>4. k \in i + 1..j
      BY <1>2, <1>5, <3>2, <3>3
    <3> QED BY <1>1, <1>3, <3>1, <3>4
  <2> QED BY <2>2, <2>3
<1>9. home[j] \in home[i] + 1..L
  BY <1>2, <1>6
<1> DEFINE p == <<b, home[i]>>
<1>10. p[1] = b /\ p[2] = home[i]
  OBVIOUS
<1> HIDE DEF p
<1>11. Granted(ForwardWindow(u, p, x), c)
  BY <1>7, <1>8, <1>9, <1>10, WindowsAre DEF z, L
<1> QED BY <1>11 DEF p

\* One on a local, with no write of the local until the statement, too.
LEMMA LocalKept ==
    ASSUME NEW t, NEW u, AllGrown(t, u), NEW b \in DOMAIN t, NEW home, Grown(t, u, b, home),
           NEW i \in 1..Len(t[b].stmts), NEW c, c.op = "grant",
           NEW x, x # None, x \notin TempNames,
           Granted(LocalWindow(t, <<b, i>>, x), c)
    PROVE  Granted(LocalWindow(u, <<b, home[i]>>, x), c)
<1> DEFINE o == t[b].stmts
           z == u[b].stmts
           n == Len(o)
           L == Len(z)
           Free(s) == ~(s.op = "decl" /\ s.name = x)
<1>1. PICK j \in 1..i - 1 : /\ HasGrant(o[j], c)
                             /\ \A k \in j..i - 1 : ~WritesTo(t, o[k], x) /\ Free(o[k])
  <2> DEFINE p == <<b, i>>
  <2>1. p[1] = b /\ p[2] = i
    OBVIOUS
  <2>2. Granted(LocalWindow(t, p, x), c)
    OBVIOUS
  <2> HIDE DEF p
  <2>3. \E j \in 1..p[2] - 1 :
           /\ HasGrant(t[p[1]].stmts[j], c)
           /\ \A k \in j..p[2] - 1 :
                 /\ ~WritesTo(t, t[p[1]].stmts[k], x)
                 /\ ~(t[p[1]].stmts[k].op = "decl" /\ t[p[1]].stmts[k].name = x)
    BY <2>2, WindowsAre
  <2> QED BY <2>1, <2>3
<1>2. /\ n \in Nat /\ L \in Nat /\ \A k \in 1..n : home[k] \in 1..L
      /\ \A k, l \in 1..n : k < l => home[k] < home[l]
      /\ \A k \in 1..n : Kin(o[k], z[home[k]])
      /\ \A q \in 1..L : (\E k \in 1..n : q = home[k]) \/ Still(z[q])
  BY DEF Grown
<1>3. \A k \in 1..n : WritesTo(u, z[home[k]], x) => WritesTo(t, o[k], x)
  BY GrownWrites
<1>4. \A q \in 1..L : Still(z[q]) => ~WritesTo(u, z[q], x) /\ Free(z[q])
  BY StillWrites DEF WritesTo, Still
<1>5. ASSUME NEW k \in 1..n, Free(o[k]) PROVE Free(z[home[k]])
  <2> DEFINE a == o[k]
             e == z[home[k]]
  <2>1. Kin(a, e) /\ Free(a)
    BY <1>2, <1>5
  <2> HIDE DEF a, e
  <2>2. Free(e)
    BY <2>1 DEF Kin, Computes
  <2> QED BY <2>2 DEF e
<1> HIDE DEF o, z, n, L, Free
<1>6. j \in 1..n /\ i \in 1..n /\ j < i
  BY <1>2 DEF n, o
<1>7. home[j] < home[i] /\ home[i] \in 1..L /\ home[j] \in 1..L
  BY <1>2, <1>6
<1>8. HasGrant(z[home[j]], c)
  BY <1>1, <1>2, <1>6, KinGrant
<1>9. ASSUME NEW q \in home[j]..home[i] - 1 PROVE ~WritesTo(u, z[q], x) /\ Free(z[q])
  <2>1. q \in 1..L /\ home[j] <= q /\ q < home[i]
    BY <1>2, <1>7
  <2>2. CASE Still(z[q])
    BY <1>4, <2>1, <2>2
  <2>3. CASE ~Still(z[q])
    <3>1. PICK k \in 1..n : q = home[k]
      BY <1>2, <2>1, <2>3
    <3>2. ~(k < j)
      BY <1>2, <1>6, <1>7, <2>1, <3>1
    <3>3. ~(i < k) /\ k # i
      BY <1>2, <1>6, <1>7, <2>1, <3>1
    <3>4. k \in j..i - 1
      BY <1>2, <1>6, <3>2, <3>3
    <3> QED BY <1>1, <1>3, <1>5, <3>1, <3>4
  <2> QED BY <2>2, <2>3
<1>10. home[j] \in 1..home[i] - 1
  BY <1>2, <1>7
<1> DEFINE p == <<b, home[i]>>
<1>11. p[1] = b /\ p[2] = home[i]
  OBVIOUS
<1> HIDE DEF p
<1>12. Granted(LocalWindow(u, p, x), c)
  BY <1>8, <1>9, <1>10, <1>11, WindowsAre DEF z, Free
<1> QED BY <1>12 DEF p

\* What is inserted below a statement is in the window of its home.
LEMMA InsertedBelow ==
    ASSUME NEW t, NEW u, AllGrown(t, u), NEW b \in DOMAIN t, NEW home, Grown(t, u, b, home),
           NEW i \in 1..Len(t[b].stmts), NEW c, NEW x, x # None,
           NEW q \in 1..Len(u[b].stmts), home[i] < q, HasGrant(u[b].stmts[q], c),
           \A j \in 1..Len(t[b].stmts) : i < j => q < home[j]
    PROVE  Granted(ForwardWindow(u, <<b, home[i]>>, x), c)
<1> DEFINE o == t[b].stmts
           z == u[b].stmts
           n == Len(o)
           L == Len(z)
<1>1. /\ n \in Nat /\ L \in Nat /\ \A k \in 1..n : home[k] \in 1..L
      /\ \A k, l \in 1..n : k < l => home[k] < home[l]
      /\ \A r \in 1..L : (\E k \in 1..n : r = home[k]) \/ Still(z[r])
  BY DEF Grown
<1>2. \A r \in 1..L : Still(z[r]) => ~WritesTo(u, z[r], x)
  BY StillWrites DEF WritesTo
<1>3. q \in 1..L /\ i \in 1..n /\ home[i] < q /\ HasGrant(z[q], c)
      /\ \A j \in 1..n : i < j => q < home[j]
  OBVIOUS
<1> HIDE DEF o, z, n, L
<1>4. ASSUME NEW r \in home[i] + 1..q PROVE ~WritesTo(u, z[r], x)
  <2>1. r \in 1..L /\ home[i] < r /\ r <= q
    BY <1>1, <1>3
  <2>2. ASSUME NEW k \in 1..n, r = home[k] PROVE FALSE
    <3>1. home[k] \in 1..L /\ home[i] \in 1..L
      BY <1>1, <1>3
    <3>2. ~(i < k)
      BY <1>1, <1>3, <2>1, <2>2, <3>1
    <3>3. ~(k < i)
      BY <1>1, <1>3, <2>1, <2>2, <3>1
    <3>4. k # i
      BY <2>1, <2>2, <3>1
    <3> QED BY <1>1, <1>3, <3>2, <3>3, <3>4
  <2> QED BY <1>1, <1>2, <2>1, <2>2
<1>5. q \in home[i] + 1..L
  BY <1>1, <1>3
<1> DEFINE p == <<b, home[i]>>
<1>6. p[1] = b /\ p[2] = home[i]
  OBVIOUS
<1> HIDE DEF p
<1>7. Granted(ForwardWindow(u, p, x), c)
  BY <1>3, <1>4, <1>5, <1>6, WindowsAre DEF z, L
<1> QED BY <1>7 DEF p

-----------------------------------------------------------------------------
(* The plan, and the text it is spliced into.                              *)

Wheres   == {"before", "after", "inner", "whole"}
PatchSet == [at : Spots(text), where : Wheres, lines : Seq(Stmts(Names))]

Planned(p, w, c) ==
    \E x \in Elements(plan) : /\ x.at = p /\ x.where = w
                              /\ \E g \in Elements(x.lines) : HasGrant(g, c)
NoPatch(p, w) == \A x \in Elements(plan) : ~(x.at = p /\ x.where = w)

\* The statement with its hoisted argument, granted in front of it.
Inner(p, z) ==
    LET s == At(text, p) IN
    /\ z.e \in TempNames
    /\ \/ /\ s.op = "emit" /\ z.op = "emit"
          /\ \A c \in EventGrants(z.e) :
                Planned(p, "before", c) \/ Granted(BackwardWindow(text, p), c)
       \/ /\ Computes(s) /\ s.to # None
          /\ z.op = s.op /\ z.into = s.into /\ z.to = s.to
          /\ s.op = "decl" => z.name = s.name
          /\ Planned(p, "before", Grant("allowTransient", z.e, z.to))

\* A return taken apart: its value, the grants, and the return of the value.
Whole(p, lines) ==
    LET s == At(text, p) IN
    /\ s.op = "return"
    /\ lines[1].op = "decl" /\ lines[1].name \in TempNames
    /\ lines[1].into = s.into /\ lines[1].to = s.to /\ lines[1].e = s.e
    /\ \A k \in 2..Len(lines) :
          \/ lines[k].op = "guard"
          \/ /\ lines[k].op = "return" /\ lines[k].into = None /\ lines[k].to = None
             /\ HasGrant(lines[k - 1], Grant("allowTransient", lines[k].e, Sender))

PatchShape(x) ==
    /\ x.lines # << >>
    /\ x.where \in {"before", "after"} =>
          \A l \in Elements(x.lines) : Still(l) /\ l.op # "return"
    /\ x.where = "inner" => x.lines = <<x.lines[1]>> /\ Inner(x.at, x.lines[1])
    /\ x.where = "whole" => Whole(x.at, x.lines)

PlanOK == plan \in Seq(PatchSet) /\ \A x \in Elements(plan) : PatchShape(x)

\* A Concat of one.
LEMMA ConcatOne ==
    ASSUME NEW S, NEW ss \in Seq(Seq(S)), Len(ss) = 1
    PROVE  Concat(ss) = ss[1]
<1> DEFINE c == Concat(ss)
           d == ss[1]
<1>1. \E off \in [0..Len(ss) -> Nat] : LaidOut(ss, off)
  BY ConcatLaid
<1>2. PICK off \in [0..Len(ss) -> Nat] : LaidOut(ss, off)
  BY <1>1
<1>3. c \in Seq(S) /\ d \in Seq(S)
  <2>1. 1 \in 1..Len(ss)
    OBVIOUS
  <2>2. d \in Seq(S)
    BY <2>1, ElementOfSeq
  <2> QED BY <2>2, ConcatLaid
<1>4. Len(c) = off[1] /\ off[0] = 0 /\ off[1] = off[0] + Len(d)
      /\ \A k \in 1..Len(d) : c[off[0] + k] = d[k]
  BY <1>2 DEF LaidOut, Laid
<1> HIDE DEF c, d
<1>5. Len(d) \in Nat
  BY <1>3, LenProperties
<1>6. Len(c) = Len(d)
  BY <1>4, <1>5
<1>7. \A k \in 1..Len(d) : c[k] = d[k]
  <2>1. \A k \in 1..Len(d) : 0 + k = k
    BY <1>5
  <2>2. \A k \in 1..Len(d) : c[0 + k] = d[k]
    BY <1>4
  <2> QED BY <2>1, <2>2
<1>8. c = d
  BY <1>3, <1>6, <1>7, SeqEqual
<1> QED BY <1>8 DEF c, d

\* What is inserted at a position is what the plan says, line by line,
LEMMA InsertedIs ==
    ASSUME plan \in Seq(PatchSet), NEW p, NEW w
    PROVE  /\ InsertedAt(p, w) \in Seq(Stmts(Names))
           /\ \A l : l \in Elements(InsertedAt(p, w)) <=>
                 \E x \in Elements(plan) : x.at = p /\ x.where = w /\ l \in Elements(x.lines)
           /\ Len(PatchesAt(p, w)) \in Nat
           /\ NoPatch(p, w) => InsertedAt(p, w) = << >>
           /\ Len(PatchesAt(p, w)) = 0 => NoPatch(p, w)
           /\ Len(PatchesAt(p, w)) = 1 => \E x \in Elements(plan) :
                 x.at = p /\ x.where = w /\ InsertedAt(p, w) = x.lines
<1> DEFINE here == Those(plan, {c \in Elements(plan) : c.at = p /\ c.where = w})
           H == {c \in Elements(plan) : c.at = p /\ c.where = w}
           n == Len(here)
           ss == [i \in DOMAIN here |-> here[i].lines]
           T == Stmts(Names)
<1>1. PatchesAt(p, w) = ss /\ InsertedAt(p, w) = Concat(ss)
  BY DEF PatchesAt, InsertedAt
<1>2. here = Those(plan, H)
  OBVIOUS
<1>3. H \subseteq Elements(plan)
  OBVIOUS
<1>h. \A x : x \in H <=> x \in Elements(plan) /\ x.at = p /\ x.where = w
  OBVIOUS
<1> HIDE DEF here, H
<1>4. here \in Seq(PatchSet) /\ Elements(here) = H
  <2>1. /\ Those(plan, H) \in Seq(PatchSet)
        /\ Elements(Those(plan, H)) = Elements(plan) \cap H
    BY ElementsThose
  <2> QED BY <1>2, <1>3, <2>1
<1>5. /\ DOMAIN here = 1..n /\ n \in Nat /\ H = {here[i] : i \in 1..n}
      /\ \A i \in 1..n : here[i] \in PatchSet
  BY <1>4, LenProperties, ElementsOf, ElementOfSeq
<1> HIDE DEF n
<1>6. ss = [i \in 1..n |-> here[i].lines]
  BY <1>5
<1> HIDE DEF ss, T
<1>7. ss \in [1..n -> Seq(T)] /\ \A i \in 1..n : ss[i] = here[i].lines
  BY <1>5, <1>6 DEF PatchSet, T
<1>8. ss \in Seq(Seq(T)) /\ Len(ss) = n
  BY <1>5, <1>7, FunctionSeq
<1>9. Concat(ss) \in Seq(T) /\ Elements(Concat(ss)) = UNION {Elements(ss[i]) : i \in 1..n}
  BY <1>8, ElementsOfConcat
<1>10. ASSUME NEW l
       PROVE  l \in Elements(Concat(ss)) <=>
                 \E x \in Elements(plan) : x.at = p /\ x.where = w /\ l \in Elements(x.lines)
  <2>1. l \in Elements(Concat(ss)) <=> \E i \in 1..n : l \in Elements(ss[i])
    BY <1>9
  <2>2. (\E i \in 1..n : l \in Elements(ss[i])) <=> \E x \in H : l \in Elements(x.lines)
    BY <1>5, <1>7
  <2> QED BY <1>h, <2>1, <2>2
<1>11. NoPatch(p, w) <=> H = {}
  BY <1>h DEF NoPatch
<1>12. ASSUME NoPatch(p, w) PROVE Concat(ss) = << >>
  <2>1. Elements(Concat(ss)) = {}
    BY <1>10, <1>12 DEF NoPatch
  <2> QED BY <1>9, <2>1, ElementsEmpty
<1>13. ASSUME n = 0 PROVE NoPatch(p, w)
  <2>1. 1..n = {}
    BY <1>13
  <2> QED BY <1>5, <1>11, <2>1
<1>14. ASSUME n = 1
       PROVE  \E x \in Elements(plan) : x.at = p /\ x.where = w /\ Concat(ss) = x.lines
  <2>1. Concat(ss) = ss[1] /\ 1 \in 1..n
    BY <1>8, <1>14, ConcatOne
  <2>2. here[1] \in H /\ Concat(ss) = here[1].lines
    BY <1>5, <1>7, <2>1
  <2> QED BY <1>h, <2>2
<1> QED BY <1>1, <1>5, <1>8, <1>9, <1>10, <1>12, <1>13, <1>14 DEF T

\* as a sequence,
LEMMA InsertedSeq ==
    ASSUME plan \in Seq(PatchSet), NEW p, NEW w
    PROVE  InsertedAt(p, w) \in Seq(Stmts(Names))
BY InsertedIs

\* and every line of it is of a patch of the plan.
LEMMA InsertedFrom ==
    ASSUME plan \in Seq(PatchSet), NEW p, NEW w, NEW x \in Elements(plan),
           x.at = p, x.where = w, NEW l \in Elements(x.lines)
    PROVE  l \in Elements(InsertedAt(p, w))
BY InsertedIs

\* What stands in the place of a statement.
Mid(p) == IF Replaced(p) = << >> THEN <<At(text, p)>> ELSE Replaced(p)

\* What stands in the statement's place: it, or the lines of its one patch.
LEMMA MidIs ==
    ASSUME PlanOK, NEW p,
           ~(Len(PatchesAt(p, "inner")) + Len(PatchesAt(p, "whole")) > 1)
    PROVE  \/ Mid(p) = <<At(text, p)>> /\ NoPatch(p, "inner") /\ NoPatch(p, "whole")
           \/ \E x \in Elements(plan) : /\ x.at = p /\ x.where = "inner" /\ Mid(p) = x.lines
                                        /\ NoPatch(p, "whole")
           \/ \E x \in Elements(plan) : /\ x.at = p /\ x.where = "whole" /\ Mid(p) = x.lines
                                        /\ Mid(p) = InsertedAt(p, "whole")
                                        /\ NoPatch(p, "inner")
<1> DEFINE i == Len(PatchesAt(p, "inner"))
           w == Len(PatchesAt(p, "whole"))
           I == InsertedAt(p, "inner")
           W == InsertedAt(p, "whole")
<1>1. plan \in Seq(PatchSet) /\ \A x \in Elements(plan) : x.lines # << >>
  BY DEF PlanOK, PatchShape
<1>2. /\ I \in Seq(Stmts(Names)) /\ i \in Nat
      /\ NoPatch(p, "inner") => I = << >>
      /\ i = 0 => NoPatch(p, "inner")
      /\ i = 1 => \E x \in Elements(plan) : x.at = p /\ x.where = "inner" /\ I = x.lines
  BY <1>1, InsertedIs
<1>3. /\ W \in Seq(Stmts(Names)) /\ w \in Nat
      /\ NoPatch(p, "whole") => W = << >>
      /\ w = 0 => NoPatch(p, "whole")
      /\ w = 1 => \E x \in Elements(plan) : x.at = p /\ x.where = "whole" /\ W = x.lines
  BY <1>1, InsertedIs
<1>4. Replaced(p) = I \o W
  BY DEF Replaced
<1>5. ~(i + w > 1)
  OBVIOUS
<1> HIDE DEF i, w, I, W
<1>6. I \o << >> = I /\ << >> \o W = W
  BY <1>2, <1>3, ConcatEmptySeq
<1>7. CASE i = 0 /\ w = 0
  BY <1>2, <1>3, <1>4, <1>6, <1>7 DEF Mid
<1>8. CASE i = 1 /\ w = 0
  <2>1. PICK x \in Elements(plan) : x.at = p /\ x.where = "inner" /\ I = x.lines
    BY <1>2, <1>8
  <2>2. Replaced(p) = x.lines /\ x.lines # << >>
    BY <1>1, <1>3, <1>4, <1>6, <1>8, <2>1
  <2> QED BY <1>3, <1>8, <2>1, <2>2 DEF Mid
<1>9. CASE i = 0 /\ w = 1
  <2>1. PICK x \in Elements(plan) : x.at = p /\ x.where = "whole" /\ W = x.lines
    BY <1>3, <1>9
  <2>2. Replaced(p) = x.lines /\ x.lines # << >>
    BY <1>1, <1>2, <1>4, <1>6, <1>9, <2>1
  <2> QED BY <1>2, <1>9, <2>1, <2>2 DEF Mid, W
<1>10. (i = 0 /\ w = 0) \/ (i = 1 /\ w = 0) \/ (i = 0 /\ w = 1)
  BY <1>2, <1>3, <1>5
<1> QED BY <1>7, <1>8, <1>9, <1>10

AnyStmts == Stmts(Names) \cup Stmts(Locals) \cup BranchTo(DOMAIN text)

AtHome(b, home) ==
    \A i \in 1..Len(text[b].stmts) :
       LET p == <<b, i>>
           s == text[b].stmts[i]
           z == Spliced[b].stmts[home[i]] IN
       \/ z = s /\ NoPatch(p, "inner") /\ NoPatch(p, "whole")
       \/ Inner(p, z) /\ NoPatch(p, "whole")
       \/ /\ s.op = "return" /\ z.op = "decl" /\ z.name \in TempNames
          /\ z.into = s.into /\ z.to = s.to /\ z.e = s.e
          /\ NoPatch(p, "inner")
PlannedAbove(b, home) ==
    \A i \in 1..Len(text[b].stmts) : \A c :
       Planned(<<b, i>>, "before", c) =>
          \E q \in 1..Len(Spliced[b].stmts) :
             q < home[i] /\ HasGrant(Spliced[b].stmts[q], c)
PlannedBelow(b, home) ==
    \A i \in 1..Len(text[b].stmts) : \A c :
       c.op = "grant" /\ (Planned(<<b, i>>, "after", c) \/ Planned(<<b, i>>, "whole", c)) =>
          \E q \in 1..Len(Spliced[b].stmts) :
             /\ home[i] < q /\ HasGrant(Spliced[b].stmts[q], c)
             /\ \A j \in 1..Len(text[b].stmts) : i < j => q < home[j]
NewReturns(b, home) ==
    \A q \in 1..Len(Spliced[b].stmts) :
       Spliced[b].stmts[q].op = "return" /\ (\A i \in 1..Len(text[b].stmts) : q # home[i]) =>
          /\ Spliced[b].stmts[q].into = None /\ Spliced[b].stmts[q].to = None
          /\ q - 1 \in 1..Len(Spliced[b].stmts)
          /\ HasGrant(Spliced[b].stmts[q - 1],
                      Grant("allowTransient", Spliced[b].stmts[q].e, Sender))

\* The blocks of a body.
LEMMA BodyBlocks ==
    ASSUME IsBody(text, Locals)
    PROVE  /\ \A b \in DOMAIN text : text[b].stmts \in Seq(AnyStmts)
           /\ \A b \in DOMAIN text : \A i \in 1..Len(text[b].stmts) :
                 \/ text[b].stmts[i] \in Stmts(Locals)
                 \/ b = "main" /\ text[b].stmts[i] \in BranchTo(DOMAIN text \ {"main"})
           /\ Blocks(text, AnyStmts)
<1> DEFINE Y == Stmts(Locals) \cup BranchTo(DOMAIN text \ {"main"})
<1>1. "main" \in DOMAIN text /\ text["main"].stmts \in Seq(Y)
  BY DEF IsBody
<1>2. \A b \in DOMAIN text \ {"main"} : text[b].stmts \in Seq(Stmts(Locals))
  BY DEF IsBody
<1>3. Y \subseteq AnyStmts /\ Stmts(Locals) \subseteq AnyStmts
  BY DEF AnyStmts, BranchTo
<1> HIDE DEF Y
<1>4. \A i \in 1..Len(text["main"].stmts) : text["main"].stmts[i] \in Y
  BY <1>1, ElementOfSeq
<1>5. \A b \in DOMAIN text \ {"main"} : \A i \in 1..Len(text[b].stmts) :
         text[b].stmts[i] \in Stmts(Locals)
  BY <1>2, ElementOfSeq
<1>6. Elements(text["main"].stmts) \subseteq Y /\ text["main"].stmts \in Seq(AnyStmts)
  <2>1. Elements(text["main"].stmts) \subseteq Y
    BY <1>1, ElementsOf
  <2> QED BY <1>1, <1>3, <2>1, SeqOfElements
<1>7. ASSUME NEW b \in DOMAIN text \ {"main"} PROVE text[b].stmts \in Seq(AnyStmts)
  <2>1. text[b].stmts \in Seq(Stmts(Locals))
    BY <1>2
  <2>2. Elements(text[b].stmts) \subseteq AnyStmts
    BY <1>3, <2>1, ElementsOf
  <2> QED BY <2>1, <2>2, SeqOfElements
<1>8. \A b \in DOMAIN text : text[b].stmts \in Seq(AnyStmts)
  BY <1>6, <1>7
<1>9. ASSUME NEW s \in Elements(text["main"].stmts), s.op = "branch" PROVE s.block \in DOMAIN text
  <2>1. s \in Y
    BY <1>6, <1>9
  <2>2. s \notin Stmts(Locals)
    BY <1>9, StmtShapes
  <2>3. s \in BranchTo(DOMAIN text \ {"main"})
    BY <2>1, <2>2 DEF Y
  <2> QED BY <2>3 DEF BranchTo
<1>10. Blocks(text, AnyStmts)
  BY <1>1, <1>8, <1>9 DEF Blocks
<1> QED BY <1>4, <1>5, <1>8, <1>10 DEF Y

\* Splicing grows a text: homes, kin and braces are as Grown asks.
LEMMA SplicedGrown ==
    ASSUME IsBody(text, Locals), PlanOK, ~Overlap, NEW b \in DOMAIN text
    PROVE  /\ Spliced[b].stmts \in Seq(AnyStmts)
           /\ \E home : /\ Grown(text, Spliced, b, home) /\ AtHome(b, home)
                        /\ PlannedAbove(b, home) /\ PlannedBelow(b, home) /\ NewReturns(b, home)
<1> DEFINE o == text[b].stmts
           n == Len(o)
           X == AnyStmts
           B == [i \in 1..n |-> InsertedAt(<<b, i>>, "before")]
           M == [i \in 1..n |-> Mid(<<b, i>>)]
           A == [i \in 1..n |-> InsertedAt(<<b, i>>, "after")]
           ss == [i \in 1..n |-> B[i] \o M[i] \o A[i]]
           new == Concat(ss)
<1>1. o \in Seq(X)
  BY BodyBlocks
<1>2. DOMAIN o = 1..n /\ n \in Nat /\ \A i \in 1..n : o[i] \in X
  BY <1>1, LenProperties, ElementOfSeq
<1>3. \A i : At(text, <<b, i>>) = o[i]
  BY DEF At
<1>4. \A i : Mid(<<b, i>>) =
         IF Replaced(<<b, i>>) = << >> THEN <<text[b].stmts[i]>> ELSE Replaced(<<b, i>>)
  BY <1>3, Zenon DEF Mid
<1>5. SplicedBlock(b) = new
  <2>1. SplicedBlock(b) = Concat([i \in 1..n |-> InsertedAt(<<b, i>>, "before")
                                     \o Mid(<<b, i>>) \o InsertedAt(<<b, i>>, "after")])
    BY <1>2, <1>4, Zenon DEF SplicedBlock
  <2>2. ss = [i \in 1..n |-> InsertedAt(<<b, i>>, "before")
                                     \o Mid(<<b, i>>) \o InsertedAt(<<b, i>>, "after")]
    OBVIOUS
  <2> QED BY <2>1, <2>2
<1>6. Spliced[b].stmts = new
  BY <1>5 DEF Spliced
<1>7. /\ \A i \in 1..n : B[i] = InsertedAt(<<b, i>>, "before")
      /\ \A i \in 1..n : M[i] = Mid(<<b, i>>)
      /\ \A i \in 1..n : A[i] = InsertedAt(<<b, i>>, "after")
  OBVIOUS
<1>8. plan \in Seq(PatchSet) /\ \A x \in Elements(plan) : PatchShape(x) /\ x.lines \in Seq(Stmts(Names))
  <2>1. plan \in Seq(PatchSet)
    BY DEF PlanOK
  <2>2. Elements(plan) \subseteq PatchSet
    BY <2>1, ElementsOf
  <2> QED BY <2>1, <2>2 DEF PlanOK, PatchSet
<1> DEFINE Un(i) == M[i] = <<o[i]>> /\ NoPatch(<<b, i>>, "inner") /\ NoPatch(<<b, i>>, "whole")
           In1(i) == \E x \in Elements(plan) :
                       /\ x.at = <<b, i>> /\ x.where = "inner" /\ M[i] = x.lines
                       /\ NoPatch(<<b, i>>, "whole")
           Wh(i) == \E x \in Elements(plan) :
                       /\ x.at = <<b, i>> /\ x.where = "whole" /\ M[i] = x.lines
                       /\ M[i] = InsertedAt(<<b, i>>, "whole") /\ NoPatch(<<b, i>>, "inner")
<1>9. ASSUME NEW i \in 1..n PROVE Un(i) \/ In1(i) \/ Wh(i)
  <2> DEFINE p == <<b, i>>
  <2>1. ~(Len(PatchesAt(p, "inner")) + Len(PatchesAt(p, "whole")) > 1)
    BY <1>2 DEF Overlap
  <2>2. At(text, p) = o[i] /\ M[i] = Mid(p)
    BY <1>3, <1>7
  <2> HIDE DEF p, M, o, n
  <2>3. \/ Mid(p) = <<At(text, p)>> /\ NoPatch(p, "inner") /\ NoPatch(p, "whole")
        \/ \E x \in Elements(plan) : /\ x.at = p /\ x.where = "inner" /\ Mid(p) = x.lines
                                     /\ NoPatch(p, "whole")
        \/ \E x \in Elements(plan) : /\ x.at = p /\ x.where = "whole" /\ Mid(p) = x.lines
                                     /\ Mid(p) = InsertedAt(p, "whole")
                                     /\ NoPatch(p, "inner")
    BY <2>1, MidIs
  <2> QED BY <2>2, <2>3, Zenon DEF p
<1> HIDE DEF B, M, A, o, n
<1>10. ASSUME NEW i \in 1..n
       PROVE  B[i] \in Seq(X) /\ M[i] \in Seq(X) /\ A[i] \in Seq(X) /\ M[i] # << >>
  <2> HIDE DEF X
  <2>1. Seq(Stmts(Names)) \subseteq Seq(X)
    <3>1. ASSUME NEW s \in Seq(Stmts(Names)) PROVE s \in Seq(X)
      <4>1. Elements(s) \subseteq X
        BY ElementsOf DEF X, AnyStmts
      <4> QED BY <4>1, SeqOfElements
    <3> QED BY <3>1
  <2>2. B[i] \in Seq(X) /\ A[i] \in Seq(X)
    <3>1. /\ InsertedAt(<<b, i>>, "before") \in Seq(Stmts(Names))
          /\ InsertedAt(<<b, i>>, "after") \in Seq(Stmts(Names))
      BY <1>8, InsertedSeq
    <3>2. B[i] = InsertedAt(<<b, i>>, "before") /\ A[i] = InsertedAt(<<b, i>>, "after")
      BY <1>7
    <3> QED BY <2>1, <3>1, <3>2
  <2>3. CASE Un(i)
    <3>1. o[i] \in X
      BY <1>2
    <3>2. <<o[i]>> \in Seq(X) /\ <<o[i]>> # << >>
      BY <3>1, OneElement, ElementsEmpty
    <3> QED BY <2>2, <2>3, <3>2
  <2>4. CASE In1(i) \/ Wh(i)
    <3>1. PICK x \in Elements(plan) : M[i] = x.lines
      BY <2>4
    <3>2. x.lines \in Seq(X) /\ x.lines # << >>
      BY <1>8, <2>1 DEF PatchShape
    <3> QED BY <2>2, <3>1, <3>2
  <2> QED BY <1>9, <2>3, <2>4
<1> HIDE DEF new, ss
<1>11. \E home \in [1..n -> 1..Len(Concat(ss))] :
          /\ Homes(home, Concat(ss), n, M) /\ Above(home, Concat(ss), n, B)
          /\ Below(home, Concat(ss), n, M, A) /\ Else(home, Concat(ss), n, B, M, A)
  <2>1. ss = [i \in 1..n |-> B[i] \o M[i] \o A[i]]
    BY DEF ss
  <2>2. /\ \A i \in 1..n : B[i] \in Seq(X) /\ M[i] \in Seq(X) /\ A[i] \in Seq(X)
        /\ \A i \in 1..n : M[i] # << >>
    BY <1>10
  <2> HIDE DEF X
  <2> QED BY <1>2, <2>1, <2>2, HomesExist
<1>12. PICK home \in [1..n -> 1..Len(new)] :
          /\ Homes(home, new, n, M) /\ Above(home, new, n, B)
          /\ Below(home, new, n, M, A) /\ Else(home, new, n, B, M, A)
  BY <1>11 DEF new
<1>13. new \in Seq(X) /\ Len(new) \in Nat /\ DOMAIN new = 1..Len(new)
  <2> HIDE DEF X
  <2>1. ss \in [1..n -> Seq(X)]
    <3>1. ASSUME NEW i \in 1..n PROVE B[i] \o M[i] \o A[i] \in Seq(X)
      BY <1>10, PieceAt
    <3> QED BY <3>1 DEF ss
  <2>2. ss \in Seq(Seq(X))
    BY <1>2, <2>1, FunctionSeq
  <2>3. new \in Seq(X)
    BY <2>2, ConcatLaid DEF new
  <2> QED BY <2>3, LenProperties
<1>14. ASSUME NEW i \in 1..n
       PROVE  LET s == o[i]
                  z == new[home[i]] IN
              /\ \/ z = s /\ NoPatch(<<b, i>>, "inner") /\ NoPatch(<<b, i>>, "whole")
                 \/ Inner(<<b, i>>, z) /\ NoPatch(<<b, i>>, "whole")
                 \/ /\ s.op = "return" /\ z.op = "decl" /\ z.name \in TempNames
                    /\ z.into = s.into /\ z.to = s.to /\ z.e = s.e
                    /\ NoPatch(<<b, i>>, "inner")
              /\ Kin(s, z)
              /\ (\E k \in 2..Len(M[i]) : TRUE) =>
                    Wh(i) /\ Whole(<<b, i>>, M[i])
  <2> DEFINE p == <<b, i>>
             s == o[i]
             z == new[home[i]]
  <2>1. z = M[i][1] /\ At(text, p) = s
    BY <1>3, <1>12 DEF Homes
  <2> HIDE DEF z, s
  <2>2. CASE Un(i)
    <3>1. M[i][1] = s /\ Len(M[i]) = 1
      BY <2>2 DEF s
    <3> QED BY <2>1, <2>2, <3>1 DEF Kin, z, s
  <2>3. CASE In1(i)
    <3>1. PICK x \in Elements(plan) : /\ x.at = p /\ x.where = "inner" /\ M[i] = x.lines
                                      /\ NoPatch(p, "whole")
      BY <2>3
    <3>2. PatchShape(x)
      BY <1>8
    <3>3. x.lines = <<x.lines[1]>> /\ Inner(p, x.lines[1])
      BY <3>1, <3>2 DEF PatchShape
    <3>4. Inner(p, z) /\ Len(M[i]) = 1
      <4>1. M[i] = <<x.lines[1]>>
        BY <3>1, <3>3
      <4>2. M[i][1] = x.lines[1] /\ Len(M[i]) = 1
        BY <4>1
      <4> QED BY <2>1, <3>3, <4>2
    <3>5. Kin(s, z)
      BY <2>1, <3>4 DEF Inner, Kin
    <3> QED BY <3>1, <3>4, <3>5 DEF z, s
  <2>4. CASE Wh(i)
    <3>1. PICK x \in Elements(plan) : /\ x.at = p /\ x.where = "whole" /\ M[i] = x.lines
                                      /\ M[i] = InsertedAt(p, "whole") /\ NoPatch(p, "inner")
      BY <2>4
    <3>2. PatchShape(x)
      BY <1>8
    <3>3. Whole(p, M[i])
      BY <3>1, <3>2 DEF PatchShape
    <3>4. /\ s.op = "return" /\ z.op = "decl" /\ z.name \in TempNames
          /\ z.into = s.into /\ z.to = s.to /\ z.e = s.e
      BY <2>1, <3>3 DEF Whole
    <3>5. Kin(s, z)
      BY <3>4 DEF Kin
    <3> QED BY <2>4, <3>1, <3>3, <3>4, <3>5 DEF z, s
  <2> QED BY <1>9, <2>2, <2>3, <2>4
<1>15. ASSUME NEW q \in 1..Len(new), \A i \in 1..n : q # home[i]
       PROVE  /\ Still(new[q])
              /\ new[q].op = "return" =>
                    /\ new[q].into = None /\ new[q].to = None
                    /\ q - 1 \in 1..Len(new)
                    /\ HasGrant(new[q - 1], Grant("allowTransient", new[q].e, Sender))
  <2>1. PICK i \in 1..n :
           \/ new[q] \in Elements(B[i]) \cup Elements(A[i])
           \/ \E k \in 2..Len(M[i]) : new[q] = M[i][k] /\ q - 1 \in 1..Len(new)
                                      /\ new[q - 1] = M[i][k - 1]
    <3>1. \E i \in 1..n :
             \/ q = home[i]
             \/ /\ \A j \in 1..n : q # home[j]
                /\ \/ new[q] \in Elements(B[i]) \cup Elements(A[i])
                   \/ \E k \in 2..Len(M[i]) : new[q] = M[i][k] /\ q - 1 \in 1..Len(new)
                                              /\ new[q - 1] = M[i][k - 1]
      BY <1>12 DEF Else
    <3> QED BY <1>15, <3>1, Zenon
  <2>2. CASE new[q] \in Elements(B[i])
    <3>1. new[q] \in Elements(InsertedAt(<<b, i>>, "before"))
      BY <1>7, <2>2
    <3>2. PICK x \in Elements(plan) : x.where = "before" /\ new[q] \in Elements(x.lines)
      BY <1>8, <3>1, InsertedIs
    <3> QED BY <1>8, <3>2 DEF PatchShape
  <2>3. CASE new[q] \in Elements(A[i])
    <3>1. new[q] \in Elements(InsertedAt(<<b, i>>, "after"))
      BY <1>7, <2>3
    <3>2. PICK x \in Elements(plan) : x.where = "after" /\ new[q] \in Elements(x.lines)
      BY <1>8, <3>1, InsertedIs
    <3> QED BY <1>8, <3>2 DEF PatchShape
  <2>4. CASE \E k \in 2..Len(M[i]) : new[q] = M[i][k] /\ q - 1 \in 1..Len(new)
                                      /\ new[q - 1] = M[i][k - 1]
    <3>1. PICK k \in 2..Len(M[i]) : new[q] = M[i][k] /\ q - 1 \in 1..Len(new)
                                      /\ new[q - 1] = M[i][k - 1]
      BY <2>4
    <3>2. Whole(<<b, i>>, M[i])
      BY <1>14, <3>1
    <3>3. \/ M[i][k].op = "guard"
          \/ /\ M[i][k].op = "return" /\ M[i][k].into = None /\ M[i][k].to = None
             /\ HasGrant(M[i][k - 1], Grant("allowTransient", M[i][k].e, Sender))
      BY <3>2 DEF Whole
    <3> QED BY <3>1, <3>3 DEF Still
  <2> QED BY <2>1, <2>2, <2>3, <2>4
<1>16. ASSUME NEW i \in 1..n, NEW c, Planned(<<b, i>>, "before", c)
       PROVE  \E q \in 1..Len(new) : q < home[i] /\ HasGrant(new[q], c)
  <2>1. PICK x \in Elements(plan) : /\ x.at = <<b, i>> /\ x.where = "before"
                                    /\ \E g \in Elements(x.lines) : HasGrant(g, c)
    BY <1>16 DEF Planned
  <2>2. PICK g \in Elements(x.lines) : HasGrant(g, c)
    BY <2>1
  <2>3. g \in Elements(B[i])
    <3>1. g \in Elements(InsertedAt(<<b, i>>, "before"))
      BY <1>8, <2>1, <2>2, InsertedFrom
    <3> QED BY <1>7, <3>1
  <2> QED BY <1>12, <2>2, <2>3 DEF Above
<1>17. ASSUME NEW i \in 1..n, NEW c, c.op = "grant",
              Planned(<<b, i>>, "after", c) \/ Planned(<<b, i>>, "whole", c)
       PROVE  \E q \in 1..Len(new) : /\ home[i] < q /\ HasGrant(new[q], c)
                                     /\ \A j \in 1..n : i < j => q < home[j]
  <2>1. \E g : HasGrant(g, c) /\ (g \in Elements(A[i]) \/ \E k \in 2..Len(M[i]) : g = M[i][k])
    <3>1. CASE Planned(<<b, i>>, "after", c)
      <4>1. PICK x \in Elements(plan) : /\ x.at = <<b, i>> /\ x.where = "after"
                                        /\ \E g \in Elements(x.lines) : HasGrant(g, c)
        BY <3>1 DEF Planned
      <4>2. PICK g \in Elements(x.lines) : HasGrant(g, c)
        BY <4>1
      <4>3. g \in Elements(A[i])
        <5>1. g \in Elements(InsertedAt(<<b, i>>, "after"))
          BY <1>8, <4>1, <4>2, InsertedFrom
        <5> QED BY <1>7, <5>1
      <4> QED BY <4>2, <4>3
    <3>2. CASE Planned(<<b, i>>, "whole", c)
      <4>1. PICK x \in Elements(plan) : /\ x.at = <<b, i>> /\ x.where = "whole"
                                        /\ \E g \in Elements(x.lines) : HasGrant(g, c)
        BY <3>2 DEF Planned
      <4>2. PICK g \in Elements(x.lines) : HasGrant(g, c)
        BY <4>1
      <4>3. Wh(i)
        BY <1>9, <4>1 DEF NoPatch
      <4>4. M[i] = InsertedAt(<<b, i>>, "whole")
        BY <4>3
      <4>5. g \in Elements(M[i])
        <5>1. g \in Elements(InsertedAt(<<b, i>>, "whole"))
          BY <1>8, <4>1, <4>2, InsertedFrom
        <5> QED BY <4>4, <5>1
      <4>6. M[i] \in Seq(X)
        BY <1>10
      <4>7. Elements(M[i]) = {M[i][k] : k \in 1..Len(M[i])} /\ Len(M[i]) \in Nat
        <5> HIDE DEF X
        <5> QED BY <4>6, ElementsOf
      <4>8. PICK k \in 1..Len(M[i]) : g = M[i][k]
        BY <4>5, <4>7
      <4>9. k # 1
        <5>1. PICK x1 \in Elements(plan) : x1.at = <<b, i>> /\ x1.where = "whole" /\ M[i] = x1.lines
          BY <4>3
        <5>2. Whole(<<b, i>>, M[i])
          BY <1>8, <5>1 DEF PatchShape
        <5>3. M[i][1].op = "decl"
          BY <5>2 DEF Whole
        <5> QED BY <1>17, <4>2, <4>8, <5>3 DEF HasGrant
      <4>10. k \in 2..Len(M[i])
        BY <4>7, <4>9
      <4> QED BY <4>2, <4>8, <4>10
    <3> QED BY <1>17, <3>1, <3>2
  <2>2. PICK g : HasGrant(g, c) /\ (g \in Elements(A[i]) \/ \E k \in 2..Len(M[i]) : g = M[i][k])
    BY <2>1
  <2>3. \E q \in 1..Len(new) : /\ home[i] < q /\ new[q] = g
                               /\ \A j \in 1..n : i < j => q < home[j]
    BY <1>12, <2>2 DEF Below
  <2> QED BY <2>2, <2>3
<1>18. Grown(text, Spliced, b, home)
  BY <1>2, <1>6, <1>12, <1>13, <1>14, <1>15 DEF Grown, Homes, o, n
<1>19. AtHome(b, home)
  BY <1>6, <1>14 DEF AtHome, o, n
<1>20. PlannedAbove(b, home)
  BY <1>6, <1>16 DEF PlannedAbove, o, n
<1>21. PlannedBelow(b, home)
  BY <1>6, <1>17 DEF PlannedBelow, o, n
<1>22. NewReturns(b, home)
  BY <1>6, <1>15 DEF NewReturns, o, n
<1>23. Spliced[b].stmts \in Seq(AnyStmts)
  BY <1>6, <1>13
<1> QED BY <1>18, <1>19, <1>20, <1>21, <1>22, <1>23

\* Grants of a return's write, which wait for the rule about the return.
Held(p, c) == /\ due # << >> /\ Head(due).at = p
              /\ \E g \in Elements(pending) : HasGrant(g, c)

\* What a rule leaves behind at a position when it has taken its fact.
Dealt1(p) ==
    \/ kind = "view" \/ Wrapped(At(text, p))
    \/ \A c \in Elements(WriteCalls(At(text, p).into)) :
          \/ GrantedWrite(text, p, c)
          \/ Planned(p, "after", c) \/ Planned(p, "whole", c) \/ Held(p, c)
Dealt2(p) ==
    \/ Quiet2(text, kind, p) \/ ~NoPatch(p, "inner")
    \/ Planned(p, "before", Grant("allowTransient", At(text, p).e, At(text, p).to))
Dealt3(p) == Quiet3(text, kind, p) \/ ~NoPatch(p, "whole")
Dealt5(p) ==
    \/ ~EventPolicy \/ At(text, p).e = "wrap" \/ ~NoPatch(p, "inner")
    \/ /\ IsIdent(At(text, p).e)
       /\ \A c \in Elements(EventCalls(At(text, p).e)) :
             Granted(BackwardWindow(text, p), c) \/ Planned(p, "before", c)
DealtR(p) ==
    \A x \in Policied : \A c \in Elements(WriteCalls(x)) :
       Granted(ForwardWindow(text, p, x), c) \/ Planned(p, "after", c)

Dealt(d) ==
    /\ d.rule = "R1" => Dealt1(d.at)
    /\ d.rule = "R2" => Dealt2(d.at)
    /\ d.rule = "R3" => Dealt3(d.at)
    /\ d.rule = "R5" => Dealt5(d.at)
    /\ d.rule = "reapply" => DealtR(d.at)

\* So the output is the text, grown, and it reaches no further block.
LEMMA SplicedBlocks ==
    ASSUME IsBody(text, Locals), PlanOK, ~Overlap
    PROVE  /\ AllGrown(text, Spliced)
           /\ Blocks(Spliced, AnyStmts)
           /\ Reached(Spliced) \subseteq Reached(text)
<1>1. DOMAIN Spliced = DOMAIN text /\ "main" \in DOMAIN text
  BY DEF Spliced, IsBody
<1>2. \A b \in DOMAIN text : \E home : Grown(text, Spliced, b, home)
  BY SplicedGrown
<1>3. \A b \in DOMAIN text : Spliced[b].stmts \in Seq(AnyStmts)
  BY SplicedGrown
<1>4. ASSUME NEW X, NEW s \in Seq(X), X = AnyStmts, NEW i \in 1..Len(s), s[i].op = "branch"
      PROVE  s[i] \in BranchTo(DOMAIN text)
  <2>1. s[i] \in AnyStmts
    BY <1>4, ElementOfSeq
  <2>2. ASSUME NEW N, s[i] \in Stmts(N) PROVE FALSE
    BY <1>4, <2>2, StmtShapes
  <2> QED BY <2>1, <2>2 DEF AnyStmts
<1>5. ASSUME NEW b \in DOMAIN text, NEW i \in 1..Len(text[b].stmts),
             text[b].stmts[i].op = "branch"
      PROVE  text[b].stmts[i].block \in DOMAIN text
  <2>1. text[b].stmts \in Seq(AnyStmts)
    BY BodyBlocks
  <2>2. text[b].stmts[i] \in BranchTo(DOMAIN text)
    BY <1>4, <1>5, <2>1
  <2> QED BY <2>2 DEF BranchTo
<1>6. AllGrown(text, Spliced)
  BY <1>1, <1>2, <1>5 DEF AllGrown
<1>7. ASSUME NEW s \in Elements(Spliced["main"].stmts), s.op = "branch"
      PROVE  s.block \in DOMAIN Spliced
  <2>1. Spliced["main"].stmts \in Seq(AnyStmts)
    BY <1>1, <1>3
  <2>2. PICK i \in 1..Len(Spliced["main"].stmts) : s = Spliced["main"].stmts[i]
    BY <2>1, ElementsOf
  <2>3. s \in BranchTo(DOMAIN text)
    BY <1>4, <1>7, <2>1, <2>2
  <2> QED BY <1>1, <2>3 DEF BranchTo
<1>8. Blocks(Spliced, AnyStmts)
  BY <1>1, <1>3, <1>7 DEF Blocks
<1>9. ASSUME NEW b \in Reached(Spliced) PROVE b \in Reached(text)
  <2>1. PICK s \in Elements(Spliced["main"].stmts) : s.op = "branch" /\ s.block = b
    BY <1>9 DEF Reached
  <2>2. Spliced["main"].stmts \in Seq(AnyStmts)
    BY <1>1, <1>3
  <2>3. PICK q \in 1..Len(Spliced["main"].stmts) : s = Spliced["main"].stmts[q]
    BY <2>2, ElementsOf
  <2>4. PICK home : Grown(text, Spliced, "main", home)
    BY <1>1, <1>2
  <2>5. ~Still(s)
    BY <2>1 DEF Still
  <2>6. PICK i \in 1..Len(text["main"].stmts) : q = home[i]
    BY <2>3, <2>4, <2>5 DEF Grown
  <2>7. Kin(text["main"].stmts[i], s)
    BY <2>3, <2>4, <2>6 DEF Grown
  <2>8. s = text["main"].stmts[i]
    BY <2>1, <2>7 DEF Kin, Computes
  <2>9. text["main"].stmts \in Seq(AnyStmts)
    BY <1>1, BodyBlocks
  <2>10. s \in Elements(text["main"].stmts)
    BY <2>8, <2>9, ElementsOf
  <2> QED BY <1>1, <1>9, <2>1, <2>10 DEF Reached
<1> QED BY <1>6, <1>8, <1>9

\* A grant the old text has for a write is there for the write at its home.
LEMMA WriteKept ==
    ASSUME IsBody(text, Locals), PlanOK, ~Overlap, Supported,
           NEW b \in DOMAIN text, NEW home, Grown(text, Spliced, b, home),
           NEW i \in 1..Len(text[b].stmts), NEW c, c.op = "grant", c.e \in Stored,
           text[b].stmts[i].op = "set" => Spliced[b].stmts[home[i]] = text[b].stmts[i],
           GrantedWrite(text, <<b, i>>, c)
    PROVE  GrantedWrite(Spliced, <<b, home[i]>>, c)
<1> DEFINE p == <<b, i>>
           r == <<b, home[i]>>
           s == text[b].stmts[i]
           z == Spliced[b].stmts[home[i]]
<1>1. At(text, p) = s /\ At(Spliced, r) = z
  BY DEF At
<1>2. AllGrown(text, Spliced)
  BY SplicedBlocks
<1>3. c.e # None
  BY NameAssumption
<1>4. CASE Granted(ForwardWindow(text, p, c.e), c)
  <2>1. Granted(ForwardWindow(Spliced, r, c.e), c)
    BY <1>2, <1>3, <1>4, ForwardKept
  <2> QED BY <2>1 DEF GrantedWrite
<1>5. ASSUME NEW l \in AssignedLocal(At(text, p)), NEW g, g.op = "grant",
             Granted(LocalWindow(text, p, l), g)
      PROVE  l \in AssignedLocal(At(Spliced, r)) /\ Granted(LocalWindow(Spliced, r, l), g)
  <2>1. s.op = "set" /\ s.e \in Names /\ l = s.e
    BY <1>1, <1>5 DEF AssignedLocal
  <2>2. z = s
    BY <2>1
  <2>3. s \in Stmts(Locals)
    BY <2>1, BodyBlocks DEF BranchTo
  <2>4. s.e \in Exprs(Locals)
    BY <2>1, <2>3, WriterShape DEF Computes
  <2>5. l # None /\ l \notin TempNames
    BY <2>1, <2>4, NameAssumption DEF Exprs, Supported, TempNames
  <2>6. Granted(LocalWindow(Spliced, r, l), g)
    BY <1>2, <1>5, <2>5, LocalKept
  <2> QED BY <1>1, <1>5, <2>2, <2>6
<1>6. CASE /\ c.e \notin Policied
           /\ \E l \in AssignedLocal(At(text, p)) :
                \/ Granted(LocalWindow(text, p, l), [c EXCEPT !.e = l])
                \/ /\ c.fn = "allowThis"
                   /\ \E fn \in {"allowPublic", "allowGlobal"} :
                        Granted(LocalWindow(text, p, l), Grant(fn, l, None))
  <2>1. PICK l \in AssignedLocal(At(text, p)) :
                \/ Granted(LocalWindow(text, p, l), [c EXCEPT !.e = l])
                \/ /\ c.fn = "allowThis"
                   /\ \E fn \in {"allowPublic", "allowGlobal"} :
                        Granted(LocalWindow(text, p, l), Grant(fn, l, None))
    BY <1>6
  <2>2. CASE Granted(LocalWindow(text, p, l), [c EXCEPT !.e = l])
    <3>1. [c EXCEPT !.e = l].op = "grant"
      OBVIOUS
    <3> HIDE DEF p, r
    <3>2. l \in AssignedLocal(At(Spliced, r)) /\ Granted(LocalWindow(Spliced, r, l), [c EXCEPT !.e = l])
      BY <1>5, <2>2, <3>1
    <3> QED BY <1>6, <3>2, Zenon DEF GrantedWrite, p, r
  <2>3. CASE /\ c.fn = "allowThis"
             /\ \E fn \in {"allowPublic", "allowGlobal"} :
                        Granted(LocalWindow(text, p, l), Grant(fn, l, None))
    <3>1. PICK fn \in {"allowPublic", "allowGlobal"} :
                        Granted(LocalWindow(text, p, l), Grant(fn, l, None))
      BY <2>3
    <3>2. Grant(fn, l, None).op = "grant"
      BY DEF Grant
    <3>3. /\ l \in AssignedLocal(At(Spliced, r))
          /\ Granted(LocalWindow(Spliced, r, l), Grant(fn, l, None))
      BY <1>5, <3>1, <3>2
    <3> QED BY <1>6, <2>3, <3>1, <3>3, Zenon DEF GrantedWrite
  <2> QED BY <2>1, <2>2, <2>3
<1> QED BY <1>4, <1>6 DEF GrantedWrite

\* A duty at a home: dealt with at the old statement, it is quiet here.
LEMMA HomeQuiet ==
    ASSUME IsBody(text, Locals), PlanOK, ~Overlap, Supported, pending = << >>,
           NEW b \in DOMAIN text, NEW home, Grown(text, Spliced, b, home),
           AtHome(b, home), PlannedAbove(b, home), PlannedBelow(b, home),
           NEW i \in 1..Len(text[b].stmts), NEW rule \in RuleNames,
           Asks(rule, Spliced[b].stmts[home[i]]),
           \A r : Asks(r, text[b].stmts[i]) => Dealt([rule |-> r, at |-> <<b, i>>])
    PROVE  Quiet(Spliced, kind, [rule |-> rule, at |-> <<b, home[i]>>])
<1> DEFINE p == <<b, i>>
           r == <<b, home[i]>>
           s == text[b].stmts[i]
           z == Spliced[b].stmts[home[i]]
<1>1. At(text, p) = s /\ At(Spliced, r) = z
  BY DEF At
<1>2. AllGrown(text, Spliced)
  BY SplicedBlocks
<1>3. /\ Asks("R1", s) => Dealt1(p)
      /\ Asks("R2", s) => Dealt2(p)
      /\ Asks("R3", s) => Dealt3(p)
      /\ Asks("R5", s) => Dealt5(p)
      /\ Asks("reapply", s) => DealtR(p)
  BY DEF Dealt
<1>4. \/ z = s /\ NoPatch(p, "inner") /\ NoPatch(p, "whole")
      \/ Inner(p, z) /\ NoPatch(p, "whole")
      \/ /\ s.op = "return" /\ z.op = "decl" /\ z.name \in TempNames
         /\ z.into = s.into /\ z.to = s.to /\ z.e = s.e
         /\ NoPatch(p, "inner")
  BY DEF AtHome
<1>5. ASSUME NEW c, c.op = "grant", Granted(BackwardWindow(text, p), c)
      PROVE  Granted(BackwardWindow(Spliced, r), c)
  BY <1>5, BackwardKept
<1>6. ASSUME NEW c, Planned(p, "before", c)
      PROVE  Granted(BackwardWindow(Spliced, r), c)
  <2>1. PICK q \in 1..Len(Spliced[b].stmts) : q < home[i] /\ HasGrant(Spliced[b].stmts[q], c)
    BY <1>6 DEF PlannedAbove
  <2>2. q \in 1..home[i] - 1 /\ r[1] = b /\ r[2] = home[i]
    BY <2>1 DEF Grown
  <2> HIDE DEF r
  <2> QED BY <2>1, <2>2, WindowsAre
<1>7. ASSUME NEW c, c.op = "grant", NEW x, x # None,
             Planned(p, "after", c) \/ Planned(p, "whole", c)
      PROVE  Granted(ForwardWindow(Spliced, r, x), c)
  <2>1. PICK q \in 1..Len(Spliced[b].stmts) :
              /\ home[i] < q /\ HasGrant(Spliced[b].stmts[q], c)
              /\ \A j \in 1..Len(text[b].stmts) : i < j => q < home[j]
    BY <1>7 DEF PlannedBelow
  <2> QED BY <1>2, <1>7, <2>1, InsertedBelow
<1>8. s.op = "set" => z = s
  <2>1. ASSUME s.op = "set", Computes(s), s.to # None PROVE FALSE
    <3>1. s \in Stmts(Locals)
      BY <2>1, BodyBlocks DEF BranchTo
    <3> QED BY <2>1, <3>1, WriterShape
  <2>2. s.op = "set" => Computes(s)
    BY DEF Computes
  <2> QED BY <1>1, <1>4, <2>1, <2>2 DEF Inner
<1>9. ASSUME Asks("R1", z) PROVE Quiet1(Spliced, kind, r)
  <2>1. Computes(z) /\ z.into \in Stored
    BY <1>9 DEF Asks, Asked1
  <2>2. Computes(s) /\ s.into = z.into
    BY <1>1, <1>4, <2>1 DEF Inner, Computes
  <2>3. Dealt1(p)
    BY <1>3, <2>1, <2>2 DEF Asks, Asked1
  <2>4. Wrapped(s) => Wrapped(z)
    BY <1>1, <1>4, <2>1 DEF Wrapped, Inner, Computes
  <2>5. ASSUME NEW c \in Elements(WriteCalls(s.into)),
               \/ GrantedWrite(text, p, c)
               \/ Planned(p, "after", c) \/ Planned(p, "whole", c)
        PROVE  GrantedWrite(Spliced, r, c)
    <3>1. c.op = "grant" /\ c.e \in Stored
      <4>1. c \in WriteGrants(s.into) /\ c.e = s.into
        BY <2>5, CallsAre
      <4> QED BY <2>1, <2>2, <4>1 DEF WriteGrants, Grant
    <3>2. c.e # None
      BY <3>1, NameAssumption
    <3>3. CASE GrantedWrite(text, p, c)
      BY <1>8, <3>1, <3>3, WriteKept
    <3>4. CASE Planned(p, "after", c) \/ Planned(p, "whole", c)
      <4>1. Granted(ForwardWindow(Spliced, r, c.e), c)
        BY <1>7, <3>1, <3>2, <3>4
      <4> QED BY <4>1 DEF GrantedWrite
    <3> QED BY <2>5, <3>3, <3>4
  <2>6. \/ kind = "view" \/ Wrapped(s)
        \/ \A c \in Elements(WriteCalls(s.into)) :
              \/ GrantedWrite(text, p, c)
              \/ Planned(p, "after", c) \/ Planned(p, "whole", c)
    <3>1. Elements(pending) = {}
      BY DEF Elements
    <3> QED BY <1>1, <2>3, <3>1 DEF Dealt1, Held
  <2> QED BY <1>1, <2>2, <2>4, <2>5, <2>6 DEF Quiet1
<1>10. ASSUME Asks("R2", z) PROVE Quiet2(Spliced, kind, r)
  <2>1. Computes(z) /\ z.to # None
    BY <1>10 DEF Asks, Asked2
  <2>2. Computes(s) /\ s.to = z.to
    BY <1>1, <1>4, <2>1 DEF Inner, Computes
  <2>3. Dealt2(p)
    BY <1>3, <2>1, <2>2 DEF Asks, Asked2
  <2>4. CASE Inner(p, z)
    <3>1. Planned(p, "before", Grant("allowTransient", z.e, z.to))
      BY <2>1, <2>4 DEF Inner, Computes
    <3> QED BY <1>1, <1>6, <3>1 DEF Quiet2
  <2>5. CASE z.e = s.e /\ NoPatch(p, "inner")
    <3> DEFINE g == Grant("allowTransient", s.e, s.to)
    <3>1. g.op = "grant"
      BY DEF Grant
    <3>2. \/ kind = "view" \/ Granted(BackwardWindow(text, p), g)
          \/ Planned(p, "before", g)
      BY <1>1, <2>3, <2>5 DEF Dealt2, Quiet2
    <3>3. kind = "view" \/ Granted(BackwardWindow(Spliced, r), g)
      <4> HIDE DEF g
      <4> QED BY <1>5, <1>6, <3>1, <3>2
    <3> QED BY <1>1, <2>2, <2>5, <3>3 DEF Quiet2
  <2> QED BY <1>4, <2>4, <2>5
<1>11. ASSUME Asks("R3", z) PROVE Quiet3(Spliced, kind, r)
  <2>1. Computes(z) /\ z.op = "return"
    BY <1>11 DEF Asks, Asked3
  <2>2. s.op = "return" /\ Computes(s) /\ NoPatch(p, "whole") /\ (z = s \/ s.to # None)
    BY <1>1, <1>4, <2>1 DEF Inner, Computes
  <2>3. Dealt3(p)
    BY <1>3, <2>2 DEF Asks, Asked3
  <2>4. Quiet3(text, kind, p)
    BY <2>2, <2>3 DEF Dealt3
  <2>5. CASE kind # "public"
    BY <2>5 DEF Quiet3
  <2>6. CASE /\ s.into = None /\ s.to = None
             /\ Granted(BackwardWindow(text, p), Grant("allowTransient", s.e, Sender))
    <3> DEFINE g == Grant("allowTransient", s.e, Sender)
    <3>1. g.op = "grant"
      BY DEF Grant
    <3>2. Granted(BackwardWindow(Spliced, r), g)
      <4>1. Granted(BackwardWindow(text, p), g)
        BY <2>6
      <4> HIDE DEF g
      <4> QED BY <1>5, <3>1, <4>1
    <3> QED BY <1>1, <2>2, <2>6, <3>2 DEF Quiet3
  <2> QED BY <1>1, <2>4, <2>5, <2>6 DEF Quiet3
<1>12. ASSUME Asks("R5", z) PROVE Quiet5(Spliced, r)
  <2>1. z.op = "emit"
    BY <1>12 DEF Asks, Asked5
  <2>2. s.op = "emit"
    BY <1>1, <1>4, <2>1 DEF Inner, Computes
  <2>3. Dealt5(p)
    BY <1>3, <2>2 DEF Asks, Asked5
  <2>4. ASSUME NEW e, NEW c \in Elements(EventCalls(e)),
               Granted(BackwardWindow(text, p), c) \/ Planned(p, "before", c)
        PROVE  Granted(BackwardWindow(Spliced, r), c)
    <3>1. c \in EventGrants(e)
      BY <2>4, CallsAre
    <3>2. c.op = "grant"
      BY <3>1 DEF EventGrants, Grant
    <3> QED BY <1>5, <1>6, <2>4, <3>2
  <2>5. CASE Inner(p, z)
    <3>1. /\ z.e \in TempNames
          /\ \A c \in EventGrants(z.e) :
                Planned(p, "before", c) \/ Granted(BackwardWindow(text, p), c)
      BY <1>1, <2>2, <2>5 DEF Inner, Computes
    <3>2. IsIdent(z.e)
      BY <3>1, ElementsOf DEF IsIdent, Names, TempNames, Elements
    <3>3. \A c \in Elements(EventCalls(z.e)) : Granted(BackwardWindow(Spliced, r), c)
      <4>1. Elements(EventCalls(z.e)) = EventGrants(z.e)
        BY CallsAre
      <4> QED BY <2>4, <3>1, <4>1
    <3> QED BY <1>1, <3>2, <3>3 DEF Quiet5
  <2>6. CASE z = s /\ NoPatch(p, "inner")
    <3>1. \/ ~EventPolicy \/ z.e = "wrap"
          \/ /\ IsIdent(z.e)
             /\ \A c \in Elements(EventCalls(z.e)) :
                   Granted(BackwardWindow(text, p), c) \/ Planned(p, "before", c)
      BY <1>1, <2>3, <2>6 DEF Dealt5
    <3>2. \/ ~EventPolicy \/ z.e = "wrap"
          \/ /\ IsIdent(z.e)
             /\ \A c \in Elements(EventCalls(z.e)) : Granted(BackwardWindow(Spliced, r), c)
      BY <2>4, <3>1
    <3> QED BY <1>1, <3>2 DEF Quiet5
  <2> QED BY <1>4, <2>1, <2>5, <2>6
<1>13. ASSUME Asks("reapply", z) PROVE QuietR(Spliced, r)
  <2>1. z.op = "reader" /\ z.form = "assign"
    BY <1>13 DEF Asks, AskedR
  <2>2. z = s
    BY <1>1, <1>4, <2>1 DEF Inner, Computes
  <2>3. DealtR(p)
    BY <1>3, <2>1, <2>2 DEF Asks, AskedR
  <2>4. ASSUME NEW x \in Policied, NEW c \in Elements(WriteCalls(x))
        PROVE  Granted(ForwardWindow(Spliced, r, x), c)
    <3>1. c.op = "grant" /\ x # None
      <4>1. c \in WriteGrants(x)
        BY CallsAre
      <4>2. x # None
        BY NameAssumption DEF Stored
      <4> QED BY <4>1, <4>2 DEF WriteGrants, Grant
    <3>2. Granted(ForwardWindow(text, p, x), c) \/ Planned(p, "after", c)
      BY <2>3 DEF DealtR
    <3>3. CASE Granted(ForwardWindow(text, p, x), c)
      BY <1>2, <3>1, <3>3, ForwardKept
    <3>4. CASE Planned(p, "after", c)
      BY <1>7, <3>1, <3>4
    <3> QED BY <3>2, <3>3, <3>4
  <2> QED BY <2>4 DEF QuietR
<1> HIDE DEF z, r
<1> QED
  <2>1. Asks(rule, z)
    BY DEF z
  <2> QED BY <1>9, <1>10, <1>11, <1>12, <1>13, <2>1 DEF Quiet, r

\* What a rule asks of an inserted statement: of the returns alone, and they
\* follow their grant.
LEMMA NewQuiet ==
    ASSUME NEW b \in DOMAIN text, NEW home, Grown(text, Spliced, b, home),
           NewReturns(b, home), NEW q \in 1..Len(Spliced[b].stmts),
           \A i \in 1..Len(text[b].stmts) : q # home[i],
           NEW rule \in RuleNames, Asks(rule, Spliced[b].stmts[q])
    PROVE  Quiet(Spliced, kind, [rule |-> rule, at |-> <<b, q>>])
<1> DEFINE r == <<b, q>>
           z == Spliced[b].stmts[q]
<1>1. At(Spliced, r) = z /\ r[1] = b /\ r[2] = q
  BY DEF At
<1>2. Still(z)
  BY DEF Grown
<1>3. None \notin Stored
  BY NameAssumption
<1>4. rule = "R3" /\ z.op = "return" /\ z.into = None /\ z.to = None
  BY <1>2, <1>3 DEF Still, Asks, Asked1, Asked2, Asked3, Asked5, AskedR, Computes
<1>5. q - 1 \in 1..Len(Spliced[b].stmts)
      /\ HasGrant(Spliced[b].stmts[q - 1], Grant("allowTransient", z.e, Sender))
  BY <1>4 DEF NewReturns
<1>6. Granted(BackwardWindow(Spliced, r), Grant("allowTransient", z.e, Sender))
  <2>1. q - 1 \in 1..q - 1
    BY <1>5
  <2> HIDE DEF r, z
  <2> QED BY <1>1, <1>5, <2>1, WindowsAre
<1>7. Quiet3(Spliced, kind, r)
  BY <1>1, <1>4, <1>6 DEF Quiet3
<1> QED BY <1>4, <1>7 DEF Quiet

\* When the facts of a body have been dealt with, those of the text its
\* patches make of it are quiet: no rule finds a grant missing.
LEMMA AllQuiet ==
    ASSUME IsBody(text, Locals), PlanOK, ~Overlap, Supported, pending = << >>,
           \A d \in Elements(Facts(text)) : Dealt(d)
    PROVE  /\ Facts(Spliced) \in Seq(Duty(RuleNames, Spots(Spliced)))
           /\ \A d \in Elements(Facts(Spliced)) : Quiet(Spliced, kind, d)
<1>1. Blocks(Spliced, AnyStmts) /\ Reached(Spliced) \subseteq Reached(text)
  BY SplicedBlocks
<1>2. Facts(Spliced) \in Seq(Duty(RuleNames, Spots(Spliced)))
  BY <1>1, FactsOf
<1>3. \A d \in Elements(Facts(Spliced)) :
         d.at \in Spots(Spliced) /\ Asks(d.rule, At(Spliced, d.at))
  BY <1>1, FactsOf
<1>4. Blocks(text, AnyStmts)
  BY BodyBlocks
<1>5. \A p \in Spots(text) : \A r : Asks(r, At(text, p)) =>
         [rule |-> r, at |-> p] \in Elements(Facts(text))
  BY <1>4, FactsOf
<1>6. ASSUME NEW d \in Elements(Facts(Spliced)) PROVE Quiet(Spliced, kind, d)
  <2>1. d \in Duty(RuleNames, Spots(Spliced))
    BY <1>2, ElementsOf
  <2>2. d = [rule |-> d.rule, at |-> d.at] /\ d.rule \in RuleNames /\ d.at \in Spots(Spliced)
    BY <2>1 DEF Duty
  <2>3. Asks(d.rule, At(Spliced, d.at))
    BY <1>3
  <2> DEFINE b == d.at[1]
             q == d.at[2]
  <2>4. /\ d.at = <<b, q>> /\ b \in DOMAIN text /\ q \in 1..Len(Spliced[b].stmts)
        /\ b = "main" \/ b \in Reached(text)
    BY <1>1, <2>2 DEF Spots, Spliced
  <2>5. Asks(d.rule, Spliced[b].stmts[q])
    BY <2>3 DEF At
  <2> HIDE DEF b, q
  <2>6. PICK home : /\ Grown(text, Spliced, b, home) /\ AtHome(b, home)
                    /\ PlannedAbove(b, home) /\ PlannedBelow(b, home) /\ NewReturns(b, home)
    BY <2>4, SplicedGrown
  <2>7. CASE \A i \in 1..Len(text[b].stmts) : q # home[i]
    <3>1. Quiet(Spliced, kind, [rule |-> d.rule, at |-> <<b, q>>])
      BY <2>2, <2>4, <2>5, <2>6, <2>7, NewQuiet
    <3> QED BY <2>2, <2>4, <3>1
  <2>8. CASE \E i \in 1..Len(text[b].stmts) : q = home[i]
    <3>1. PICK i \in 1..Len(text[b].stmts) : q = home[i]
      BY <2>8
    <3>2. <<b, i>> \in Spots(text)
      <4>1. i \in Nat
        BY <2>6 DEF Grown
      <4> QED BY <2>4, <4>1 DEF Spots
    <3>3. At(text, <<b, i>>) = text[b].stmts[i]
      BY DEF At
    <3>4. \A r : Asks(r, text[b].stmts[i]) => Dealt([rule |-> r, at |-> <<b, i>>])
      BY <1>5, <3>2, <3>3
    <3>5. Quiet(Spliced, kind, [rule |-> d.rule, at |-> <<b, home[i]>>])
      BY <2>2, <2>4, <2>5, <2>6, <3>1, <3>4, HomeQuiet
    <3> QED BY <2>2, <2>4, <3>1, <3>5
  <2> QED BY <2>7, <2>8
<1> QED BY <1>2, <1>6

-----------------------------------------------------------------------------
(* What re-application inserts.                                            *)

PolicyLines(p) ==
    Concat([i \in DOMAIN PoliciedInOrder |->
              LET t == PoliciedInOrder[i] IN
              GuardLines(t, MissingAfter(p, WriteCalls(t)))])

\* Every policied variable has its turn.
LEMMA PoliciedAll ==
    ASSUME IsFiniteSet(Policied)
    PROVE  /\ PoliciedInOrder \in [1..Cardinality(Policied) -> Policied]
           /\ Cardinality(Policied) \in Nat
           /\ \A x \in Policied : \E i \in 1..Cardinality(Policied) : PoliciedInOrder[i] = x
<1> DEFINE n == Cardinality(Policied)
           Ok(s) == \A i, j \in DOMAIN s : i # j => s[i] # s[j]
<1>1. n \in Nat /\ ExistsBijection(1..n, Policied)
  BY FS_CardinalityType
<1>2. PICK f : f \in Bijection(1..n, Policied)
  BY <1>1 DEF ExistsBijection
<1>3. f \in [1..n -> Policied] /\ Ok(f)
  BY <1>2 DEF Bijection, Injection, IsInjective
<1>4. PoliciedInOrder = CHOOSE s \in [1..n -> Policied] : Ok(s)
  BY DEF PoliciedInOrder
<1> HIDE DEF n, Ok
<1>5. PoliciedInOrder \in [1..n -> Policied] /\ Ok(PoliciedInOrder)
  BY <1>3, <1>4
<1>6. PoliciedInOrder \in Injection(1..n, Policied)
  BY <1>5 DEF Injection, IsInjective, Ok
<1>7. IsFiniteSet(1..n) /\ Cardinality(1..n) = n
  BY <1>1, FS_Interval
<1>8. PoliciedInOrder \in Surjection(1..n, Policied)
  BY <1>6, <1>7, FS_Injection DEF n
<1> QED BY <1>1, <1>5, <1>8 DEF Surjection, n

\* A guard has the grants it is made of.
LEMMA GuardHas ==
    ASSUME NEW e, NEW calls, NEW c
    PROVE  c \in Elements(calls) => HasGrant(Guard(e, calls), c)
BY DEF Elements, HasGrant, Guard

\* There are lines just when some policy's grant is missing, and then the
\* missing grants are in them.
PolicyRow(p) == [i \in DOMAIN PoliciedInOrder |->
                   GuardLines(PoliciedInOrder[i],
                              MissingAfter(p, WriteCalls(PoliciedInOrder[i])))]

\* What the rules insert is what an author may write, with names of the namer.
LEMMA WriteGrantsTyped ==
    ASSUME NEW x \in Stored
    PROVE  WriteGrants(x) \subseteq GrantsOn(Names)
BY DEF WriteGrants, GrantsOn, Grant, Exprs, Parties, GrantFns

\* The same of the grants of an event.
LEMMA EventGrantsTyped ==
    ASSUME NEW x \in Exprs(Names)
    PROVE  EventGrants(x) \subseteq GrantsOn(Names)
BY DEF EventGrants, GrantsOn, Grant, Exprs, Parties, GrantFns

\* A sequence over a set is one over a larger set.
LEMMA WiderSeq ==
    ASSUME NEW S, NEW T, S \subseteq T, NEW s \in Seq(S)
    PROVE  s \in Seq(T)
<1>1. Elements(s) \subseteq T
  BY ElementsOf
<1> QED BY <1>1, SeqOfElements

\* A guard over such grants is a statement.
LEMMA GuardTyped ==
    ASSUME NEW e \in Exprs(Names), NEW S, S \subseteq GrantsOn(Names), NEW calls \in Seq(S)
    PROVE  Guard(e, calls) \in Guards(Names)
<1>1. calls \in Seq(GrantsOn(Names))
  BY WiderSeq
<1> QED BY <1>1 DEF Guard, Guards

\* One policied variable's part of a re-application,
LEMMA PolicyRowIs ==
    ASSUME NEW p, NEW i \in DOMAIN PoliciedInOrder, NEW x \in Policied, x = PoliciedInOrder[i]
    PROVE  /\ PolicyRow(p)[i] \in Seq(Guards(Names))
           /\ PolicyRow(p)[i] = << >> <=>
                 \A c \in Elements(WriteCalls(x)) : Granted(ForwardWindow(text, p, x), c)
           /\ \A c \in Elements(WriteCalls(x)) :
                 \/ Granted(ForwardWindow(text, p, x), c)
                 \/ \E g \in Elements(PolicyRow(p)[i]) : HasGrant(g, c)
<1> DEFINE calls == MissingAfter(p, WriteCalls(x))
<1>1. PolicyRow(p)[i] = GuardLines(x, calls)
  BY DEF PolicyRow
<1>2. /\ WriteCalls(x) \in Seq(WriteGrants(x))
      /\ \A c \in Elements(WriteCalls(x)) : c.e = x
  BY CallsAre
<1>3. /\ calls \in Seq(WriteGrants(x))
      /\ Elements(calls) = {c \in Elements(WriteCalls(x)) : ~Granted(ForwardWindow(text, p, c.e), c)}
  BY <1>2, MissingIs
<1>4. Elements(calls) = {c \in Elements(WriteCalls(x)) : ~Granted(ForwardWindow(text, p, x), c)}
  BY <1>2, <1>3
<1>5. x \in Stored /\ x \in Exprs(Names)
  BY NameAssumption DEF Stored, Exprs
<1> HIDE DEF calls
<1>6. Guard(x, calls) \in Guards(Names)
  BY <1>3, <1>5, WriteGrantsTyped, GuardTyped
<1>7. calls = << >> <=> Elements(calls) = {}
  BY <1>3, ElementsEmpty
<1>8. CASE calls = << >>
  <2>1. PolicyRow(p)[i] = << >>
    BY <1>1, <1>8 DEF GuardLines
  <2> QED BY <1>4, <1>7, <1>8, <2>1
<1>9. CASE calls # << >>
  <2>1. PolicyRow(p)[i] = <<Guard(x, calls)>>
    BY <1>1, <1>9 DEF GuardLines
  <2>2. /\ <<Guard(x, calls)>> \in Seq(Guards(Names))
        /\ Elements(<<Guard(x, calls)>>) = {Guard(x, calls)} /\ <<Guard(x, calls)>> # << >>
    BY <1>6, OneElement, ElementsEmpty
  <2>3. \A c \in Elements(calls) : HasGrant(Guard(x, calls), c)
    BY GuardHas
  <2> QED BY <1>4, <1>7, <1>9, <2>1, <2>2, <2>3
<1> QED BY <1>8, <1>9

\* and all of it: each variable whose grant is missing has one.
LEMMA PolicyLinesAre ==
    ASSUME IsFiniteSet(Policied), NEW p
    PROVE  /\ PolicyLines(p) \in Seq(Guards(Names))
           /\ PolicyLines(p) = << >> <=> QuietR(text, p)
           /\ \A x \in Policied : \A c \in Elements(WriteCalls(x)) :
                 \/ Granted(ForwardWindow(text, p, x), c)
                 \/ \E g \in Elements(PolicyLines(p)) : HasGrant(g, c)
<1> DEFINE n == Cardinality(Policied)
           row == PolicyRow(p)
<1>1. /\ PoliciedInOrder \in [1..n -> Policied] /\ n \in Nat
      /\ \A x \in Policied : \E i \in 1..n : PoliciedInOrder[i] = x
  BY PoliciedAll
<1>2. DOMAIN PoliciedInOrder = 1..n /\ \A i \in 1..n : PoliciedInOrder[i] \in Policied
  BY <1>1
<1>3. PolicyLines(p) = Concat(row)
  BY DEF PolicyLines, PolicyRow
<1> HIDE DEF n
<1>4. \A i \in 1..n : row[i] \in Seq(Guards(Names))
  BY <1>2, PolicyRowIs
<1>5. row \in [1..n -> Seq(Guards(Names))]
  <2>1. DOMAIN row = 1..n /\ row = [i \in 1..n |-> row[i]]
    BY <1>2 DEF PolicyRow
  <2> HIDE DEF row
  <2> QED BY <1>4, <2>1
<1> HIDE DEF row
<1>6. row \in Seq(Seq(Guards(Names))) /\ Len(row) = n
  BY <1>1, <1>5, FunctionSeq
<1>7. /\ Concat(row) \in Seq(Guards(Names))
      /\ Elements(Concat(row)) = UNION {Elements(row[i]) : i \in 1..n}
  BY <1>6, ElementsOfConcat
<1>8. ASSUME NEW x \in Policied, NEW c \in Elements(WriteCalls(x))
      PROVE  \/ Granted(ForwardWindow(text, p, x), c)
             \/ \E g \in Elements(PolicyLines(p)) : HasGrant(g, c)
  <2>1. PICK i \in 1..n : PoliciedInOrder[i] = x
    BY <1>1
  <2>2. \/ Granted(ForwardWindow(text, p, x), c)
        \/ \E g \in Elements(row[i]) : HasGrant(g, c)
    BY <1>2, <2>1, PolicyRowIs DEF row
  <2> QED BY <1>3, <1>7, <2>2
<1>9. PolicyLines(p) = << >> <=> \A i \in 1..n : row[i] = << >>
  <2>1. Concat(row) = << >> <=> Elements(Concat(row)) = {}
    BY <1>7, ElementsEmpty
  <2>2. \A i \in 1..n : row[i] = << >> <=> Elements(row[i]) = {}
    BY <1>4, ElementsEmpty
  <2>3. UNION {Elements(row[i]) : i \in 1..n} = {} <=> \A i \in 1..n : Elements(row[i]) = {}
    OBVIOUS
  <2> QED BY <1>3, <1>7, <2>1, <2>2, <2>3, Zenon
<1>10. ASSUME NEW i \in 1..n
       PROVE  row[i] = << >> <=> \A c \in Elements(WriteCalls(PoliciedInOrder[i])) :
                                    Granted(ForwardWindow(text, p, PoliciedInOrder[i]), c)
  BY <1>2, PolicyRowIs DEF row
<1>11. QuietR(text, p) <=> \A i \in 1..n :
           \A c \in Elements(WriteCalls(PoliciedInOrder[i])) :
               Granted(ForwardWindow(text, p, PoliciedInOrder[i]), c)
  BY <1>1, <1>2 DEF QuietR
<1> QED BY <1>3, <1>7, <1>8, <1>9, <1>10, <1>11

-----------------------------------------------------------------------------
(* The first round, fact by fact.                                          *)

\* Patches are added and none is taken back.
LEMMA PlanGrows ==
    ASSUME plan \in Seq(PatchSet), NEW ps \in Seq(PatchSet), plan' = plan \o ps, text' = text
    PROVE  /\ plan' \in Seq(PatchSet') /\ Elements(plan') = Elements(plan) \cup Elements(ps)
           /\ \A p, w, c : Planned(p, w, c) => Planned(p, w, c)'
           /\ \A p, w : NoPatch(p, w)' => NoPatch(p, w)
           /\ \A p, z : Inner(p, z) => Inner(p, z)'
           /\ \A x : PatchShape(x) => PatchShape(x)'
<1>1. Elements(plan') = Elements(plan) \cup Elements(ps) /\ plan' \in Seq(PatchSet)
  BY ElementsConcat
<1>2. PatchSet' = PatchSet
  BY DEF PatchSet
<1>3. ASSUME NEW p, NEW w, NEW c, Planned(p, w, c) PROVE Planned(p, w, c)'
  BY <1>1, <1>3 DEF Planned
<1>4. ASSUME NEW p, NEW w, NoPatch(p, w)' PROVE NoPatch(p, w)
  BY <1>1, <1>4 DEF NoPatch
<1>5. ASSUME NEW p, NEW z, Inner(p, z) PROVE Inner(p, z)'
  BY <1>3, <1>5 DEF Inner
<1>6. ASSUME NEW x, PatchShape(x) PROVE PatchShape(x)'
  <2>1. Whole(x.at, x.lines) => Whole(x.at, x.lines)'
    BY DEF Whole
  <2> QED BY <1>5, <1>6, <2>1 DEF PatchShape
<1> QED BY <1>1, <1>2, <1>3, <1>4, <1>5, <1>6

\* What has been dealt with stays so while the plan grows.
LEMMA DealtKept ==
    ASSUME plan \in Seq(PatchSet), NEW ps \in Seq(PatchSet), plan' = plan \o ps, text' = text,
           kind' = kind, \A p, c : Held(p, c) => Held(p, c)' \/ Planned(p, "whole", c)',
           NEW d, Dealt(d)
    PROVE  Dealt(d)'
<1>1. /\ \A p, w, c : Planned(p, w, c) => Planned(p, w, c)'
      /\ \A p, w : NoPatch(p, w)' => NoPatch(p, w)
  BY PlanGrows
<1>2. ASSUME NEW p, Dealt1(p) PROVE Dealt1(p)'
  BY <1>1, <1>2 DEF Dealt1
<1>3. ASSUME NEW p, Dealt2(p) PROVE Dealt2(p)'
  BY <1>1, <1>3 DEF Dealt2
<1>4. ASSUME NEW p, Dealt3(p) PROVE Dealt3(p)'
  BY <1>1, <1>4 DEF Dealt3
<1>5. ASSUME NEW p, Dealt5(p) PROVE Dealt5(p)'
  BY <1>1, <1>5 DEF Dealt5
<1>6. ASSUME NEW p, DealtR(p) PROVE DealtR(p)'
  BY <1>1, <1>6 DEF DealtR
<1> QED BY <1>2, <1>3, <1>4, <1>5, <1>6 DEF Dealt

\* What is left of the facts.
Rest(F, ds) ==
    /\ Len(ds) <= Len(F)
    /\ \A i \in 1..Len(ds) : ds[i] = F[Len(F) - Len(ds) + i]

\* What is ahead after the head is taken.
LEMMA RestTail ==
    ASSUME NEW S, NEW F \in Seq(S), NEW ds \in Seq(S), Rest(F, ds), ds # << >>
    PROVE  /\ Tail(ds) \in Seq(S) /\ Rest(F, Tail(ds)) /\ Head(ds) \in S
           /\ Len(F) \in Nat /\ Len(ds) \in Nat
           /\ Len(ds) >= 1 /\ Len(Tail(ds)) = Len(ds) - 1
           /\ Head(ds) = F[Len(F) - Len(ds) + 1]
           /\ Len(ds) >= 2 => Tail(ds) # << >> /\ Head(Tail(ds)) = F[Len(F) - Len(ds) + 2]
<1>1. /\ Len(F) \in Nat /\ Len(ds) \in Nat /\ Len(ds) >= 1 /\ ds[1] \in S /\ Head(ds) = ds[1]
      /\ Len(ds) <= Len(F)
  BY LenProperties, EmptySeq, ElementOfSeq, HeadTailProperties DEF Rest
<1>2. /\ Tail(ds) \in Seq(S) /\ Len(Tail(ds)) = Len(ds) - 1
      /\ \A i \in 1..Len(ds) - 1 : Tail(ds)[i] = ds[i + 1]
  BY HeadTailProperties, <1>1
<1>3. Head(ds) = F[Len(F) - Len(ds) + 1]
  BY <1>1 DEF Rest
<1>4. Rest(F, Tail(ds))
  <2>1. ASSUME NEW i \in 1..Len(ds) - 1
        PROVE  Tail(ds)[i] = F[Len(F) - (Len(ds) - 1) + i]
    <3>1. i + 1 \in 1..Len(ds) /\ Len(F) - (Len(ds) - 1) + i = Len(F) - Len(ds) + (i + 1)
      BY <1>1
    <3>2. ds[i + 1] = F[Len(F) - Len(ds) + (i + 1)]
      BY <3>1 DEF Rest
    <3> QED BY <1>2, <3>1, <3>2
  <2> QED BY <1>1, <1>2, <2>1 DEF Rest
<1>5. ASSUME Len(ds) >= 2
      PROVE  Tail(ds) # << >> /\ Head(Tail(ds)) = F[Len(F) - Len(ds) + 2]
  <2>1. Len(Tail(ds)) >= 1
    BY <1>1, <1>2, <1>5
  <2>2. Tail(ds) # << >>
    <3>1. Len(<< >>) = 0
      OBVIOUS
    <3>2. ~(0 >= 1)
      OBVIOUS
    <3> QED BY <2>1, <3>1, <3>2, Zenon
  <2>3. Head(Tail(ds)) = Tail(ds)[1]
    BY <1>2, <2>2, HeadTailProperties
  <2>4. 2 \in 1..Len(ds) /\ Tail(ds)[1] = ds[2]
    BY <1>1, <1>2, <1>5
  <2> QED BY <2>2, <2>3, <2>4 DEF Rest
<1> QED BY <1>1, <1>2, <1>3, <1>4, <1>5

\* Grants wait only in front of the rest of their return's duties.
Waiting == pending # << >> => /\ due # << >> /\ Head(due).rule \in {"R2", "R3"}
                              /\ At(text, Head(due).at).op = "return"

Past(F, ds) == {F[n] : n \in 1..Len(F) - Len(ds)}

\* The first round: what has been taken is dealt with, and no more names are
\* used than facts have been taken.
Working ==
    /\ round = 1 /\ phase = "pass" /\ kind \in Kinds
    /\ IsBody(text, Locals) /\ Len(Facts(text)) <= Len(Temps)
    /\ PlanOK
    /\ due \in Seq(Duty(RuleNames, Spots(text))) /\ Rest(Facts(text), due)
    /\ used \in Nat /\ used <= Len(Facts(text)) - Len(due)
    /\ \A d \in Past(Facts(text), due) : Dealt(d)
    /\ pending \in Seq(Guards(Names)) /\ Waiting

\* The queue is a sequence of duties.
LEMMA FactsSeq ==
    ASSUME IsBody(text, Locals)
    PROVE  /\ Facts(text) \in Seq(Duty(RuleNames, Spots(text)))
           /\ \A d \in Elements(Facts(text)) : Asks(d.rule, At(text, d.at))
           /\ Next3(Facts(text), text)
BY BodyBlocks, FactsOf

\* The fact at the head of the queue.
LEMMA HeadFact ==
    ASSUME Working, due # << >>, Supported
    PROVE  LET d == Head(due)
               s == At(text, d.at) IN
           /\ d.rule \in RuleNames /\ d.at \in Spots(text) /\ Asks(d.rule, s)
           /\ s \in Stmts(Locals)
           /\ d.rule \in {"R1", "R2"} /\ s.op = "return" =>
                 /\ Tail(due) # << >> /\ Head(Tail(due)).at = d.at
                 /\ Head(Tail(due)).rule \in {"R2", "R3"}
                 /\ d.rule = "R2" => Head(Tail(due)).rule = "R3"
           /\ NextTemp \in TempNames /\ NextTemp \in Names
<1> DEFINE F == Facts(text)
           d == Head(due)
           s == At(text, d.at)
           S == Duty(RuleNames, Spots(text))
           k == Len(F) - Len(due) + 1
<1>1. /\ F \in Seq(S) /\ due \in Seq(S) /\ Rest(F, due) /\ due # << >>
      /\ \A e \in Elements(F) : Asks(e.rule, At(text, e.at))
      /\ Next3(F, text)
  BY FactsSeq DEF Working
<1> HIDE DEF F, S
<1>2. /\ d \in S /\ Len(F) \in Nat /\ Len(due) \in Nat /\ Len(due) >= 1
      /\ d = F[k] /\ Len(due) <= Len(F)
      /\ Len(due) >= 2 => Tail(due) # << >> /\ Head(Tail(due)) = F[Len(F) - Len(due) + 2]
  BY <1>1, RestTail DEF Rest
<1>3. d.rule \in RuleNames /\ d.at \in Spots(text)
  BY <1>2 DEF S, Duty
<1>4. k \in 1..Len(F) /\ d \in Elements(F)
  BY <1>1, <1>2, ElementsOf
<1>5. Asks(d.rule, s)
  BY <1>1, <1>4
<1>6. s \in Stmts(Locals)
  <2>1. s.op # "branch"
    BY <1>5 DEF Asks, Asked1, Asked2, Asked3, Asked5, AskedR, Computes
  <2>2. PICK b \in DOMAIN text : d.at[1] = b /\ d.at[2] \in 1..Len(text[b].stmts)
    BY <1>3 DEF Spots
  <2>3. s = text[b].stmts[d.at[2]]
    BY <2>2 DEF At
  <2>4. IsBody(text, Locals)
    BY DEF Working
  <2>5. s \in Stmts(Locals) \/ s \in BranchTo(DOMAIN text \ {"main"})
    BY <2>2, <2>3, <2>4, BodyBlocks
  <2> QED BY <2>1, <2>5 DEF BranchTo
<1>7. ASSUME d.rule \in {"R1", "R2"}, s.op = "return"
      PROVE  /\ Tail(due) # << >> /\ Head(Tail(due)).at = d.at
             /\ Head(Tail(due)).rule \in {"R2", "R3"}
             /\ d.rule = "R2" => Head(Tail(due)).rule = "R3"
  <2> HIDE DEF k
  <2>1. /\ k + 1 <= Len(F) /\ F[k + 1].at = F[k].at
        /\ F[k + 1].rule \in {"R2", "R3"}
        /\ F[k].rule = "R2" => F[k + 1].rule = "R3"
    BY <1>1, <1>2, <1>4, <1>7 DEF Next3
  <2>2. Len(due) >= 2 /\ k + 1 = Len(F) - Len(due) + 2
    BY <1>2, <2>1 DEF k
  <2> QED BY <1>2, <2>1, <2>2
<1>8. NextTemp \in TempNames
  <2>1. used \in Nat /\ used <= Len(F) - Len(due) /\ Len(F) <= Len(Temps)
    BY DEF Working, F
  <2>2. Temps \in Seq(TempNames)
    BY DEF Supported, TempNames
  <2>3. Len(Temps) \in Nat
    BY <2>2, LenProperties
  <2>4. used + 1 \in 1..Len(Temps)
    BY <1>2, <2>1, <2>3
  <2> QED BY <2>2, <2>4, ElementOfSeq DEF NextTemp
<1>9. TempNames \subseteq Names
  BY DEF TempNames, Names, Elements
<1> QED BY <1>3, <1>5, <1>6, <1>7, <1>8, <1>9

\* One fact is taken.
LEMMA Advance ==
    ASSUME Working, due # << >>, UNCHANGED <<text, round, kind, phase>>, due' = Tail(due),
           NEW ps \in Seq(PatchSet), plan' = plan \o ps,
           \A x \in Elements(ps) : PatchShape(x)',
           used' \in {used, used + 1}, NEW h, h = Head(due), Dealt(h)',
           pending' \in Seq(Guards(Names)), Waiting',
           \A p, c : Held(p, c) => Held(p, c)' \/ Planned(p, "whole", c)'
    PROVE  Working'
<1> DEFINE F == Facts(text)
           S == Duty(RuleNames, Spots(text))
<1>1. /\ F \in Seq(S) /\ due \in Seq(S) /\ Rest(F, due) /\ due # << >>
  BY FactsSeq DEF Working
<1>2. F' = F /\ S' = S
  OBVIOUS
<1> HIDE DEF F, S
<1>3. /\ due' \in Seq(S) /\ Rest(F, due') /\ Len(F) \in Nat /\ Len(due) \in Nat
      /\ Len(due') = Len(due) - 1 /\ Head(due) = F[Len(F) - Len(due) + 1]
      /\ Len(due) <= Len(F)
  BY <1>1, RestTail DEF Rest
<1>4. plan \in Seq(PatchSet) /\ \A x \in Elements(plan) : PatchShape(x)
  BY DEF Working, PlanOK
<1>5. /\ plan' \in Seq(PatchSet') /\ Elements(plan') = Elements(plan) \cup Elements(ps)
      /\ \A x : PatchShape(x) => PatchShape(x)'
  BY <1>4, PlanGrows
<1>6. PlanOK'
  BY <1>4, <1>5 DEF PlanOK
<1>7. ASSUME NEW d \in Past(F, due') PROVE Dealt(d)'
  <2>1. PICK n \in 1..Len(F) - Len(due') : d = F[n]
    BY DEF Past
  <2>2. n \in 1..Len(F) - Len(due) + 1
    BY <1>3
  <2>3. CASE n = Len(F) - Len(due) + 1
    BY <1>3, <2>1, <2>3
  <2>4. CASE n # Len(F) - Len(due) + 1
    <3>1. n \in 1..Len(F) - Len(due)
      <4> DEFINE a == Len(F) - Len(due)
      <4>1. a \in Nat /\ n \in 1..a + 1 /\ n # a + 1
        BY <1>3, <2>2, <2>4
      <4> HIDE DEF a
      <4>2. n \in 1..a
        BY <4>1
      <4> QED BY <4>2 DEF a
    <3>2. Dealt(d)
      BY <2>1, <3>1 DEF Working, F, Past
    <3> QED BY <1>4, <3>2, DealtKept
  <2> QED BY <2>3, <2>4
<1>8. used \in Nat /\ used <= Len(F) - Len(due)
  BY DEF Working, F
<1>9. used' \in Nat /\ used' <= Len(F) - Len(due')
  BY <1>3, <1>8
<1>10. /\ round' = 1 /\ phase' = "pass" /\ kind' \in Kinds
       /\ IsBody(text', Locals) /\ Len(F) <= Len(Temps)
  BY DEF Working, F
<1> QED BY <1>2, <1>3, <1>6, <1>7, <1>9, <1>10 DEF Working, F, S

Refused == round = 1 /\ phase \in {"FHE4004", "FHE9001"}

\* What waits keeps waiting until the rule about the return.
LEMMA HeldOn ==
    ASSUME Working, Supported, due # << >>, due' = Tail(due), text' = text, pending' = pending,
           Head(due).rule # "R3" \/ pending = << >>
    PROVE  Waiting' /\ \A p, c : Held(p, c) => Held(p, c)'
<1>1. CASE pending = << >>
  <2>1. \A p, c : ~Held(p, c)
    BY <1>1 DEF Held, Elements
  <2> QED BY <1>1, <2>1 DEF Waiting
<1>2. CASE pending # << >>
  <2>1. Head(due).rule = "R2" /\ At(text, Head(due).at).op = "return"
    BY <1>2 DEF Working, Waiting
  <2>2. due' # << >> /\ Head(due').at = Head(due).at /\ Head(due').rule = "R3"
    BY <2>1, HeadFact
  <2> QED BY <2>1, <2>2 DEF Waiting, Held
<1> QED BY <1>1, <1>2

\* A fact whose grants are all there.
LEMMA SkipWorks ==
    ASSUME Working, Supported, due # << >>, Skip, UNCHANGED <<text, round, kind>>,
           Head(due).rule # "R3" \/ pending = << >>, NEW h, h = Head(due), Dealt(h)
    PROVE  Working'
<1>1. /\ due' = Tail(due) /\ plan' = plan /\ used' = used /\ phase' = phase
      /\ pending' = pending
  BY DEF Skip
<1>2. plan \in Seq(PatchSet) /\ pending \in Seq(Guards(Names))
  BY DEF Working, PlanOK
<1>3. Waiting' /\ \A p, c : Held(p, c) => Held(p, c)'
  BY <1>1, HeldOn
<1>4. << >> \in Seq(PatchSet) /\ plan' = plan \o << >> /\ Elements(<< >>) = {}
  BY <1>1, <1>2, EmptySeq, ConcatEmptySeq DEF Elements
<1>5. Dealt(h)'
  BY <1>2, <1>3, <1>4, DealtKept
<1>6. \A x \in Elements(<< >>) : PatchShape(x)'
  BY <1>4
<1> QED BY <1>1, <1>2, <1>3, <1>4, <1>5, <1>6, Advance

Pushed(ps, n) == /\ plan' = plan \o ps /\ used' = used + n
                 /\ due' = Tail(due) /\ phase' = phase

\* A push braces the lone statement of a branch, or refuses in a header.
LEMMA BraceOrRefuse ==
    ASSUME NEW p, NEW ps, NEW n, BraceAndPush(p, ps, n)
    PROVE  phase' = "FHE4004" \/ Pushed(ps, n)
BY DEF BraceAndPush, Refuse, Pushed

\* A push of patches that deals with the fact.
LEMMA PushWorks ==
    ASSUME Working, Supported, due # << >>, UNCHANGED <<text, round, kind>>,
           NEW ps \in Seq(PatchSet), NEW n \in {0, 1}, Pushed(ps, n),
           pending' \in Seq(Guards(Names)), Waiting',
           \A p, c : Held(p, c) => Held(p, c)' \/ Planned(p, "whole", c)',
           \A x \in Elements(ps) : PatchShape(x)',
           NEW h, h = Head(due), Dealt(h)'
    PROVE  Working'
<1>1. used' \in {used, used + 1}
  BY DEF Pushed, Working
<1> QED BY <1>1, Advance DEF Pushed

\* A patch of one guard.
LEMMA GuardPatch ==
    ASSUME NEW p \in Spots(text), NEW w \in {"before", "after"}, NEW lines \in Seq(Guards(Names)),
           lines # << >>
    PROVE  /\ Patch(p, w, lines) \in PatchSet
           /\ PatchShape(Patch(p, w, lines))'
<1>1. lines \in Seq(Stmts(Names)) /\ Elements(lines) \subseteq Guards(Names)
  BY WiderSeq, ElementsOf DEF Stmts
<1>2. \A l \in Elements(lines) : l.op = "guard"
  BY <1>1 DEF Guards
<1>3. Patch(p, w, lines) \in PatchSet
  BY <1>1 DEF Patch, PatchSet, Wheres
<1>4. PatchShape(Patch(p, w, lines))'
  BY <1>2 DEF Patch, PatchShape, Still
<1> QED BY <1>3, <1>4

\* R1, which at a return hands its grants to R3.
LEMMA WorkR1 ==
    ASSUME Working, Supported, RuleR1
    PROVE  Working' \/ Refused'
<1>0. PICK h : h = Head(due)
  OBVIOUS
<1> DEFINE p == h.at
<1>1. PICK s : s = At(text, p)
  OBVIOUS
<1>2. PICK M : M = MissingAtWrite(p)
  OBVIOUS
<1>3. PICK lines : lines = GuardLines(s.into, M)
  OBVIOUS
<1>4. /\ due # << >> /\ h.rule = "R1"
      /\ UNCHANGED <<text, round, kind>> /\ round = 1 /\ phase = "pass"
  BY <1>0 DEF RuleR1, Takes, reading, Working
<1>5. /\ p \in Spots(text) /\ s \in Stmts(Locals) /\ Asked1(s)
      /\ s.op = "return" => /\ Tail(due) # << >> /\ Head(Tail(due)).at = p
                            /\ Head(Tail(due)).rule \in {"R2", "R3"}
  BY <1>0, <1>1, <1>4, HeadFact DEF Asks
<1>6. pending = << >>
  BY <1>0, <1>4 DEF Working, Waiting
<1>7. /\ M \in Seq(WriteGrants(s.into)) /\ (M = << >> <=> Quiet1(text, kind, p))
      /\ \A c \in Elements(WriteCalls(s.into)) :
            kind # "view" /\ ~Wrapped(s) => GrantedWrite(text, p, c) \/ c \in Elements(M)
  BY <1>1, <1>2, MissingWrite
<1>8. s.into \in Stored /\ s.into \in Exprs(Names)
  BY <1>5 DEF Asked1, Exprs
<1>9. Guard(s.into, M) \in Guards(Names)
  BY <1>7, <1>8, WriteGrantsTyped, GuardTyped
<1>10. \A c \in Elements(M) : HasGrant(Guard(s.into, M), c)
  BY GuardHas
<1>11. /\ lines = << >> <=> M = << >>
       /\ M # << >> => lines = <<Guard(s.into, M)>>
  BY <1>3, GuardLinesAre
<1>12. /\ <<Guard(s.into, M)>> \in Seq(Guards(Names))
       /\ Elements(<<Guard(s.into, M)>>) = {Guard(s.into, M)}
       /\ <<Guard(s.into, M)>> # << >>
  BY <1>9, OneElement, ElementsEmpty
<1>13. \/ lines = << >> /\ Skip
       \/ /\ lines # << >> /\ s.op = "return" /\ pending' = pending \o lines
          /\ due' = Tail(due) /\ UNCHANGED <<plan, braced, used, phase>>
       \/ /\ lines # << >> /\ s.op # "return"
          /\ BraceAndPush(p, <<Patch(p, "after", lines)>>, 0) /\ UNCHANGED pending
  BY <1>0, <1>1, <1>2, <1>3 DEF RuleR1
<1>14. \A q, c : ~Held(q, c)
  BY <1>6 DEF Held, Elements
<1>15. plan \in Seq(PatchSet)
  BY DEF Working, PlanOK
<1>16. CASE lines = << >> /\ Skip
  <2>1. Quiet1(text, kind, p)
    BY <1>7, <1>11, <1>16
  <2>2. Dealt1(p)
    BY <2>1 DEF Quiet1, Dealt1
  <2>3. Dealt(h)
    BY <1>4, <2>2 DEF Dealt
  <2> QED BY <1>0, <1>4, <1>6, <1>16, <2>3, SkipWorks
<1>17. CASE /\ lines # << >> /\ s.op = "return" /\ pending' = pending \o lines
            /\ due' = Tail(due) /\ UNCHANGED <<plan, braced, used, phase>>
  <2>1. lines = <<Guard(s.into, M)>>
    BY <1>11, <1>17
  <2>2. pending' = lines
    BY <1>6, <1>12, <1>17, <2>1, ConcatEmptySeq
  <2>3. pending' \in Seq(Guards(Names))
    BY <1>12, <2>1, <2>2
  <2>4. due' # << >> /\ Head(due').at = p /\ Head(due').rule \in {"R2", "R3"}
    BY <1>5, <1>17
  <2>5. Waiting'
    BY <1>1, <1>4, <1>17, <2>4 DEF Waiting
  <2>6. \A c \in Elements(M) : Held(p, c)'
    BY <1>10, <1>12, <2>1, <2>2, <2>4 DEF Held
  <2>7. Dealt1(p)'
    BY <1>1, <1>4, <1>7, <2>6 DEF Dealt1
  <2>8. Dealt(h)'
    BY <1>4, <2>7 DEF Dealt
  <2>9. << >> \in Seq(PatchSet) /\ plan' = plan \o << >> /\ Elements(<< >>) = {}
    BY <1>15, <1>17, EmptySeq, ConcatEmptySeq DEF Elements
  <2>10. Pushed(<< >>, 0)
    BY <1>17, <2>9 DEF Pushed, Working
  <2>11. \A x \in Elements(<< >>) : PatchShape(x)'
    BY <2>9
  <2> QED BY <1>0, <1>4, <1>14, <2>3, <2>5, <2>8, <2>9, <2>10, <2>11, PushWorks
<1>18. CASE /\ lines # << >> /\ s.op # "return"
            /\ BraceAndPush(p, <<Patch(p, "after", lines)>>, 0) /\ UNCHANGED pending
  <2> DEFINE x == Patch(p, "after", lines)
  <2>1. lines = <<Guard(s.into, M)>>
    BY <1>11, <1>18
  <2>2. x \in PatchSet /\ PatchShape(x)' /\ x.at = p /\ x.where = "after" /\ x.lines = lines
    BY <1>5, <1>12, <2>1, GuardPatch DEF Patch
  <2> HIDE DEF x
  <2>3. <<x>> \in Seq(PatchSet) /\ Elements(<<x>>) = {x}
    BY <2>2, OneElement
  <2>4. CASE phase' = "FHE4004"
    BY <1>4, <2>4 DEF Refused
  <2>5. CASE Pushed(<<x>>, 0)
    <3>1. Elements(plan') = Elements(plan) \cup {x}
      BY <1>4, <1>15, <2>3, <2>5, PlanGrows DEF Pushed
    <3>2. \A c \in Elements(M) : Planned(p, "after", c)'
      BY <1>10, <1>12, <2>1, <2>2, <3>1 DEF Planned
    <3>3. Dealt1(p)'
      BY <1>1, <1>4, <1>7, <3>2 DEF Dealt1
    <3>4. Dealt(h)'
      BY <1>4, <3>3 DEF Dealt
    <3>5. pending' \in Seq(Guards(Names)) /\ Waiting'
      BY <1>6, <1>18 DEF Working, Waiting
    <3> QED BY <1>0, <1>4, <1>14, <2>2, <2>3, <2>5, <3>4, <3>5, PushWorks
  <2> QED BY <1>18, <2>4, <2>5, BraceOrRefuse DEF x
<1> QED BY <1>13, <1>16, <1>17, <1>18

\* The call with its argument hoisted is a statement.
LEMMA InnerTyped ==
    ASSUME NEW s \in Stmts(Locals), Computes(s), s.to # None, NEW t \in Names,
           NEW z, z = [s EXCEPT !.e = t]
    PROVE  /\ z \in Stmts(Names) /\ z.e = t /\ z.op = s.op /\ z.into = s.into /\ z.to = s.to
           /\ s.op = "decl" => z.name = s.name
<1>1. Targets(Locals) \subseteq Targets(Names) /\ Locals \subseteq Names /\ t \in Exprs(Names)
  BY DEF Targets, Names, Exprs
<1>2. s.op \in {"call", "return", "decl"}
  BY WriterShape DEF Computes
<1>3. CASE s.op = "call"
  <2>1. s \in [op : {"call"}, into : Targets(Locals), e : Exprs(Locals), to : Callees]
    BY <1>3, StmtShapes
  <2>2. z \in [op : {"call"}, into : Targets(Names), e : Exprs(Names), to : Callees]
    BY <1>1, <2>1
  <2> QED BY <1>3, <2>1, <2>2 DEF Stmts, Writers
<1>4. CASE s.op = "return"
  <2>1. s \in [op : {"return"}, into : Targets(Locals), e : Exprs(Locals),
               to : Callees \cup {None}]
    BY <1>4, StmtShapes
  <2>2. z \in [op : {"return"}, into : Targets(Names), e : Exprs(Names),
               to : Callees \cup {None}]
    BY <1>1, <2>1
  <2> QED BY <1>4, <2>1, <2>2 DEF Stmts, Writers
<1>5. CASE s.op = "decl"
  <2>1. s \in [op : {"decl"}, name : Locals, into : Targets(Locals), e : Exprs(Locals),
               to : Callees \cup {None}]
    BY <1>5, StmtShapes
  <2>2. z \in [op : {"decl"}, name : Names, into : Targets(Names), e : Exprs(Names),
               to : Callees \cup {None}]
    BY <1>1, <2>1
  <2> QED BY <1>5, <2>1, <2>2 DEF Stmts, Writers
<1> QED BY <1>2, <1>3, <1>4, <1>5

\* The declaration of a hoisted argument, and the guard on it.
LEMMA HoistLines ==
    ASSUME NEW t \in TempNames, t \in Names, NEW e \in Exprs(Names), NEW gs \in Seq(GrantsOn(Names)),
           NEW lines, lines = <<Decl(t, Set(None, e))>> \o GuardLines(t, gs)
    PROVE  /\ lines \in Seq(Stmts(Names)) /\ lines # << >>
           /\ \A l \in Elements(lines) : Still(l) /\ l.op # "return"
           /\ \A c \in Elements(gs) : \E g \in Elements(lines) : HasGrant(g, c)
<1>1. PICK d : d = Decl(t, Set(None, e))
  OBVIOUS
<1>2. /\ d = [op |-> "decl", name |-> t, into |-> None, e |-> e, to |-> None]
      /\ d \in [op : {"decl"}, name : Names, into : Targets(Names), e : Exprs(Names),
                to : Callees \cup {None}]
  BY <1>1 DEF Decl, Set, Targets
<1>3. d \in Stmts(Names) /\ Still(d) /\ d.op # "return"
  BY <1>2 DEF Stmts, Writers, Still
<1>4. t \in Exprs(Names)
  BY DEF Exprs
<1>5. Guard(t, gs) \in Guards(Names)
  BY <1>4, GuardTyped
<1>6. Guard(t, gs) \in Stmts(Names) /\ Guard(t, gs).op = "guard"
  BY <1>5 DEF Stmts, Guard
<1>7. /\ GuardLines(t, gs) \in Seq(Stmts(Names))
      /\ Elements(GuardLines(t, gs)) \subseteq {Guard(t, gs)}
      /\ gs # << >> => Guard(t, gs) \in Elements(GuardLines(t, gs))
  <2>1. CASE gs = << >>
    <3>1. GuardLines(t, gs) = << >>
      BY <2>1, GuardLinesAre
    <3>2. << >> \in Seq(Stmts(Names)) /\ Elements(<< >>) = {}
      BY EmptySeq DEF Elements
    <3> QED BY <2>1, <3>1, <3>2
  <2>2. CASE gs # << >>
    <3>1. GuardLines(t, gs) = <<Guard(t, gs)>>
      BY <2>2, GuardLinesAre
    <3> QED BY <1>6, <3>1, OneElement
  <2> QED BY <2>1, <2>2
<1>8. <<d>> \in Seq(Stmts(Names)) /\ Elements(<<d>>) = {d}
  BY <1>3, OneElement
<1>9. /\ lines \in Seq(Stmts(Names))
      /\ Elements(lines) = {d} \cup Elements(GuardLines(t, gs))
  <2> DEFINE u == <<d>>
             v == GuardLines(t, gs)
  <2>1. lines = u \o v /\ u \in Seq(Stmts(Names)) /\ v \in Seq(Stmts(Names))
    BY <1>1, <1>7, <1>8
  <2>2. Elements(u) = {d}
    BY <1>8
  <2> HIDE DEF u, v
  <2>3. u \o v \in Seq(Stmts(Names)) /\ Elements(u \o v) = Elements(u) \cup Elements(v)
    BY <2>1, ElementsConcat
  <2> QED BY <2>1, <2>2, <2>3 DEF v
<1>10. lines # << >>
  BY <1>9, ElementsEmpty
<1>11. \A l \in Elements(lines) : Still(l) /\ l.op # "return"
  <2>1. \A l \in Elements(lines) : l = d \/ l = Guard(t, gs)
    BY <1>7, <1>9
  <2>2. Still(Guard(t, gs)) /\ Guard(t, gs).op # "return"
    BY <1>6 DEF Still
  <2> QED BY <1>3, <2>1, <2>2
<1>12. ASSUME NEW c \in Elements(gs) PROVE \E g \in Elements(lines) : HasGrant(g, c)
  <2>1. gs # << >> /\ HasGrant(Guard(t, gs), c)
    BY <1>12, GuardHas DEF Elements
  <2> QED BY <1>7, <1>9, <2>1
<1> QED BY <1>9, <1>10, <1>11, <1>12

\* R2: a grant beside an identifier, or the argument hoisted.
LEMMA WorkR2 ==
    ASSUME Working, Supported, RuleR2
    PROVE  Working' \/ Refused'
<1>0. PICK h : h = Head(due)
  OBVIOUS
<1> DEFINE p == h.at
<1>1. PICK s : s = At(text, p)
  OBVIOUS
<1>2. PICK t : t = IF IsIdent(s.e) THEN s.e ELSE NextTemp
  OBVIOUS
<1>3. PICK c : c = Grant("allowTransient", t, s.to)
  OBVIOUS
<1>4. PICK lines : lines = GuardLines(t, <<c>>)
  OBVIOUS
<1>5. /\ due # << >> /\ h.rule = "R2"
      /\ UNCHANGED <<text, round, kind>> /\ round = 1 /\ phase = "pass"
  BY <1>0 DEF RuleR2, Takes, reading, Working
<1>6. /\ p \in Spots(text) /\ s \in Stmts(Locals) /\ Asked2(s)
      /\ NextTemp \in TempNames /\ NextTemp \in Names
  BY <1>0, <1>1, <1>5, HeadFact DEF Asks
<1>7. /\ Computes(s) /\ s.to # None /\ s.e \in Exprs(Locals) /\ s.to \in Callees
  BY <1>6, WriterShape DEF Asked2
<1>8. s.e \in Exprs(Names) /\ t \in Exprs(Names)
  BY <1>2, <1>6, <1>7 DEF Exprs, Names
<1>9. c \in GrantsOn(Names)
  BY <1>3, <1>7, <1>8 DEF Grant, GrantsOn, GrantFns, Parties
<1>10. <<c>> \in Seq(GrantsOn(Names)) /\ Elements(<<c>>) = {c} /\ <<c>> # << >>
  BY <1>9, OneElement, ElementsEmpty
<1>11. ASSUME due' = Tail(due), pending' = pending
       PROVE  Waiting' /\ \A q, g : Held(q, g) => Held(q, g)'
  BY <1>0, <1>5, <1>11, HeldOn
<1>12. \/ Quiet2(text, kind, p) /\ Skip
       \/ /\ IsIdent(s.e) /\ UNCHANGED pending
          /\ BraceAndPush(p, <<Patch(p, "before", lines)>>, 0)
       \/ /\ ~IsIdent(s.e) /\ UNCHANGED pending
          /\ BraceAndPush(p, <<Patch(p, "before", <<Decl(t, Set(None, s.e))>> \o lines),
                               Patch(p, "inner", <<[s EXCEPT !.e = t]>>)>>, 1)
  BY <1>0, <1>1, <1>2, <1>3, <1>4, MissingOne DEF RuleR2, Quiet2
<1>13. plan \in Seq(PatchSet) /\ pending \in Seq(Guards(Names))
  BY DEF Working, PlanOK
<1>14. CASE Quiet2(text, kind, p) /\ Skip
  <2>1. Dealt(h)
    BY <1>5, <1>14 DEF Dealt, Dealt2
  <2> QED BY <1>0, <1>5, <1>14, <2>1, SkipWorks
<1>15. CASE /\ IsIdent(s.e) /\ UNCHANGED pending
            /\ BraceAndPush(p, <<Patch(p, "before", lines)>>, 0)
  <2> DEFINE x == Patch(p, "before", lines)
  <2>1. lines = <<Guard(t, <<c>>)>>
    BY <1>4, <1>10, GuardLinesAre
  <2>2. Guard(t, <<c>>) \in Guards(Names) /\ HasGrant(Guard(t, <<c>>), c)
    BY <1>8, <1>10, GuardTyped, GuardHas
  <2>3. lines \in Seq(Guards(Names)) /\ Elements(lines) = {Guard(t, <<c>>)} /\ lines # << >>
    BY <2>1, <2>2, OneElement, ElementsEmpty
  <2>4. x \in PatchSet /\ PatchShape(x)' /\ x.at = p /\ x.where = "before" /\ x.lines = lines
    BY <1>6, <2>3, GuardPatch DEF Patch
  <2> HIDE DEF x
  <2>5. <<x>> \in Seq(PatchSet) /\ Elements(<<x>>) = {x}
    BY <2>4, OneElement
  <2>6. CASE phase' = "FHE4004"
    BY <1>5, <2>6 DEF Refused
  <2>7. CASE Pushed(<<x>>, 0)
    <3>1. Elements(plan') = Elements(plan) \cup {x}
      BY <1>5, <1>13, <2>5, <2>7, PlanGrows DEF Pushed
    <3>2. Planned(p, "before", c)'
      BY <2>2, <2>3, <2>4, <3>1 DEF Planned
    <3>3. Dealt2(p)'
      BY <1>1, <1>2, <1>3, <1>5, <1>15, <3>2 DEF Dealt2
    <3>4. Dealt(h)'
      BY <1>5, <3>3 DEF Dealt
    <3> QED BY <1>0, <1>5, <1>11, <1>13, <1>15, <2>4, <2>5, <2>7, <3>4, PushWorks DEF Pushed
  <2> QED BY <1>15, <2>6, <2>7, BraceOrRefuse DEF x
<1>16. CASE /\ ~IsIdent(s.e) /\ UNCHANGED pending
            /\ BraceAndPush(p, <<Patch(p, "before", <<Decl(t, Set(None, s.e))>> \o lines),
                                 Patch(p, "inner", <<[s EXCEPT !.e = t]>>)>>, 1)
  <2>1. PICK before : before = <<Decl(t, Set(None, s.e))>> \o lines
    OBVIOUS
  <2>2. PICK z : z = [s EXCEPT !.e = t]
    OBVIOUS
  <2> DEFINE x == Patch(p, "before", before)
             y == Patch(p, "inner", <<z>>)
  <2>3. t \in TempNames /\ t \in Names
    BY <1>2, <1>6, <1>16
  <2>4. /\ before \in Seq(Stmts(Names)) /\ before # << >>
        /\ \A l \in Elements(before) : Still(l) /\ l.op # "return"
        /\ \E g \in Elements(before) : HasGrant(g, c)
    <3>1. PICK e : e = s.e
      OBVIOUS
    <3>2. PICK gs : gs = <<c>>
      OBVIOUS
    <3>3. e \in Exprs(Names) /\ gs \in Seq(GrantsOn(Names)) /\ c \in Elements(gs)
      BY <1>8, <1>10, <3>1, <3>2
    <3>4. before = <<Decl(t, Set(None, e))>> \o GuardLines(t, gs)
      BY <1>4, <2>1, <3>1, <3>2
    <3> QED BY <2>3, <3>3, <3>4, HoistLines
  <2>5. /\ z \in Stmts(Names) /\ z.e = t /\ z.op = s.op /\ z.into = s.into /\ z.to = s.to
        /\ s.op = "decl" => z.name = s.name
    BY <1>6, <1>7, <2>2, <2>3, InnerTyped
  <2>6. <<z>> \in Seq(Stmts(Names)) /\ <<z>>[1] = z /\ <<z>> # << >>
    BY <2>5, OneElement, ElementsEmpty
  <2>7. /\ x \in PatchSet /\ x.at = p /\ x.where = "before" /\ x.lines = before
        /\ y \in PatchSet /\ y.at = p /\ y.where = "inner" /\ y.lines = <<z>>
    BY <1>6, <2>4, <2>6 DEF Patch, PatchSet, Wheres
  <2> HIDE DEF x, y
  <2>8. <<x, y>> \in Seq(PatchSet) /\ Elements(<<x, y>>) = {x, y}
    BY <2>7, TwoElements
  <2>9. CASE phase' = "FHE4004"
    BY <1>5, <2>9 DEF Refused
  <2>10. CASE Pushed(<<x, y>>, 1)
    <3>1. Elements(plan') = Elements(plan) \cup {x, y}
      BY <1>5, <1>13, <2>8, <2>10, PlanGrows DEF Pushed
    <3>2. Planned(p, "before", c)'
      BY <2>4, <2>7, <3>1 DEF Planned
    <3>3. PatchShape(x)'
      BY <2>4, <2>7 DEF PatchShape
    <3>4. Inner(p, z)'
      BY <1>1, <1>3, <1>5, <1>7, <2>3, <2>5, <3>2 DEF Inner
    <3>5. PatchShape(y)'
      BY <2>6, <2>7, <3>4 DEF PatchShape
    <3>6. ~NoPatch(p, "inner")'
      BY <2>7, <3>1 DEF NoPatch
    <3>7. Dealt2(p)'
      BY <3>6 DEF Dealt2
    <3>8. Dealt(h)'
      BY <1>5, <3>7 DEF Dealt
    <3>9. \A u \in Elements(<<x, y>>) : PatchShape(u)'
      BY <2>8, <3>3, <3>5
    <3> QED BY <1>0, <1>5, <1>11, <1>13, <1>16, <2>8, <2>10, <3>8, <3>9, PushWorks DEF Pushed
  <2> QED BY <1>16, <2>1, <2>2, <2>9, <2>10, BraceOrRefuse DEF x, y
<1> QED BY <1>12, <1>14, <1>15, <1>16

\* R5: the grants of an event's argument.
LEMMA WorkR5 ==
    ASSUME Working, Supported, RuleR5
    PROVE  Working' \/ Refused'
<1>0. PICK h : h = Head(due)
  OBVIOUS
<1> DEFINE p == h.at
<1>1. PICK s : s = At(text, p)
  OBVIOUS
<1>2. PICK t : t = IF ~IsIdent(s.e) THEN NextTemp ELSE s.e
  OBVIOUS
<1>3. PICK gs : gs = MissingBefore(p, EventCalls(t))
  OBVIOUS
<1>4. PICK lines : lines = (IF ~IsIdent(s.e) THEN <<Decl(t, Set(None, s.e))>> ELSE << >>)
                           \o GuardLines(t, gs)
  OBVIOUS
<1>5. /\ due # << >> /\ h.rule = "R5"
      /\ UNCHANGED <<text, round, kind>> /\ round = 1 /\ phase = "pass"
  BY <1>0 DEF RuleR5, Takes, reading, Working
<1>6. /\ p \in Spots(text) /\ s \in Stmts(Locals) /\ s.op = "emit"
      /\ NextTemp \in TempNames /\ NextTemp \in Names
  BY <1>0, <1>1, <1>5, HeadFact DEF Asks, Asked5
<1>7. s.e \in Exprs(Locals)
  BY <1>6, StmtShapes DEF Emits
<1>8. s.e \in Exprs(Names) /\ t \in Exprs(Names)
  BY <1>2, <1>6, <1>7 DEF Exprs, Names
<1>9. EventCalls(t) \in Seq(EventGrants(t)) /\ Elements(EventCalls(t)) = EventGrants(t)
  BY CallsAre
<1>10. /\ gs \in Seq(EventGrants(t))
       /\ Elements(gs) = {c \in EventGrants(t) : ~Granted(BackwardWindow(text, p), c)}
  BY <1>3, <1>9, MissingIs
<1>11. gs \in Seq(GrantsOn(Names))
  BY <1>8, <1>10, EventGrantsTyped, WiderSeq
<1>12. pending = << >> /\ plan \in Seq(PatchSet) /\ pending \in Seq(Guards(Names))
  BY <1>0, <1>5 DEF Working, Waiting, PlanOK
<1>13. \A q, g : ~Held(q, g)
  BY <1>12 DEF Held, Elements
<1>14. \/ (~EventPolicy \/ s.e = "wrap" \/ lines = << >>) /\ Skip
       \/ /\ IsIdent(s.e) /\ lines # << >> /\ UNCHANGED pending
          /\ BraceAndPush(p, <<Patch(p, "before", lines)>> \o << >>, 0)
       \/ /\ ~IsIdent(s.e) /\ UNCHANGED pending
          /\ BraceAndPush(p, <<Patch(p, "before", lines)>> \o <<Patch(p, "inner", <<Emit(t)>>)>>, 1)
  BY <1>0, <1>1, <1>2, <1>3, <1>4 DEF RuleR5
<1>15. ASSUME IsIdent(s.e)
       PROVE  /\ t = s.e /\ lines = GuardLines(t, gs)
              /\ lines = << >> <=> gs = << >>
              /\ gs # << >> => lines = <<Guard(t, gs)>>
  <2>1. t = s.e /\ lines = << >> \o GuardLines(t, gs)
    BY <1>2, <1>4, <1>15
  <2>2. /\ GuardLines(t, gs) = << >> <=> gs = << >>
        /\ gs # << >> => GuardLines(t, gs) = <<Guard(t, gs)>>
    BY GuardLinesAre
  <2>3. Guard(t, gs) \in Guards(Names)
    BY <1>8, <1>11, GuardTyped
  <2>4. GuardLines(t, gs) \in Seq(Guards(Names))
    <3>1. CASE gs = << >>
      <4>1. << >> \in Seq(Guards(Names))
        BY EmptySeq
      <4> QED BY <2>2, <3>1, <4>1
    <3>2. CASE gs # << >>
      <4>1. <<Guard(t, gs)>> \in Seq(Guards(Names))
        BY <2>3, OneElement
      <4> QED BY <2>2, <3>2, <4>1
    <3> QED BY <3>1, <3>2
  <2>5. lines = GuardLines(t, gs)
    BY <2>1, <2>4, ConcatEmptySeq
  <2> QED BY <2>1, <2>2, <2>5
<1>16. ASSUME ~IsIdent(s.e)
       PROVE  /\ t \in TempNames
              /\ lines \in Seq(Stmts(Names)) /\ lines # << >>
              /\ \A l \in Elements(lines) : Still(l) /\ l.op # "return"
              /\ \A c \in Elements(gs) : \E g \in Elements(lines) : HasGrant(g, c)
  <2>1. t \in TempNames /\ t \in Names
    BY <1>2, <1>6, <1>16
  <2>2. PICK e : e = s.e
    OBVIOUS
  <2>3. lines = <<Decl(t, Set(None, e))>> \o GuardLines(t, gs) /\ e \in Exprs(Names)
    BY <1>4, <1>8, <1>16, <2>2
  <2> QED BY <1>11, <2>1, <2>3, HoistLines
<1>17. CASE (~EventPolicy \/ s.e = "wrap" \/ lines = << >>) /\ Skip
  <2>1. CASE ~EventPolicy \/ s.e = "wrap"
    <3>1. Dealt(h)
      BY <1>1, <1>5, <2>1 DEF Dealt, Dealt5
    <3> QED BY <1>0, <1>5, <1>17, <3>1, SkipWorks
  <2>2. CASE lines = << >>
    <3>1. IsIdent(s.e) /\ t = s.e /\ gs = << >>
      BY <1>15, <1>16, <2>2
    <3>2. \A c \in EventGrants(t) : Granted(BackwardWindow(text, p), c)
      BY <1>10, <3>1 DEF Elements
    <3>3. Dealt5(p)
      BY <1>1, <1>9, <3>1, <3>2 DEF Dealt5
    <3>4. Dealt(h)
      BY <1>5, <3>3 DEF Dealt
    <3> QED BY <1>0, <1>5, <1>17, <3>4, SkipWorks
  <2> QED BY <1>17, <2>1, <2>2
<1>18. CASE /\ IsIdent(s.e) /\ lines # << >> /\ UNCHANGED pending
            /\ BraceAndPush(p, <<Patch(p, "before", lines)>> \o << >>, 0)
  <2> DEFINE x == Patch(p, "before", lines)
  <2>1. lines = <<Guard(t, gs)>> /\ t = s.e
    BY <1>15, <1>18
  <2>2. Guard(t, gs) \in Guards(Names) /\ \A c \in Elements(gs) : HasGrant(Guard(t, gs), c)
    BY <1>8, <1>11, GuardTyped, GuardHas
  <2>3. lines \in Seq(Guards(Names)) /\ Elements(lines) = {Guard(t, gs)} /\ lines # << >>
    BY <2>1, <2>2, OneElement, ElementsEmpty
  <2>4. x \in PatchSet /\ PatchShape(x)' /\ x.at = p /\ x.where = "before" /\ x.lines = lines
    BY <1>6, <2>3, GuardPatch DEF Patch
  <2> HIDE DEF x
  <2>5. <<x>> \in Seq(PatchSet) /\ Elements(<<x>>) = {x}
    BY <2>4, OneElement
  <2>6. <<x>> \o << >> = <<x>>
    BY <2>5, ConcatEmptySeq
  <2>7. CASE phase' = "FHE4004"
    BY <1>5, <2>7 DEF Refused
  <2>8. CASE Pushed(<<x>>, 0)
    <3>1. Elements(plan') = Elements(plan) \cup {x}
      BY <1>5, <1>12, <2>5, <2>8, PlanGrows DEF Pushed
    <3>2. \A c \in Elements(gs) : Planned(p, "before", c)'
      BY <2>2, <2>3, <2>4, <3>1 DEF Planned
    <3>3. Dealt5(p)'
      BY <1>1, <1>5, <1>9, <1>10, <1>18, <2>1, <3>2 DEF Dealt5
    <3>4. Dealt(h)'
      BY <1>5, <3>3 DEF Dealt
    <3>5. pending' \in Seq(Guards(Names)) /\ Waiting'
      BY <1>12, <1>18 DEF Waiting
    <3> QED BY <1>0, <1>5, <1>13, <2>4, <2>5, <2>8, <3>4, <3>5, PushWorks
  <2> QED BY <1>18, <2>6, <2>7, <2>8, BraceOrRefuse DEF x
<1>19. CASE /\ ~IsIdent(s.e) /\ UNCHANGED pending
            /\ BraceAndPush(p, <<Patch(p, "before", lines)>> \o <<Patch(p, "inner", <<Emit(t)>>)>>, 1)
  <2>1. PICK z : z = Emit(t)
    OBVIOUS
  <2> DEFINE x == Patch(p, "before", lines)
             y == Patch(p, "inner", <<z>>)
  <2>2. z \in Stmts(Names) /\ z.e = t /\ z.op = "emit"
    BY <1>8, <2>1 DEF Emit, Stmts, Emits
  <2>3. <<z>> \in Seq(Stmts(Names)) /\ <<z>>[1] = z /\ <<z>> # << >>
    BY <2>2, OneElement, ElementsEmpty
  <2>4. /\ x \in PatchSet /\ x.at = p /\ x.where = "before" /\ x.lines = lines
        /\ y \in PatchSet /\ y.at = p /\ y.where = "inner" /\ y.lines = <<z>>
    BY <1>6, <1>16, <1>19, <2>3 DEF Patch, PatchSet, Wheres
  <2> HIDE DEF x, y
  <2>5. <<x, y>> \in Seq(PatchSet) /\ Elements(<<x, y>>) = {x, y} /\ <<x>> \o <<y>> = <<x, y>>
    <3>1. <<x, y>> \in Seq(PatchSet) /\ Elements(<<x, y>>) = {x, y}
      BY <2>4, TwoElements
    <3>2. <<x>> \o <<y>> = <<x, y>>
      <4>1. <<x>> \in Seq(PatchSet) /\ Append(<<x>>, y) = <<x>> \o <<y>>
        BY <2>4, OneElement, AppendIsConcat
      <4>2. Append(<<x>>, y) = <<x, y>>
        <5> DEFINE u == Append(<<x>>, y)
                   v == <<x, y>>
        <5>1. /\ u \in Seq(PatchSet) /\ Len(u) = 2 /\ u[1] = x /\ u[2] = y
          BY <2>4, <4>1, OneElement, AppendProperties
        <5>2. v \in Seq(PatchSet) /\ Len(v) = 2 /\ v[1] = x /\ v[2] = y
          BY <3>1
        <5> HIDE DEF u, v
        <5>3. \A i \in 1..Len(u) : u[i] = v[i]
          BY <5>1, <5>2
        <5>4. u = v
          BY <5>1, <5>2, <5>3, SeqEqual
        <5> QED BY <5>4 DEF u, v
      <4> QED BY <4>1, <4>2
    <3> QED BY <3>1, <3>2
  <2>6. CASE phase' = "FHE4004"
    BY <1>5, <2>6 DEF Refused
  <2>7. CASE Pushed(<<x, y>>, 1)
    <3>1. Elements(plan') = Elements(plan) \cup {x, y}
      BY <1>5, <1>12, <2>5, <2>7, PlanGrows DEF Pushed
    <3>2. \A c \in Elements(gs) : Planned(p, "before", c)'
      BY <1>16, <1>19, <2>4, <3>1 DEF Planned
    <3>3. PatchShape(x)'
      BY <1>16, <1>19, <2>4 DEF PatchShape
    <3>4. \A c \in EventGrants(t) : Planned(p, "before", c)' \/ Granted(BackwardWindow(text, p), c)
      BY <1>10, <3>2
    <3>5. Inner(p, z)'
      BY <1>1, <1>5, <1>6, <1>16, <1>19, <2>2, <3>4 DEF Inner
    <3>6. PatchShape(y)'
      BY <2>3, <2>4, <3>5 DEF PatchShape
    <3>7. ~NoPatch(p, "inner")'
      BY <2>4, <3>1 DEF NoPatch
    <3>8. Dealt5(p)'
      BY <3>7 DEF Dealt5
    <3>9. Dealt(h)'
      BY <1>5, <3>8 DEF Dealt
    <3>10. \A u \in Elements(<<x, y>>) : PatchShape(u)'
      BY <2>5, <3>3, <3>6
    <3>11. pending' \in Seq(Guards(Names)) /\ Waiting'
      BY <1>12, <1>19 DEF Waiting
    <3> QED BY <1>0, <1>5, <1>13, <2>5, <2>7, <3>9, <3>10, <3>11, PushWorks
  <2>8. BraceAndPush(p, <<x, y>>, 1)
    BY <1>19, <2>1, <2>5 DEF x, y
  <2> QED BY <2>6, <2>7, <2>8, BraceOrRefuse
<1> QED BY <1>14, <1>17, <1>18, <1>19

\* What a concatenation is made of.
Joins(r, s, t) ==
    /\ Len(r) = Len(s) + Len(t)
    /\ \A i \in 1..Len(s) : r[i] = s[i]
    /\ \A i \in 1..Len(t) : r[Len(s) + i] = t[i]
    /\ Elements(r) = Elements(s) \cup Elements(t)

\* Two sequences joined, by their parts.
LEMMA Joined ==
    ASSUME NEW X, NEW s \in Seq(X), NEW t \in Seq(X)
    PROVE  s \o t \in Seq(X) /\ Joins(s \o t, s, t)
<1> DEFINE r == s \o t
           a == Len(s)
           b == Len(t)
<1>1. a \in Nat /\ b \in Nat
  BY LenProperties
<1>2. r \in Seq(X) /\ Len(r) = a + b
  BY ConcatProperties
<1>3. \A i \in 1..a + b : r[i] = IF i <= a THEN s[i] ELSE t[i - a]
  BY ConcatProperties
<1>4. Elements(r) = Elements(s) \cup Elements(t)
  BY ElementsConcat
<1> HIDE DEF r, a, b
<1>5. ASSUME NEW i \in 1..a PROVE r[i] = s[i]
  BY <1>1, <1>3, <1>5
<1>6. ASSUME NEW i \in 1..b PROVE r[a + i] = t[i]
  <2>1. a + i \in 1..a + b /\ ~(a + i <= a) /\ a + i - a = i
    BY <1>1, <1>6
  <2>2. PICK j : j = a + i
    OBVIOUS
  <2>3. j \in 1..a + b /\ ~(j <= a) /\ j - a = i
    BY <1>1, <1>6, <2>2
  <2>4. r[j] = t[j - a]
    BY <1>3, <2>3
  <2> QED BY <2>2, <2>3, <2>4
<1> QED BY <1>2, <1>4, <1>5, <1>6, Zenon DEF Joins, r, a, b

Framed(L, a, q, b, c) ==
    /\ Len(q) \in Nat /\ Len(L) = Len(q) + 3
    /\ L[1] = a /\ L[Len(q) + 2] = b /\ L[Len(q) + 3] = c
    /\ \A k \in 2..Len(q) + 1 : L[k] \in Elements(q)
    /\ Elements(q) \subseteq Elements(L)

\* A return taken apart: the declaration, the grants handed over, R3's guard and
\* the return.
LEMMA FourParts ==
    ASSUME NEW X, NEW a \in X, NEW q \in Seq(X), NEW b \in X, NEW c \in X
    PROVE  /\ <<a>> \o q \o <<b>> \o <<c>> \in Seq(X)
           /\ Framed(<<a>> \o q \o <<b>> \o <<c>>, a, q, b, c)
<1>0. PICK L : L = <<a>> \o q \o <<b>> \o <<c>>
  OBVIOUS
<1>1. PICK A : A = <<a>>
  OBVIOUS
<1>2. PICK B : B = <<b>>
  OBVIOUS
<1>3. PICK C : C = <<c>>
  OBVIOUS
<1>4. PICK u : u = A \o q
  OBVIOUS
<1>5. PICK v : v = u \o B
  OBVIOUS
<1>6. L = v \o C
  BY <1>0, <1>1, <1>2, <1>3, <1>4, <1>5
<1>7. PICK n : n = Len(q)
  OBVIOUS
<1>8. A \in Seq(X) /\ Len(A) = 1 /\ A[1] = a
  BY <1>1, OneElement
<1>9. B \in Seq(X) /\ Len(B) = 1 /\ B[1] = b
  BY <1>2, OneElement
<1>10. C \in Seq(X) /\ Len(C) = 1 /\ C[1] = c
  BY <1>3, OneElement
<1>11. u \in Seq(X) /\ Joins(u, A, q) /\ n \in Nat
  BY <1>4, <1>7, <1>8, Joined, LenProperties
<1>12. Len(u) = 1 + n
  BY <1>7, <1>8, <1>11 DEF Joins
<1>13. v \in Seq(X) /\ Joins(v, u, B)
  BY <1>5, <1>9, <1>11, Joined
<1>14. Len(v) = n + 2
  BY <1>9, <1>11, <1>12, <1>13 DEF Joins
<1>15. L \in Seq(X) /\ Joins(L, v, C)
  BY <1>6, <1>10, <1>13, Joined
<1>16. Len(L) = n + 3 /\ Elements(q) \subseteq Elements(L)
  <2>1. Len(L) = Len(v) + Len(C)
    BY <1>15 DEF Joins
  <2>2. /\ Elements(u) = Elements(A) \cup Elements(q)
        /\ Elements(v) = Elements(u) \cup Elements(B)
        /\ Elements(L) = Elements(v) \cup Elements(C)
    BY <1>11, <1>13, <1>15 DEF Joins
  <2>3. n + 2 + 1 = n + 3
    BY <1>11
  <2> QED BY <1>10, <1>14, <2>1, <2>2, <2>3
<1>17. /\ \A i \in 1..n + 2 : L[i] = v[i]
       /\ \A i \in 1..1 : L[n + 2 + i] = C[i]
  BY <1>10, <1>14, <1>15 DEF Joins
<1>18. /\ \A i \in 1..1 + n : v[i] = u[i]
       /\ \A i \in 1..1 : v[1 + n + i] = B[i]
  BY <1>9, <1>12, <1>13 DEF Joins
<1>19. /\ \A i \in 1..1 : u[i] = A[i]
       /\ \A i \in 1..n : u[1 + i] = q[i]
  BY <1>7, <1>8, <1>11 DEF Joins
<1>20. L[1] = a /\ L[n + 2] = b /\ L[n + 3] = c
  <2>1. /\ 1 \in 1..n + 2 /\ 1 \in 1..1 + n /\ 1 \in 1..1 /\ n + 2 = 1 + n + 1
        /\ n + 3 = n + 2 + 1 /\ n + 2 \in 1..n + 2
    BY <1>11
  <2>2. L[1] = A[1]
    BY <1>17, <1>18, <1>19, <2>1
  <2>3. L[n + 2] = B[1]
    BY <1>17, <1>18, <2>1
  <2>4. L[n + 3] = C[1]
    BY <1>17, <2>1
  <2> QED BY <1>8, <1>9, <1>10, <2>2, <2>3, <2>4
<1>21. ASSUME NEW k \in 2..n + 1 PROVE L[k] \in Elements(q)
  <2>1. /\ k \in 1..n + 2 /\ k \in 1..1 + n /\ k - 1 \in 1..n /\ k = 1 + (k - 1)
    BY <1>11, <1>21
  <2>2. L[k] = v[k] /\ v[k] = u[k]
    BY <1>17, <1>18, <2>1
  <2>3. u[1 + (k - 1)] = q[k - 1]
    BY <1>19, <2>1
  <2>4. L[k] = q[k - 1]
    BY <2>1, <2>2, <2>3
  <2> QED BY <1>7, <2>1, <2>4, ElementsOf
<1>22. L \in Seq(X) /\ Framed(L, a, q, b, c)
  BY <1>7, <1>11, <1>15, <1>16, <1>20, <1>21 DEF Framed
<1> QED BY <1>0, <1>22

\* R3: a grant before the return, or the return taken apart.
LEMMA WorkR3 ==
    ASSUME Working, Supported, RuleR3
    PROVE  Working' \/ Refused'
<1>0. PICK h : h = Head(due)
  OBVIOUS
<1> DEFINE p == h.at
<1>1. PICK s : s = At(text, p)
  OBVIOUS
<1>2. PICK t : t = NextTemp
  OBVIOUS
<1>3. PICK g : g = Grant("allowTransient", t, Sender)
  OBVIOUS
<1>4. PICK lines : lines = <<Decl(t, s)>> \o pending \o GuardLines(t, <<g>>)
                             \o <<Return(None, t, None)>>
  OBVIOUS
<1>5. /\ due # << >> /\ h.rule = "R3"
      /\ UNCHANGED <<text, round, kind>> /\ round = 1 /\ phase = "pass"
  BY <1>0 DEF RuleR3, Takes, reading, Working
<1>6. /\ p \in Spots(text) /\ s \in Stmts(Locals) /\ s.op = "return"
      /\ t \in TempNames /\ t \in Names
  BY <1>0, <1>1, <1>2, <1>5, HeadFact DEF Asks, Asked3
<1>7. plan \in Seq(PatchSet) /\ pending \in Seq(Guards(Names))
  BY DEF Working, PlanOK
<1>8. (kind # "public" \/ GrantedAtReturn(p)) <=> Quiet3(text, kind, p)
  <2>1. GrantedAtReturn(p) <=> /\ At(text, p).into = None /\ At(text, p).to = None
                               /\ Granted(BackwardWindow(text, p),
                                          Grant("allowTransient", At(text, p).e, Sender))
    BY MissingOne DEF GrantedAtReturn
  <2> QED BY <2>1, Zenon DEF Quiet3
<1>9. \/ Quiet3(text, kind, p) /\ pending = << >> /\ Skip
      \/ Quiet3(text, kind, p) /\ Refuse("FHE4004")
      \/ BraceAndPush(p, <<Patch(p, "whole", lines)>>, 1) /\ pending' = << >>
  BY <1>0, <1>1, <1>2, <1>3, <1>4, <1>8 DEF RuleR3
<1>10. CASE Quiet3(text, kind, p) /\ pending = << >> /\ Skip
  <2>1. Dealt(h)
    BY <1>5, <1>10 DEF Dealt, Dealt3
  <2> QED BY <1>0, <1>5, <1>10, <2>1, SkipWorks
<1>11. CASE Quiet3(text, kind, p) /\ Refuse("FHE4004")
  BY <1>5, <1>11 DEF Refuse, Refused
<1>12. CASE BraceAndPush(p, <<Patch(p, "whole", lines)>>, 1) /\ pending' = << >>
  <2> DEFINE x == Patch(p, "whole", lines)
             X == Stmts(Names)
  <2>1. PICK a : a = Decl(t, s)
    OBVIOUS
  <2>2. PICK b : b = Guard(t, <<g>>)
    OBVIOUS
  <2>3. PICK c : c = Return(None, t, None)
    OBVIOUS
  <2>4. /\ a \in X /\ a.op = "decl" /\ a.name = t
        /\ a.into = s.into /\ a.to = s.to /\ a.e = s.e
    <3>1. s \in [op : {"return"}, into : Targets(Locals), e : Exprs(Locals),
                 to : Callees \cup {None}]
      BY <1>6, StmtShapes
    <3>2. Targets(Locals) \subseteq Targets(Names) /\ Exprs(Locals) \subseteq Exprs(Names)
      BY DEF Targets, Exprs, Names
    <3>3. a \in [op : {"decl"}, name : Names, into : Targets(Names), e : Exprs(Names),
                 to : Callees \cup {None}]
      BY <1>6, <2>1, <3>1, <3>2 DEF Decl
    <3> QED BY <2>1, <3>3 DEF Stmts, Writers, Decl
  <2>5. t \in Exprs(Names)
    BY <1>6 DEF Exprs
  <2>6. g \in GrantsOn(Names)
    BY <1>3, <2>5 DEF Grant, GrantsOn, GrantFns, Parties
  <2>7. <<g>> \in Seq(GrantsOn(Names)) /\ Elements(<<g>>) = {g} /\ <<g>> # << >>
    BY <2>6, OneElement, ElementsEmpty
  <2>8. b \in Guards(Names) /\ HasGrant(b, g)
    BY <2>2, <2>5, <2>7, GuardTyped, GuardHas
  <2>9. b \in X /\ b.op = "guard"
    BY <2>2, <2>8 DEF Stmts, Guard
  <2>10. c \in X /\ c.op = "return" /\ c.into = None /\ c.to = None /\ c.e = t
    <3>1. c \in [op : {"return"}, into : Targets(Names), e : Exprs(Names),
                 to : Callees \cup {None}]
      BY <2>3, <2>5 DEF Return, Targets
    <3> QED BY <2>3, <3>1 DEF Stmts, Writers, Return
  <2>11. GuardLines(t, <<g>>) = <<b>>
    BY <2>2, <2>7, GuardLinesAre
  <2>12. lines = <<a>> \o pending \o <<b>> \o <<c>>
    BY <1>4, <2>1, <2>3, <2>11
  <2>13. pending \in Seq(X) /\ \A l \in Elements(pending) : l.op = "guard"
    <3>1. pending \in Seq(X)
      BY <1>7, WiderSeq DEF Stmts
    <3>2. Elements(pending) \subseteq Guards(Names)
      BY <1>7, ElementsOf
    <3> QED BY <3>1, <3>2 DEF Guards
  <2> HIDE DEF X
  <2>14. PICK n : n = Len(pending)
    OBVIOUS
  <2>15. /\ lines \in Seq(X) /\ n \in Nat /\ Len(lines) = n + 3
         /\ lines[1] = a /\ lines[n + 2] = b /\ lines[n + 3] = c
         /\ \A k \in 2..n + 1 : lines[k] \in Elements(pending)
         /\ Elements(pending) \subseteq Elements(lines)
    <3>1. /\ lines \in Seq(X) /\ Len(pending) \in Nat /\ Len(lines) = Len(pending) + 3
          /\ lines[1] = a /\ lines[Len(pending) + 2] = b /\ lines[Len(pending) + 3] = c
          /\ \A k \in 2..Len(pending) + 1 : lines[k] \in Elements(pending)
          /\ Elements(pending) \subseteq Elements(lines)
      <4>1. a \in X /\ b \in X /\ c \in X /\ pending \in Seq(X)
        BY <2>4, <2>9, <2>10, <2>13
      <4>2. lines \in Seq(X) /\ Framed(lines, a, pending, b, c)
        BY <2>12, <4>1, FourParts
      <4> QED BY <4>2 DEF Framed
    <3> QED BY <2>14, <3>1
  <2>16. lines # << >>
    BY <2>15, EmptySeq
  <2>17. Whole(p, lines)
    <3>1. ASSUME NEW k \in 2..Len(lines)
          PROVE  \/ lines[k].op = "guard"
                 \/ /\ lines[k].op = "return" /\ lines[k].into = None /\ lines[k].to = None
                    /\ HasGrant(lines[k - 1], Grant("allowTransient", lines[k].e, Sender))
      <4>1. k \in 2..n + 1 \/ k = n + 2 \/ (k = n + 3 /\ k - 1 = n + 2)
        BY <2>15
      <4>2. CASE k \in 2..n + 1
        BY <2>13, <2>15, <4>2
      <4>3. CASE k = n + 2
        BY <2>9, <2>15, <4>3
      <4>4. CASE k = n + 3 /\ k - 1 = n + 2
        BY <1>3, <2>8, <2>10, <2>15, <4>4
      <4> QED BY <4>1, <4>2, <4>3, <4>4
    <3> QED BY <1>1, <1>6, <2>4, <2>15, <3>1 DEF Whole
  <2>18. x \in PatchSet /\ x.at = p /\ x.where = "whole" /\ x.lines = lines
    BY <1>6, <2>15 DEF Patch, PatchSet, Wheres, X
  <2> HIDE DEF x
  <2>19. <<x>> \in Seq(PatchSet) /\ Elements(<<x>>) = {x}
    BY <2>18, OneElement
  <2>20. CASE phase' = "FHE4004"
    BY <1>5, <2>20 DEF Refused
  <2>21. CASE Pushed(<<x>>, 1)
    <3>1. Elements(plan') = Elements(plan) \cup {x}
      BY <1>5, <1>7, <2>19, <2>21, PlanGrows DEF Pushed
    <3>2. ASSUME NEW q, NEW d, Held(q, d) PROVE Planned(q, "whole", d)'
      BY <1>0, <2>15, <2>18, <3>1, <3>2 DEF Held, Planned
    <3>3. Whole(p, lines)'
      BY <1>5, <2>17 DEF Whole
    <3>4. PatchShape(x)'
      BY <2>16, <2>18, <3>3 DEF PatchShape
    <3>5. ~NoPatch(p, "whole")'
      BY <2>18, <3>1 DEF NoPatch
    <3>6. Dealt3(p)'
      BY <3>5 DEF Dealt3
    <3>7. Dealt(h)'
      BY <1>5, <3>6 DEF Dealt
    <3>8. pending' \in Seq(Guards(Names)) /\ Waiting'
      BY <1>12, EmptySeq DEF Waiting
    <3>9. \A u \in Elements(<<x>>) : PatchShape(u)'
      BY <2>19, <3>4
    <3> QED BY <1>0, <1>5, <2>19, <2>21, <3>2, <3>7, <3>8, <3>9, PushWorks
  <2> QED BY <1>12, <2>20, <2>21, BraceOrRefuse DEF x
<1> QED BY <1>9, <1>10, <1>11, <1>12

\* Re-application after a write of a reader.
LEMMA WorkReapply ==
    ASSUME Working, Supported, RuleReapply
    PROVE  Working' \/ Refused'
<1>0. PICK h : h = Head(due)
  OBVIOUS
<1> DEFINE p == h.at
<1>1. PICK lines : lines = PolicyLines(p)
  OBVIOUS
<1>2. /\ due # << >> /\ h.rule = "reapply"
      /\ UNCHANGED <<text, round, kind>> /\ round = 1 /\ phase = "pass"
  BY <1>0 DEF RuleReapply, Takes, reading, Working
<1>3. p \in Spots(text)
  BY <1>0, <1>2, HeadFact
<1>4. /\ pending = << >> /\ plan \in Seq(PatchSet) /\ pending \in Seq(Guards(Names))
      /\ IsFiniteSet(Policied)
  BY <1>0, <1>2 DEF Working, Waiting, PlanOK, Supported
<1>5. \A q, c : ~Held(q, c)
  BY <1>4 DEF Held, Elements
<1>6. /\ lines \in Seq(Guards(Names))
      /\ lines = << >> <=> QuietR(text, p)
      /\ \A x \in Policied : \A c \in Elements(WriteCalls(x)) :
            \/ Granted(ForwardWindow(text, p, x), c)
            \/ \E g \in Elements(lines) : HasGrant(g, c)
  BY <1>1, <1>4, PolicyLinesAre
<1>7. \/ lines = << >> /\ Skip
      \/ /\ lines # << >> /\ UNCHANGED pending
         /\ BraceAndPush(p, <<Patch(p, "after", lines)>>, 0)
  BY <1>0, <1>1 DEF RuleReapply, PolicyLines
<1>8. CASE lines = << >> /\ Skip
  <2>1. DealtR(p)
    BY <1>6, <1>8 DEF QuietR, DealtR
  <2>2. Dealt(h)
    BY <1>2, <2>1 DEF Dealt
  <2> QED BY <1>0, <1>2, <1>8, <2>2, SkipWorks
<1>9. CASE /\ lines # << >> /\ UNCHANGED pending
           /\ BraceAndPush(p, <<Patch(p, "after", lines)>>, 0)
  <2> DEFINE x == Patch(p, "after", lines)
  <2>1. x \in PatchSet /\ PatchShape(x)' /\ x.at = p /\ x.where = "after" /\ x.lines = lines
    BY <1>3, <1>6, <1>9, GuardPatch DEF Patch
  <2> HIDE DEF x
  <2>2. <<x>> \in Seq(PatchSet) /\ Elements(<<x>>) = {x}
    BY <2>1, OneElement
  <2>3. CASE phase' = "FHE4004"
    BY <1>2, <2>3 DEF Refused
  <2>4. CASE Pushed(<<x>>, 0)
    <3>1. Elements(plan') = Elements(plan) \cup {x}
      BY <1>2, <1>4, <2>2, <2>4, PlanGrows DEF Pushed
    <3>2. DealtR(p)'
      BY <1>2, <1>6, <2>1, <3>1 DEF DealtR, Planned
    <3>3. Dealt(h)'
      BY <1>2, <3>2 DEF Dealt
    <3>4. pending' \in Seq(Guards(Names)) /\ Waiting'
      BY <1>4, <1>9 DEF Waiting
    <3> QED BY <1>0, <1>2, <1>5, <2>1, <2>2, <2>4, <3>3, <3>4, PushWorks
  <2> QED BY <1>9, <2>3, <2>4, BraceOrRefuse DEF x
<1> QED BY <1>7, <1>8, <1>9

-----------------------------------------------------------------------------
(* The second round, and the theorem.                                      *)

\* The second round: no fact has anything to add.
Quieted ==
    /\ round = 2 /\ phase = "pass" /\ plan = << >> /\ pending = << >>
    /\ due \in Seq(Duty(RuleNames, Spots(text)))
    /\ \A d \in Elements(due) : Quiet(text, kind, d)

Finished == round = 2 /\ plan = << >> /\ phase \in {"ready", "source", "output", "done"}

\* The invariant of both rounds.
Rounds == Working \/ Refused \/ Quieted \/ Finished

\* Over a text with nothing missing each rule skips its fact.
LEMMA QuietSkips ==
    ASSUME Quieted, Supported, RuleR1 \/ RuleR2 \/ RuleR3 \/ RuleR5 \/ RuleReapply
    PROVE  Skip /\ UNCHANGED <<text, round, kind>> /\ due # << >>
<1>0. PICK h : h = Head(due)
  OBVIOUS
<1> DEFINE p == h.at
<1>1. PICK s : s = At(text, p)
  OBVIOUS
<1>2. due # << >> /\ UNCHANGED <<text, round, kind>>
  BY DEF RuleR1, RuleR2, RuleR3, RuleR5, RuleReapply, Takes, reading
<1>3. Quiet(text, kind, h) /\ pending = << >>
  <2>1. /\ due \in Seq(Duty(RuleNames, Spots(text))) /\ due # << >>
        /\ \A d \in Elements(due) : Quiet(text, kind, d)
    BY <1>2 DEF Quieted
  <2>2. h \in Elements(due)
    <3>1. Len(due) \in Nat /\ Len(due) >= 1 /\ h = due[1]
      BY <1>0, <2>1, RestTail, EmptySeq, LenProperties
    <3> QED BY <2>1, <3>1, ElementsOf
  <2> QED BY <2>1, <2>2 DEF Quieted
<1>4. CASE RuleR1
  <2>1. h.rule = "R1"
    BY <1>0, <1>4 DEF RuleR1, Takes
  <2>2. MissingAtWrite(p) = << >>
    BY <1>3, <2>1, MissingWrite DEF Quiet
  <2>3. GuardLines(s.into, MissingAtWrite(p)) = << >>
    BY <2>2, GuardLinesAre
  <2>4. \/ GuardLines(s.into, MissingAtWrite(p)) = << >> /\ Skip
        \/ GuardLines(s.into, MissingAtWrite(p)) # << >>
    BY <1>0, <1>1, <1>4 DEF RuleR1
  <2> QED BY <1>2, <2>3, <2>4
<1>5. CASE RuleR2
  <2>1. h.rule = "R2"
    BY <1>0, <1>5 DEF RuleR2, Takes
  <2>2. \/ kind = "view"
        \/ MissingBefore(p, <<Grant("allowTransient", s.e, s.to)>>) = << >>
    BY <1>1, <1>3, <2>1, MissingOne DEF Quiet, Quiet2
  <2>3. \/ kind = "view"
        \/ MissingBefore(p, <<Grant("allowTransient", s.e, s.to)>>) = << >>
        => Skip
    BY <1>0, <1>1, <1>5 DEF RuleR2
  <2> QED BY <1>2, <2>2, <2>3
<1>6. CASE RuleR3
  <2>1. h.rule = "R3"
    BY <1>0, <1>6 DEF RuleR3, Takes
  <2>2. kind # "public" \/ GrantedAtReturn(p)
    BY <1>3, <2>1, MissingOne DEF Quiet, Quiet3, GrantedAtReturn
  <2>3. (kind # "public" \/ GrantedAtReturn(p)) /\ pending = << >> => Skip
    BY <1>0, <1>6 DEF RuleR3
  <2> QED BY <1>2, <1>3, <2>2, <2>3
<1>7. CASE RuleR5
  <2>1. h.rule = "R5"
    BY <1>0, <1>7 DEF RuleR5, Takes
  <2>2. Quiet5(text, p)
    BY <1>3, <2>1 DEF Quiet
  <2>3. CASE ~EventPolicy \/ s.e = "wrap"
    BY <1>0, <1>1, <1>2, <1>7, <2>3 DEF RuleR5
  <2>4. CASE IsIdent(s.e) /\ \A c \in Elements(EventCalls(s.e)) : Granted(BackwardWindow(text, p), c)
    <3>1. EventCalls(s.e) \in Seq(EventGrants(s.e))
      BY CallsAre
    <3>2. Elements(MissingBefore(p, EventCalls(s.e))) = {}
          /\ MissingBefore(p, EventCalls(s.e)) \in Seq(EventGrants(s.e))
      BY <2>4, <3>1, MissingIs
    <3>3. MissingBefore(p, EventCalls(s.e)) = << >>
      BY <3>2, ElementsEmpty
    <3>4. GuardLines(s.e, MissingBefore(p, EventCalls(s.e))) = << >>
      BY <3>3, GuardLinesAre
    <3>5. << >> \o GuardLines(s.e, MissingBefore(p, EventCalls(s.e))) = << >>
      BY <3>4, EmptySeq, ConcatEmptySeq
    <3>6. << >> \o GuardLines(s.e, MissingBefore(p, EventCalls(s.e))) = << >> => Skip
      BY <1>0, <1>1, <1>7, <2>4 DEF RuleR5
    <3> QED BY <1>2, <3>5, <3>6
  <2> QED BY <1>1, <2>2, <2>3, <2>4 DEF Quiet5
<1>8. CASE RuleReapply
  <2>1. h.rule = "reapply"
    BY <1>0, <1>8 DEF RuleReapply, Takes
  <2>2. QuietR(text, p) /\ IsFiniteSet(Policied)
    BY <1>3, <2>1 DEF Quiet, Supported
  <2>3. PolicyLines(p) = << >>
    BY <2>2, PolicyLinesAre
  <2>4. PolicyLines(p) = << >> => Skip
    BY <1>0, <1>8 DEF RuleReapply, PolicyLines
  <2> QED BY <1>2, <2>3, <2>4
<1> QED BY <1>4, <1>5, <1>6, <1>7, <1>8

\* Without patches none overlap.
LEMMA NoPlan ==
    ASSUME plan = << >>
    PROVE  ~Overlap
<1>1. plan \in Seq({}) /\ Elements(plan) = {}
  BY EmptySeq DEF Elements
<1>2. ASSUME NEW p, NEW w PROVE Len(PatchesAt(p, w)) = 0
  <2> DEFINE here == Those(plan, {c \in Elements(plan) : c.at = p /\ c.where = w})
  <2>a. here = << >> <=> Elements(plan) \cap {c \in Elements(plan) : c.at = p /\ c.where = w} = {}
    BY <1>1, ThoseEmpty
  <2>b. Elements(plan) \cap {c \in Elements(plan) : c.at = p /\ c.where = w} = {}
    BY <1>1
  <2>1. here = << >>
    BY <2>a, <2>b
  <2>2. DOMAIN here = 1..0
    BY <2>1
  <2>3. PatchesAt(p, w) = [i \in DOMAIN here |-> here[i].lines]
    BY DEF PatchesAt
  <2> HIDE DEF here
  <2>4. PatchesAt(p, w) \in [1..0 -> {here[i].lines : i \in 1..0}]
    BY <2>2, <2>3
  <2> QED BY <2>4, FunctionSeq
<1> QED
  <2> SUFFICES ASSUME Overlap PROVE FALSE
    OBVIOUS
  <2>1. PICK b \in DOMAIN text : \E i \in DOMAIN text[b].stmts :
           Len(PatchesAt(<<b, i>>, "inner")) + Len(PatchesAt(<<b, i>>, "whole")) > 1
    BY DEF Overlap
  <2> PICK i \in DOMAIN text[b].stmts :
           Len(PatchesAt(<<b, i>>, "inner")) + Len(PatchesAt(<<b, i>>, "whole")) > 1
    BY <2>1
  <2>2. Len(PatchesAt(<<b, i>>, "inner")) = 0 /\ Len(PatchesAt(<<b, i>>, "whole")) = 0
    BY <1>2
  <2> QED BY <2>2

\* The first round begins working,
LEMMA RoundsInit ==
    ASSUME Supported, Init
    PROVE  Working
<1> DEFINE F == Facts(text)
<1>1. PICK f \in Inputs : kind = f.kind /\ body = f.body /\ text = f.body
  BY DEF Init
<1>2. kind \in Kinds /\ IsBody(text, Locals) /\ Len(F) <= Len(Temps)
  BY <1>1, InputAssumption DEF Supported
<1>3. due = F /\ F \in Seq(Duty(RuleNames, Spots(text)))
  BY <1>1, <1>2, FactsSeq DEF Init
<1>4. Len(F) \in Nat
  BY <1>3, LenProperties
<1>5. Rest(F, due)
  BY <1>3, <1>4 DEF Rest
<1>6. Past(F, due) = {}
  BY <1>3, <1>4 DEF Past
<1>7. plan = << >> /\ used = 0 /\ pending = << >> /\ round = 1 /\ phase = "pass"
  BY DEF Init
<1>8. PlanOK
  BY <1>7, EmptySeq DEF PlanOK, Elements
<1>9. pending \in Seq(Guards(Names)) /\ Waiting
  BY <1>7, EmptySeq DEF Waiting
<1>10. used \in Nat /\ used <= Len(F) - Len(due)
  BY <1>3, <1>4, <1>7
<1> QED BY <1>2, <1>3, <1>5, <1>6, <1>7, <1>8, <1>9, <1>10 DEF Working

\* ends in a text with nothing missing,
LEMMA WorkSplice ==
    ASSUME Working, Supported, Splice
    PROVE  Quieted' \/ Refused'
<1>1. /\ due = << >> /\ pending = << >> /\ round = 1 /\ phase = "pass"
      /\ IsBody(text, Locals) /\ PlanOK /\ kind' = kind /\ pending' = pending
  BY DEF Splice, Working
<1>2. CASE Overlap
  BY <1>1, <1>2 DEF Splice, Refused
<1>3. CASE ~Overlap
  <2>1. /\ text' = Spliced /\ round' = 2 /\ due' = Facts(text') /\ plan' = << >>
        /\ phase' = phase
    BY <1>1, <1>3 DEF Splice
  <2>2. \A d \in Elements(Facts(text)) : Dealt(d)
    <3>1. Facts(text) \in Seq(Duty(RuleNames, Spots(text)))
      BY <1>1, FactsSeq
    <3>2. Elements(Facts(text)) = {Facts(text)[i] : i \in 1..Len(Facts(text))}
          /\ Len(Facts(text)) \in Nat
      BY <3>1, ElementsOf
    <3>3. Len(due) = 0
      BY <1>1
    <3>4. Past(Facts(text), due) = Elements(Facts(text))
      BY <3>2, <3>3 DEF Past
    <3> QED BY <3>4 DEF Working
  <2>3. PICK u : u = Spliced
    OBVIOUS
  <2>4. /\ Facts(u) \in Seq(Duty(RuleNames, Spots(u)))
        /\ \A d \in Elements(Facts(u)) : Quiet(u, kind, d)
    BY <1>1, <1>3, <2>2, <2>3, AllQuiet
  <2>5. text' = u /\ due' = Facts(u)
    BY <2>1, <2>3
  <2>6. Quieted'
    BY <1>1, <2>1, <2>4, <2>5 DEF Quieted
  <2> QED BY <2>6
<1> QED BY <1>2, <1>3

\* and no step leaves the two rounds.
LEMMA RoundsNext ==
    ASSUME Rounds, Supported, [Next]_vars
    PROVE  Rounds'
<1>1. CASE UNCHANGED vars
  <2>1. UNCHANGED <<text, round, kind, body, due, plan, braced, pending, used, phase>>
    BY <1>1 DEF vars, reading
  <2>2. Refused => Refused'
    BY <2>1 DEF Refused
  <2>3. Quieted => Quieted'
    BY <2>1 DEF Quieted
  <2>4. Finished => Finished'
    BY <2>1 DEF Finished
  <2>5. Working => Working'
    <3>1. ASSUME Working PROVE Working'
      <4>1. plan \in Seq(PatchSet) /\ \A x \in Elements(plan) : PatchShape(x)
        BY <3>1 DEF Working, PlanOK
      <4>2. << >> \in Seq(PatchSet) /\ plan' = plan \o << >>
        BY <2>1, <4>1, EmptySeq, ConcatEmptySeq
      <4>3. /\ plan' \in Seq(PatchSet') /\ \A x : PatchShape(x) => PatchShape(x)'
        BY <2>1, <4>1, <4>2, PlanGrows
      <4>4. PlanOK'
        BY <2>1, <4>1, <4>3 DEF PlanOK
      <4>5. \A p, c : Held(p, c) => Held(p, c)'
        BY <2>1 DEF Held
      <4>6. \A d : Dealt(d) => Dealt(d)'
        BY <2>1, <4>1, <4>2, <4>5, DealtKept
      <4>7. \A d \in Past(Facts(text), due)' : Dealt(d)'
        BY <2>1, <3>1, <4>6 DEF Working
      <4>8. Waiting'
        BY <2>1, <3>1 DEF Working, Waiting
      <4> QED BY <2>1, <3>1, <4>4, <4>7, <4>8 DEF Working
    <3> QED BY <3>1
  <2> QED BY <2>2, <2>3, <2>4, <2>5 DEF Rounds
<1>2. CASE Next
  <2>1. ASSUME Working PROVE Rounds'
    <3>1. CASE RuleR1
      BY <2>1, <3>1, WorkR1 DEF Rounds
    <3>2. CASE RuleR2
      BY <2>1, <3>2, WorkR2 DEF Rounds
    <3>3. CASE RuleR3
      BY <2>1, <3>3, WorkR3 DEF Rounds
    <3>4. CASE RuleR5
      BY <2>1, <3>4, WorkR5 DEF Rounds
    <3>5. CASE RuleReapply
      BY <2>1, <3>5, WorkReapply DEF Rounds
    <3>6. CASE Splice
      BY <2>1, <3>6, WorkSplice DEF Rounds
    <3>7. CASE Begin \/ RunSource \/ RunOutput
      BY <2>1, <3>7 DEF Begin, RunSource, RunOutput, Working
    <3> QED BY <1>2, <3>1, <3>2, <3>3, <3>4, <3>5, <3>6, <3>7 DEF Next
  <2>2. ASSUME Refused PROVE Rounds'
    BY <1>2, <2>2 DEF Refused, Next, RuleR1, RuleR2, RuleR3, RuleR5, RuleReapply, Takes,
                      Splice, Begin, RunSource, RunOutput
  <2>3. ASSUME Quieted PROVE Rounds'
    <3>1. CASE RuleR1 \/ RuleR2 \/ RuleR3 \/ RuleR5 \/ RuleReapply
      <4>1. Skip /\ UNCHANGED <<text, round, kind>> /\ due # << >>
        BY <2>3, <3>1, QuietSkips
      <4>2. /\ due' = Tail(due) /\ plan' = plan /\ pending' = pending /\ phase' = phase
        BY <4>1 DEF Skip
      <4>3. due \in Seq(Duty(RuleNames, Spots(text)))
        BY <2>3 DEF Quieted
      <4>4. due' \in Seq(Duty(RuleNames, Spots(text))) /\ Elements(due') \subseteq Elements(due)
        <5>1. /\ Tail(due) \in Seq(Duty(RuleNames, Spots(text)))
              /\ Len(Tail(due)) = Len(due) - 1
              /\ \A i \in 1..Len(Tail(due)) : Tail(due)[i] = due[i + 1]
          BY <4>1, <4>3, HeadTailProperties
        <5>2. Len(due) \in Nat /\ Elements(due) = {due[i] : i \in 1..Len(due)}
          BY <4>3, ElementsOf
        <5>3. Elements(Tail(due)) = {Tail(due)[i] : i \in 1..Len(Tail(due))}
          BY <5>1, ElementsOf
        <5>4. \A i \in 1..Len(due) - 1 : i + 1 \in 1..Len(due)
          BY <5>2
        <5> QED BY <4>2, <5>1, <5>2, <5>3, <5>4
      <4>5. Quieted'
        BY <2>3, <4>1, <4>2, <4>4 DEF Quieted
      <4> QED BY <4>5 DEF Rounds
    <3>2. CASE Splice
      <4>1. ~Overlap
        BY <2>3, NoPlan DEF Quieted
      <4>2. Finished'
        BY <2>3, <3>2, <4>1 DEF Quieted, Splice, Finished
      <4> QED BY <4>2 DEF Rounds
    <3>3. CASE Begin \/ RunSource \/ RunOutput
      BY <2>3, <3>3 DEF Begin, RunSource, RunOutput, Quieted
    <3> QED BY <1>2, <3>1, <3>2, <3>3 DEF Next
  <2>4. ASSUME Finished PROVE Rounds'
    <3>1. Begin \/ RunSource \/ RunOutput
      BY <1>2, <2>4 DEF Finished, Next, RuleR1, RuleR2, RuleR3, RuleR5, RuleReapply, Takes, Splice
    <3>2. Finished'
      BY <2>4, <3>1 DEF Finished, Begin, RunSource, RunOutput, reading
    <3> QED BY <3>2 DEF Rounds
  <2> QED BY <2>1, <2>2, <2>3, <2>4 DEF Rounds
<1> QED BY <1>1, <1>2

\* The pass is idempotent: over the text its patches make of any body, with
\* any number of statements, names and policies, it finds every grant it put
\* there, inserts nothing and refuses nothing.
THEOREM PassIdempotent == Spec => []Idempotent
<1>1. Init => Rounds
  BY AuthorAssumption, RoundsInit DEF Rounds
<1>2. Rounds /\ [Next]_vars => Rounds'
  BY AuthorAssumption, RoundsNext
<1>3. Rounds => Idempotent
  BY DEF Rounds, Working, Refused, Quieted, Finished, Idempotent
<1> QED BY <1>1, <1>2, <1>3, PTL DEF Spec
=============================================================================
