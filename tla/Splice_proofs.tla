---------------------------- MODULE Splice_proofs -----------------------------
(***************************************************************************)
(* Proofs about Splice, for every text, every set of patches and plans of  *)
(* any length: what is not replaced is copied exactly, and a position of   *)
(* the output is mapped back to the byte it was copied from or to what it  *)
(* was generated from.                                                     *)
(***************************************************************************)
EXTENDS Splice, SequenceTheorems, WellFoundedInduction, TLAPS, FiniteSetTheorems

-----------------------------------------------------------------------------
(* Sequences and numbers.                                                  *)

\* The library states this with an operator for "<", which no prover takes.
NatLess == {ss \in Nat \X Nat : ss[1] < ss[2]}

LEMMA Least ==
    ASSUME NEW T \in SUBSET Nat, T # {}
    PROVE  \E x \in T : \A y \in T : x <= y
<1>1. IsWellFoundedOn(NatLess, Nat)
  BY NatLessThanWellFounded DEF OpToRel, NatLess
<1>2. PICK x \in T : \A y \in T : ~(<<y, x>> \in NatLess)
  BY <1>1, WFMin
<1>3. ASSUME NEW y \in T PROVE x <= y
  <2>1. x \in Nat /\ y \in Nat /\ <<y, x>> \in Nat \X Nat
    OBVIOUS
  <2>2. ~(y < x)
    BY <1>2, <2>1 DEF NatLess
  <2> QED BY <2>1, <2>2
<1> QED BY <1>3

LEMMA RangeHeadTail ==
    ASSUME NEW S, NEW s \in Seq(S), s # << >>
    PROVE  /\ Head(s) \in S /\ Tail(s) \in Seq(S)
           /\ Range(s) = {Head(s)} \cup Range(Tail(s))
<1>1. Tail(s) \in Seq(S) /\ Len(Tail(s)) = Len(s) - 1 /\ Head(s) \in S
      /\ \A i \in 1..Len(Tail(s)) : Tail(s)[i] = s[i + 1]
  BY HeadTailProperties
<1>2. Range(Tail(s)) = {Tail(s)[i] : i \in 1..Len(Tail(s))} /\ Range(s) = {s[i] : i \in 1..Len(s)}
  BY <1>1, RangeEquality
<1>3. Len(s) \in Nat /\ Len(s) >= 1 /\ Head(s) = s[1]
  BY EmptySeq
<1>4. {s[i] : i \in 1..Len(s)} = {s[1]} \cup {s[i + 1] : i \in 1..Len(s) - 1}
  <2>1. \A i \in 1..Len(s) : i = 1 \/ (i - 1 \in 1..Len(s) - 1 /\ s[i] = s[(i - 1) + 1])
    BY <1>3
  <2>2. \A i \in 1..Len(s) - 1 : i + 1 \in 1..Len(s)
    BY <1>3
  <2> QED BY <1>3, <2>1, <2>2
<1> QED BY <1>1, <1>2, <1>3, <1>4

-----------------------------------------------------------------------------
\* the mappings lie one after the other, and the output ends with the last one
\* until the rest of the source is copied
Layout ==
    /\ \A n \in 1..Len(applied) :
          /\ applied[n].outStart <= applied[n].outEnd
          /\ applied[n].outEnd <= Len(out)
    /\ \A m, n \in 1..Len(applied) : m < n => applied[m].outEnd <= applied[n].outStart
    /\ state # "done" => /\ Len(out) = After(Len(applied))
                         /\ cursor = After(Len(applied)) - Shift(Len(applied))

IInv == TypeOK /\ Layout /\ CopiedExactly

\* each mapping is that of a patch, whose text lies in it, and the two texts
\* advance alike up to where it begins
TextLies(m, i) ==
    /\ m.srcStart = plan[i].start /\ m.srcEnd = plan[i].end /\ m.srcStart <= m.srcEnd
    /\ m.outEnd = m.outStart + plan[i].size
    /\ \A k \in m.outStart + 1 .. m.outEnd : out[k].from = i
Placed ==
    \A n \in 1..Len(applied) :
        /\ applied[n].srcStart = applied[n].outStart - Shift(n - 1)
        /\ \E i \in DOMAIN plan : TextLies(applied[n], i)

Mapping == [outStart : Nat, outEnd : Nat, srcStart : Nat, srcEnd : Nat]

LEMMA PlanType == ASSUME IsPlan(plan)
                  PROVE  /\ plan \in Seq(Patch) /\ DOMAIN plan = 1..Len(plan)
                         /\ Len(plan) \in Nat
BY PatchAssumption DEF IsPlan

LEMMA SourceType == /\ Source \in Seq(Byte) /\ Len(Source) = Size
                    /\ \A k \in 1..Size : Source[k] = [from |-> 0, at |-> k]
BY SizeAssumption DEF Source, Byte

LEMMA PatchType == ASSUME IsPlan(plan), NEW i \in DOMAIN plan
                   PROVE  /\ i \in Nat /\ plan[i] \in Patch
                          /\ plan[i].start \in Nat /\ plan[i].end \in Nat /\ plan[i].size \in Nat
<1>1. plan \in Seq(Patch) /\ i \in 1..Len(plan) /\ Len(plan) \in Nat
  BY PlanType
<1>2. plan[i] \in Patch
  BY <1>1, ElementOfSeq
<1> QED BY <1>1, <1>2 DEF Patch

LEMMA MappingType == ASSUME NEW s \in Seq(Mapping), NEW n \in 1..Len(s)
                     PROVE  /\ s[n] \in Mapping
                            /\ s[n].outStart \in Nat /\ s[n].outEnd \in Nat
                            /\ s[n].srcStart \in Nat /\ s[n].srcEnd \in Nat
<1>1. s[n] \in Mapping
  BY ElementOfSeq
<1> QED BY <1>1 DEF Mapping

\* the ends of the gaps are numbers
LEMMA GapType == ASSUME applied \in Seq(Mapping), NEW n \in 0..Len(applied)
                 PROVE  After(n) \in Nat /\ Shift(n) \in Int
<1>1. CASE n = 0
  BY <1>1 DEF After, Shift
<1>2. CASE n \in 1..Len(applied)
  BY <1>2, MappingType DEF After, Shift
<1> QED BY <1>1, <1>2

LEMMA NextIndex == ASSUME NEW length \in Nat, NEW n \in 0..length, n # length
                   PROVE  n + 1 \in 1..length
OBVIOUS

LEMMA NotLast == ASSUME NEW length \in Nat, NEW n \in Nat, NEW m \in 1..length, n < m
                 PROVE  n # length /\ n + 1 \in 1..m
OBVIOUS

LEMMA Within == ASSUME NEW length \in Nat, NEW m \in 1..length, NEW n \in 1..m
                PROVE  n \in 1..length
OBVIOUS

LEMMA UntilType == ASSUME applied \in Seq(Mapping), out \in Seq(Byte), NEW n \in 0..Len(applied)
                   PROVE  Until(n) \in Nat
<1>1. CASE n = Len(applied)
  BY <1>1 DEF Until
<1>2. CASE n # Len(applied)
  <2>1. n + 1 \in 1..Len(applied)
    BY <1>2
  <2> QED BY <1>2, <2>1, MappingType DEF Until
<1> QED BY <1>1, <1>2

LEMMA TextType == ASSUME IsPlan(plan), NEW i \in DOMAIN plan
                  PROVE  /\ Text(plan, i) \in Seq(Byte) /\ Len(Text(plan, i)) = plan[i].size
                         /\ \A k \in 1..plan[i].size : Text(plan, i)[k].from = i
<1> DEFINE size == plan[i].size
<1>1. size \in Nat /\ i \in Nat
  BY PatchType
<1>2. \A n \in 1..size : [from |-> i, at |-> n] \in Byte
  BY <1>1 DEF Byte
<1> HIDE DEF size
<1>3. /\ [n \in 1..size |-> [from |-> i, at |-> n]] \in Seq(Byte)
      /\ Len([n \in 1..size |-> [from |-> i, at |-> n]]) = size
      /\ \A k \in 1..size : [n \in 1..size |-> [from |-> i, at |-> n]][k].from = i
  BY <1>1, <1>2
<1> QED BY <1>3 DEF Text, size

\* what is copied from the source, byte for byte
LEMMA CopiedType ==
    ASSUME NEW from \in 0..Size, NEW upto \in from..Size
    PROVE  /\ Copied(from, upto) \in Seq(Byte)
           /\ Len(Copied(from, upto)) = upto - from
           /\ \A k \in 1..upto - from : Copied(from, upto)[k] = [from |-> 0, at |-> from + k]
<1> /\ from \in Int /\ upto \in Int /\ from <= upto /\ Size \in Int
  BY SizeAssumption
<1>1. \A k \in from+1..upto : Source[k] = [from |-> 0, at |-> k] /\ Source[k] \in Byte
  BY SourceType, SizeAssumption DEF Byte
<1> DEFINE low == from + 1
<1>2. /\ SubSeq(Source, from + 1, upto) \in Seq(Byte)
      /\ Len(SubSeq(Source, from + 1, upto))
            = IF from + 1 <= upto THEN upto - (from + 1) + 1 ELSE 0
      /\ \A k \in 1..upto - (from + 1) + 1 :
            SubSeq(Source, from + 1, upto)[k] = Source[from + 1 + k - 1]
  <2>1. low \in Int /\ \A k \in low..upto : Source[k] \in Byte
    <3>1. low = from + 1
      OBVIOUS
    <3>2. ASSUME NEW k \in low..upto PROVE k \in from+1..upto
      BY <3>1
    <3>3. low \in Int
      BY <3>1
    <3> HIDE DEF low
    <3>4. ASSUME NEW k \in low..upto PROVE Source[k] \in Byte
      BY <1>1, <3>2
    <3> QED BY <3>3, <3>4
  <2> HIDE DEF low
  <2>2. /\ SubSeq(Source, low, upto) \in Seq(Byte)
        /\ Len(SubSeq(Source, low, upto)) = IF low <= upto THEN upto - low + 1 ELSE 0
        /\ \A k \in 1..upto - low + 1 : SubSeq(Source, low, upto)[k] = Source[low + k - 1]
    BY <2>1, SubSeqProperties
  <2> QED BY <2>2 DEF low
<1>3. ASSUME NEW k \in 1..upto - from
      PROVE  SubSeq(Source, from + 1, upto)[k] = [from |-> 0, at |-> from + k]
  <2>1. k \in 1..upto - (from + 1) + 1 /\ from + 1 + k - 1 = from + k
        /\ from + k \in from+1..upto
    OBVIOUS
  <2> QED BY <1>1, <1>2, <2>1
<1> QED BY <1>2, <1>3 DEF Copied

LEMMA InitInv == Init => IInv
BY PlanType, SizeAssumption DEF Init, IInv, TypeOK, Layout, CopiedExactly, After, Shift, Until

LEMMA SortInv == IInv /\ Sort => IInv'
<1> SUFFICES ASSUME IInv, Sort PROVE IInv'
  OBVIOUS
<1>1. todo' \in Seq(DOMAIN plan)
  <2>1. DOMAIN plan = 1..Len(plan) /\ Len(plan) \in Nat
    BY PlanType DEF IInv, TypeOK
  <2>2. todo' \in [1..Len(plan) -> 1..Len(plan)]
    BY DEF Sort
  <2> QED BY <2>1, <2>2
<1>2. TypeOK'
  BY <1>1 DEF Sort, IInv, TypeOK
<1> QED BY <1>2 DEF Sort, IInv, Layout, CopiedExactly, After, Shift, Until

LEMMA InText == ASSUME NEW a \in Nat, NEW size \in Nat, NEW k \in a + 1 .. a + size
                PROVE  k \in 1..a + size /\ ~(k <= a) /\ k - a \in 1..size
OBVIOUS

LEMMA ApplyInv == IInv /\ Apply => IInv' /\ (Placed => Placed')
<1> SUFFICES ASSUME IInv, Apply PROVE IInv' /\ (Placed => Placed')
  OBVIOUS
<1> DEFINE i == Head(todo)
           p == plan[i]
           copy == Copied(cursor, p.start)
           kept == out \o copy
           m == Lying(p, Len(kept))
<1>1. i \in DOMAIN plan /\ Tail(todo) \in Seq(DOMAIN plan)
  BY HeadTailProperties DEF Apply, IInv, TypeOK
<1>2. /\ out' = kept \o Text(plan, i) /\ applied' = Append(applied, m)
      /\ cursor' = p.end /\ todo' = Tail(todo) /\ plan' = plan
      /\ state' = state /\ state = "open" /\ Sound(p) /\ ~Overlaps(p)
  BY DEF Apply
<1>3. /\ p.start \in Nat /\ p.end \in Nat /\ p.size \in Nat
      /\ p.start <= p.end /\ p.end <= Size /\ cursor <= p.start
      /\ cursor \in 0..Size /\ Size \in Nat
  <2>1. p.start \in Nat /\ p.end \in Nat /\ p.size \in Nat
    BY <1>1, PatchType DEF IInv, TypeOK
  <2>2. cursor \in 0..Size /\ Size \in Nat
    BY SizeAssumption DEF IInv, TypeOK
  <2>3. ~(p.start > p.end) /\ ~(p.end > Size) /\ ~(p.start < cursor)
    BY <1>2 DEF Sound, Outside, Overlaps
  <2> HIDE DEF p
  <2> QED BY <2>1, <2>2, <2>3
<1>4. /\ copy \in Seq(Byte) /\ Len(copy) = p.start - cursor
      /\ \A k \in 1..p.start - cursor : copy[k] = [from |-> 0, at |-> cursor + k]
  <2>1. p.start \in cursor..Size
    BY <1>3
  <2> QED BY <1>3, <2>1, CopiedType
<1>5. /\ Text(plan, i) \in Seq(Byte) /\ Len(Text(plan, i)) = p.size
      /\ \A k \in 1..p.size : Text(plan, i)[k].from = i
  BY <1>1, TextType DEF IInv, TypeOK
<1>6. /\ out \in Seq(Byte) /\ Len(out) \in Nat
      /\ applied \in Seq(Mapping) /\ Len(applied) \in Nat
  BY DEF IInv, TypeOK, Mapping
<1>9. PICK N \in Nat : N = Len(applied)
  BY <1>6
<1>7. m = [outStart |-> Len(kept), outEnd |-> Len(kept) + p.size,
           srcStart |-> p.start, srcEnd |-> p.end]
  BY DEF Lying
<1>8. kept = out \o copy
  OBVIOUS
<1> HIDE DEF i, p, copy, kept, m
<1>10. /\ kept \in Seq(Byte) /\ Len(kept) = Len(out) + (p.start - cursor) /\ Len(kept) \in Nat
       /\ Len(out) <= Len(kept)
  <2>1. kept \in Seq(Byte) /\ Len(kept) = Len(out) + Len(copy)
    BY <1>4, <1>6, <1>8, ConcatProperties
  <2> QED BY <1>3, <1>4, <1>6, <2>1
<1>11. \A k \in 1..Len(kept) :
          kept[k] = IF k <= Len(out) THEN out[k] ELSE [from |-> 0, at |-> cursor + (k - Len(out))]
  <2>1. \A k \in 1..Len(out) + Len(copy) :
           kept[k] = IF k <= Len(out) THEN out[k] ELSE copy[k - Len(out)]
    BY <1>4, <1>6, <1>8, ConcatProperties
  <2>2. ASSUME NEW k \in 1..Len(kept), ~(k <= Len(out))
        PROVE  copy[k - Len(out)] = [from |-> 0, at |-> cursor + (k - Len(out))]
    <3>1. k - Len(out) \in 1..p.start - cursor
      BY <1>3, <1>6, <1>10, <2>2
    <3> QED BY <1>4, <3>1
  <2>3. Len(kept) = Len(out) + Len(copy)
    BY <1>4, <1>10
  <2> QED BY <2>1, <2>2, <2>3
<1>12. /\ out' \in Seq(Byte) /\ Len(out') = Len(kept) + p.size /\ Len(out') \in Nat
       /\ Len(kept) <= Len(out')
  <2>1. out' \in Seq(Byte) /\ Len(out') = Len(kept) + Len(Text(plan, i))
    BY <1>2, <1>5, <1>10, ConcatProperties
  <2> QED BY <1>3, <1>5, <1>10, <2>1
<1>13. \A k \in 1..Len(kept) : out'[k] = kept[k]
  <2>1. \A k \in 1..Len(kept) + Len(Text(plan, i)) :
           out'[k] = IF k <= Len(kept) THEN kept[k] ELSE Text(plan, i)[k - Len(kept)]
    BY <1>2, <1>5, <1>10, ConcatProperties
  <2>2. ASSUME NEW k \in 1..Len(kept) PROVE k \in 1..Len(kept) + Len(Text(plan, i)) /\ k <= Len(kept)
    BY <1>3, <1>5, <1>10
  <2> QED BY <2>1, <2>2
<1>14. /\ m \in Mapping /\ m.outStart = Len(kept) /\ m.outEnd = Len(out')
       /\ m.srcStart = p.start /\ m.srcEnd = p.end
  BY <1>3, <1>7, <1>10, <1>12 DEF Mapping
<1>15. /\ applied' \in Seq(Mapping) /\ Len(applied') = N + 1
       /\ applied'[N+1] = m /\ \A n \in 1..N : applied'[n] = applied[n]
  BY <1>2, <1>6, <1>9, <1>14
<1>16. TypeOK'
  <2>1. cursor' \in 0..Size
    BY <1>2, <1>3
  <2>2. IsPlan(plan') /\ todo' \in Seq(DOMAIN plan') /\ state' \in {"unsorted", "open", "done", "refused"}
    BY <1>1, <1>2 DEF IInv, TypeOK
  <2> QED BY <1>12, <1>15, <2>1, <2>2 DEF TypeOK, Mapping
<1>17. Len(out) = After(N) /\ cursor = After(N) - Shift(N)
  BY <1>2, <1>9 DEF IInv, Layout
<1>18. \A n \in 0..N : After(n)' = After(n) /\ Shift(n)' = Shift(n)
  <2> SUFFICES ASSUME NEW n \in 0..N PROVE After(n)' = After(n) /\ Shift(n)' = Shift(n)
    OBVIOUS
  <2>1. CASE n = 0
    BY <2>1 DEF After, Shift
  <2>2. CASE n \in 1..N
    BY <1>15, <2>2 DEF After, Shift
  <2> QED BY <1>6, <2>1, <2>2
<1>19. After(N+1)' = Len(out') /\ Shift(N+1)' = Len(out') - p.end
  <2>1. N + 1 # 0
    BY <1>6
  <2> QED BY <1>14, <1>15, <2>1 DEF After, Shift
<1>20. Layout'
  <2>1. ASSUME NEW n \in 1..N
        PROVE  /\ applied[n].outStart <= applied[n].outEnd
               /\ applied[n].outEnd <= Len(kept) /\ applied[n].outEnd <= Len(out')
    <3>1. /\ applied[n].outStart <= applied[n].outEnd /\ applied[n].outEnd <= Len(out)
          /\ applied[n].outEnd \in Nat
      BY <1>6, <1>9, <2>1, MappingType DEF IInv, Layout
    <3> QED BY <1>6, <1>10, <1>12, <3>1
  <2>2. ASSUME NEW n \in 1..N+1
        PROVE  applied'[n].outStart <= applied'[n].outEnd /\ applied'[n].outEnd <= Len(out')
    <3>1. CASE n = N + 1
      BY <1>12, <1>14, <1>15, <3>1
    <3>2. CASE n \in 1..N
      BY <1>15, <2>1, <3>2
    <3> QED BY <1>6, <3>1, <3>2
  <2>3. ASSUME NEW a \in 1..N+1, NEW b \in 1..N+1, a < b
        PROVE  applied'[a].outEnd <= applied'[b].outStart
    <3>1. a \in 1..N
      BY <1>6, <2>3
    <3>2. CASE b = N + 1
      BY <1>14, <1>15, <2>1, <3>1, <3>2
    <3>3. CASE b \in 1..N
      <4>1. applied[a].outEnd <= applied[b].outStart
        BY <1>9, <2>3, <3>1, <3>3 DEF IInv, Layout
      <4> QED BY <1>15, <3>1, <3>3, <4>1
    <3> QED BY <1>6, <3>2, <3>3
  <2>4. Len(out') = After(N+1)' /\ cursor' = After(N+1)' - Shift(N+1)'
    <3>1. p.end = Len(out') - (Len(out') - p.end)
      BY <1>3, <1>12
    <3> QED BY <1>2, <1>19, <3>1
  <2>5. After(Len(applied))' = After(N+1)' /\ Shift(Len(applied))' = Shift(N+1)'
    BY <1>15 DEF After, Shift
  <2> QED BY <1>15, <2>2, <2>3, <2>4, <2>5 DEF Layout
<1>21. CopiedExactly'
  <2> SUFFICES ASSUME NEW n \in 0..N+1, NEW k \in After(n)'+1 .. Until(n)'
               PROVE  out'[k] = [from |-> 0, at |-> k - Shift(n)']
    BY <1>15 DEF CopiedExactly, After, Until, Shift
  <2>1. CASE n = N + 1
    <3>1. Until(n)' = Len(out')
      BY <1>15, <2>1 DEF Until
    <3>2. After(n)' = Len(out')
      BY <1>19, <2>1
    <3> QED BY <1>12, <3>1, <3>2
  <2>2. CASE n = N
    <3>1. Until(n)' = Len(kept)
      <4>1. n # N + 1
        BY <1>6, <2>2
      <4> QED BY <1>14, <1>15, <2>2, <4>1 DEF Until
    <3>2. After(n)' = Len(out) /\ Shift(n)' = Len(out) - cursor
      <4>1. After(n)' = After(N) /\ Shift(n)' = Shift(N) /\ After(N) \in Nat /\ Shift(N) \in Int
        BY <1>6, <1>9, <1>18, <2>2, GapType
      <4> QED BY <1>3, <1>17, <4>1
    <3>3. k \in 1..Len(kept) /\ ~(k <= Len(out)) /\ k \in Int
      BY <1>6, <1>10, <3>1, <3>2
    <3>4. out'[k] = [from |-> 0, at |-> cursor + (k - Len(out))]
      BY <1>11, <1>13, <3>3
    <3>5. cursor + (k - Len(out)) = k - (Len(out) - cursor)
      BY <1>3, <1>6, <3>3
    <3> QED BY <3>2, <3>4, <3>5
  <2>3. CASE n \in 0..N-1
    <3>1. n \in 0..N /\ n + 1 \in 1..N /\ n # N /\ n # N + 1
      BY <1>6, <2>3
    <3>2. Until(n)' = Until(n) /\ Until(n) = applied[n+1].outStart
      BY <1>9, <1>15, <3>1 DEF Until
    <3>3. applied[n+1].outStart <= Len(out) /\ applied[n+1].outStart \in Nat
      <4>1. /\ applied[n+1].outStart <= applied[n+1].outEnd
            /\ applied[n+1].outEnd <= Len(out)
        BY <1>9, <3>1 DEF IInv, Layout
      <4>2. applied[n+1].outStart \in Nat /\ applied[n+1].outEnd \in Nat
        BY <1>6, <1>9, <3>1, MappingType
      <4> QED BY <1>6, <4>1, <4>2
    <3>4. After(n) \in Nat
      BY <1>6, <1>9, <3>1, GapType
    <3>5. k \in After(n)+1 .. Until(n)
      BY <1>18, <3>1, <3>2
    <3>6. k \in 1..Len(out) /\ k \in 1..Len(kept)
      BY <1>6, <1>10, <3>2, <3>3, <3>4, <3>5
    <3>7. out[k] = [from |-> 0, at |-> k - Shift(n)]
      BY <1>9, <3>1, <3>5 DEF IInv, CopiedExactly
    <3>8. out'[k] = out[k]
      <4>1. k <= Len(out)
        BY <3>6
      <4>2. kept[k] = out[k]
        BY <1>11, <3>6, <4>1
      <4> QED BY <1>13, <3>6, <4>2
    <3> QED BY <1>18, <3>1, <3>7, <3>8
  <2> QED BY <1>6, <2>1, <2>2, <2>3
<1>22. ASSUME Placed PROVE Placed'
  <2> SUFFICES ASSUME NEW n \in 1..N+1
               PROVE  /\ applied'[n].srcStart = applied'[n].outStart - Shift(n - 1)'
                      /\ \E j \in DOMAIN plan' : TextLies(applied[n], j)'
    BY <1>15 DEF Placed, TextLies
  <2>1. n - 1 \in 0..N /\ Shift(n - 1)' = Shift(n - 1)
    BY <1>18
  <2>2. CASE n = N + 1
    <3>1. Shift(n - 1)' = Shift(N)
      BY <2>1, <2>2
    <3>2. Len(kept) - Shift(N) = p.start
      <4>1. After(N) \in Nat /\ Shift(N) \in Int
        BY <1>6, <1>9, GapType
      <4> QED BY <1>3, <1>10, <1>17, <4>1
    <3>3. ASSUME NEW k \in Len(kept) + 1 .. Len(out') PROVE out'[k].from = i
      <4>1. /\ k \in 1..Len(kept) + Len(Text(plan, i)) /\ ~(k <= Len(kept))
            /\ k - Len(kept) \in 1..p.size
        BY <1>3, <1>5, <1>10, <1>12, InText
      <4>2. out'[k] = Text(plan, i)[k - Len(kept)]
        BY <1>2, <1>5, <1>10, <4>1, ConcatProperties
      <4> QED BY <1>5, <4>1, <4>2
    <3>5. PICK j \in DOMAIN plan : j = i
      BY <1>1
    <3>4. TextLies(applied[n], j)'
      <4>1. applied'[n] = m /\ plan'[j] = p
        BY <1>2, <1>15, <2>2, <3>5 DEF p
      <4>2. m.outEnd = m.outStart + p.size /\ m.srcStart <= m.srcEnd
        BY <1>3, <1>12, <1>14
      <4> QED BY <1>14, <3>3, <3>5, <4>1, <4>2 DEF TextLies
    <3> QED BY <1>2, <1>14, <1>15, <2>2, <3>1, <3>2, <3>4
  <2>3. CASE n \in 1..N
    <3>1. applied'[n] = applied[n] /\ applied[n].srcStart = applied[n].outStart - Shift(n - 1)
      BY <1>9, <1>15, <1>22, <2>3 DEF Placed
    <3>2. PICK j \in DOMAIN plan : TextLies(applied[n], j)
      BY <1>9, <1>22, <2>3 DEF Placed
    <3>3. ASSUME NEW k \in applied[n].outStart + 1 .. applied[n].outEnd PROVE out'[k] = out[k]
      <4>1. /\ applied[n].outEnd <= Len(out) /\ applied[n].outStart \in Nat
            /\ applied[n].outEnd \in Nat
        BY <1>6, <1>9, <2>3, MappingType DEF IInv, Layout
      <4>2. k \in 1..Len(kept) /\ k <= Len(out)
        BY <1>6, <1>10, <4>1
      <4> QED BY <1>11, <1>13, <4>2
    <3>4. TextLies(applied[n], j)'
      BY <1>2, <3>1, <3>2, <3>3 DEF TextLies
    <3> QED BY <1>2, <2>1, <3>1, <3>2, <3>4
  <2> QED BY <1>6, <2>2, <2>3
<1> QED BY <1>16, <1>20, <1>21, <1>22 DEF IInv

LEMMA RejectInv == IInv /\ Reject => IInv'
BY DEF Reject, IInv, TypeOK, Layout, CopiedExactly, After, Shift, Until

\* the rest of the source is the last gap
LEMMA FinishInv == IInv /\ Finish => IInv' /\ (Placed => Placed')
<1> SUFFICES ASSUME IInv, Finish PROVE IInv' /\ (Placed => Placed')
  OBVIOUS
<1> DEFINE copy == Copied(cursor, Size)
<1>1. /\ out' = out \o copy /\ cursor' = Size /\ state' = "done" /\ state = "open"
      /\ plan' = plan /\ todo' = todo /\ applied' = applied
  BY DEF Finish
<1>2. cursor \in 0..Size /\ Size \in Nat /\ Size \in cursor..Size
  BY SizeAssumption DEF IInv, TypeOK
<1>3. /\ copy \in Seq(Byte) /\ Len(copy) = Size - cursor
      /\ \A k \in 1..Size - cursor : copy[k] = [from |-> 0, at |-> cursor + k]
  BY <1>2, CopiedType
<1>4. /\ out \in Seq(Byte) /\ Len(out) \in Nat
      /\ applied \in Seq(Mapping) /\ Len(applied) \in Nat
  BY DEF IInv, TypeOK, Mapping
<1>5. PICK N \in Nat : N = Len(applied)
  BY <1>4
<1> HIDE DEF copy
<1>6. /\ out' \in Seq(Byte) /\ Len(out') = Len(out) + (Size - cursor)
      /\ \A k \in 1..Len(out') : out'[k] = IF k <= Len(out) THEN out[k] ELSE copy[k - Len(out)]
  <2>1. /\ out' \in Seq(Byte) /\ Len(out') = Len(out) + Len(copy)
        /\ \A k \in 1..Len(out) + Len(copy) :
              out'[k] = IF k <= Len(out) THEN out[k] ELSE copy[k - Len(out)]
    BY <1>1, <1>3, <1>4, ConcatProperties
  <2> QED BY <1>3, <2>1
<1>7. Len(out) <= Len(out') /\ Len(out') \in Nat
  BY <1>2, <1>4, <1>6
<1>8. \A n \in 0..N : After(n)' = After(n) /\ Shift(n)' = Shift(n)
  BY <1>1 DEF After, Shift
<1>9. Len(out) = After(N) /\ cursor = After(N) - Shift(N)
  BY <1>1, <1>5 DEF IInv, Layout
<1>10. TypeOK'
  BY <1>1, <1>2, <1>6 DEF IInv, TypeOK
<1>11. Layout'
  <2>1. ASSUME NEW n \in 1..N
        PROVE  applied[n].outStart <= applied[n].outEnd /\ applied[n].outEnd <= Len(out')
    <3>1. /\ applied[n].outStart <= applied[n].outEnd /\ applied[n].outEnd <= Len(out)
          /\ applied[n].outEnd \in Nat
      BY <1>4, <1>5, <2>1, MappingType DEF IInv, Layout
    <3> QED BY <1>4, <1>7, <3>1
  <2> QED BY <1>1, <1>5, <2>1 DEF IInv, Layout
<1>12. CopiedExactly'
  <2> SUFFICES ASSUME NEW n \in 0..N, NEW k \in After(n)'+1 .. Until(n)'
               PROVE  out'[k] = [from |-> 0, at |-> k - Shift(n)']
    BY <1>1, <1>5 DEF CopiedExactly, After, Until, Shift
  <2>1. /\ After(n)' = After(n) /\ Shift(n)' = Shift(n) /\ After(n) \in Nat /\ Shift(n) \in Int
    BY <1>4, <1>5, <1>8, GapType
  <2>2. CASE n = N
    <3>1. Until(n)' = Len(out')
      BY <1>1, <1>5, <2>2 DEF Until
    <3>2. After(n) = Len(out) /\ Shift(n) = Len(out) - cursor
      BY <1>2, <1>9, <2>1, <2>2
    <3>3. k \in 1..Len(out') /\ ~(k <= Len(out)) /\ k \in Int /\ k - Len(out) \in 1..Size - cursor
      BY <1>2, <1>4, <1>6, <1>7, <2>1, <3>1, <3>2
    <3>4. out'[k] = [from |-> 0, at |-> cursor + (k - Len(out))]
      BY <1>3, <1>6, <3>3
    <3>5. cursor + (k - Len(out)) = k - (Len(out) - cursor)
      BY <1>2, <1>4, <3>3
    <3> QED BY <2>1, <3>2, <3>4, <3>5
  <2>3. CASE n # N
    <3>1. n + 1 \in 1..N /\ n \in 0..N
      BY <1>5, <2>3
    <3>2. Until(n)' = Until(n) /\ Until(n) = applied[n+1].outStart
      BY <1>1, <1>5, <2>3 DEF Until
    <3>3. applied[n+1].outStart <= Len(out) /\ applied[n+1].outStart \in Nat
      <4>1. /\ applied[n+1].outStart <= applied[n+1].outEnd
            /\ applied[n+1].outEnd <= Len(out)
        BY <1>5, <3>1 DEF IInv, Layout
      <4>2. applied[n+1].outStart \in Nat /\ applied[n+1].outEnd \in Nat
        BY <1>4, <1>5, <3>1, MappingType
      <4> QED BY <1>4, <4>1, <4>2
    <3>4. k \in After(n)+1 .. Until(n) /\ k <= Len(out) /\ k \in 1..Len(out')
      BY <1>4, <1>7, <2>1, <3>2, <3>3
    <3>5. out[k] = [from |-> 0, at |-> k - Shift(n)]
      BY <1>5, <3>1, <3>4 DEF IInv, CopiedExactly
    <3> QED BY <1>6, <2>1, <3>4, <3>5
  <2> QED BY <2>2, <2>3
<1>13. ASSUME Placed PROVE Placed'
  <2> SUFFICES ASSUME NEW n \in 1..N
               PROVE  /\ applied'[n].srcStart = applied'[n].outStart - Shift(n - 1)'
                      /\ \E j \in DOMAIN plan' : TextLies(applied[n], j)'
    BY <1>1, <1>5 DEF Placed, TextLies
  <2>1. /\ Shift(n - 1)' = Shift(n - 1) /\ applied'[n] = applied[n]
        /\ applied[n].srcStart = applied[n].outStart - Shift(n - 1)
    BY <1>1, <1>5, <1>8, <1>13 DEF Placed
  <2>2. PICK j \in DOMAIN plan : TextLies(applied[n], j)
    BY <1>5, <1>13 DEF Placed
  <2>3. ASSUME NEW k \in applied[n].outStart + 1 .. applied[n].outEnd PROVE out'[k] = out[k]
    <3>1. /\ applied[n].outEnd <= Len(out) /\ applied[n].outStart \in Nat
          /\ applied[n].outEnd \in Nat
      BY <1>4, <1>5, MappingType DEF IInv, Layout
    <3>2. k \in 1..Len(out') /\ k <= Len(out)
      BY <1>4, <1>7, <3>1
    <3> QED BY <1>6, <3>2
  <2>4. TextLies(applied[n], j)'
    BY <1>1, <2>1, <2>2, <2>3 DEF TextLies
  <2> QED BY <1>1, <2>1, <2>2, <2>4
<1> QED BY <1>10, <1>11, <1>12, <1>13 DEF IInv

\* IInv is inductive.
LEMMA Inductive == Spec => []IInv
<1>1. Init => IInv
  BY InitInv
<1>2. IInv /\ [Next]_vars => IInv'
  <2>1. IInv /\ Next => IInv'
    BY SortInv, ApplyInv, RejectInv, FinishInv DEF Next
  <2>2. IInv /\ UNCHANGED vars => IInv'
    BY DEF vars, IInv, TypeOK, Layout, CopiedExactly, After, Shift, Until
  <2> QED BY <2>1, <2>2
<1> QED BY <1>1, <1>2, PTL DEF Spec

\* and so is Placed, given it.
LEMMA AllPlaced == Spec => []Placed
<1>1. Init => Placed
  BY DEF Init, Placed
<1>2. IInv /\ Placed /\ [Next]_vars => Placed'
  <2>1. ASSUME Placed, UNCHANGED <<plan, applied, out>> PROVE Placed'
    BY <2>1 DEF Placed, TextLies, Shift
  <2>2. Sort \/ Reject \/ UNCHANGED vars => UNCHANGED <<plan, applied, out>>
    BY DEF Sort, Reject, vars
  <2> QED BY <2>1, <2>2, ApplyInv, FinishInv DEF Next
<1> QED BY <1>1, <1>2, Inductive, PTL DEF Spec

\* Every variable holds what the splicer may put there.
THEOREM SpliceTypeCorrect == Spec => []TypeOK
<1>1. IInv => TypeOK
  BY DEF IInv
<1> QED BY <1>1, Inductive, PTL

\* What lies between the patches is the author's text, byte for byte, for
\* every text and every plan.
THEOREM SpliceCopies == Spec => []CopiedExactly
<1>1. IInv => CopiedExactly
  BY DEF IInv
<1> QED BY <1>1, Inductive, PTL

-----------------------------------------------------------------------------
(***************************************************************************)
(* The way back.                                                           *)
(***************************************************************************)

\* A position in a gap is mapped back to the byte that was copied there,
\* unless a mapping claims it.
GapsTraced ==
    \A n \in 0..Len(applied) : \A at \in After(n) .. Until(n)-1 :
        LET r == RemapRange(at, at + 1)
        IN ~r.inside => out[at+1] = [from |-> 0, at |-> r.start + 1]

LEMMA GapDelta ==
    ASSUME IInv, NEW n \in 0..Len(applied), NEW at \in After(n) .. Until(n)-1
    PROVE  Delta(at) = Shift(n)
<1>1. /\ applied \in Seq(Mapping) /\ Len(applied) \in Nat /\ DOMAIN applied = 1..Len(applied)
      /\ After(n) \in Nat /\ Shift(n) \in Int /\ Until(n) \in Nat /\ at \in Nat /\ n \in Nat
  <2>1. applied \in Seq(Mapping) /\ Len(applied) \in Nat /\ Len(out) \in Nat
    BY DEF IInv, TypeOK, Mapping
  <2>2. After(n) \in Nat /\ Shift(n) \in Int
    BY <2>1, GapType
  <2>3. Until(n) \in Nat
    BY <2>1, UntilType DEF IInv, TypeOK
  <2> QED BY <2>1, <2>2, <2>3
<1>2. Passed(at) = 1..n
  <2>1. ASSUME NEW k \in 1..n PROVE applied[k].outEnd <= at
    <3>1. k \in 1..Len(applied) /\ n \in 1..Len(applied) /\ n # 0
      BY <1>1
    <3>2. applied[n].outEnd <= at
      BY <1>1, <3>1 DEF After
    <3>3. CASE k = n
      BY <3>2, <3>3
    <3>4. CASE k < n
      <4>1. /\ applied[k].outEnd <= applied[n].outStart
            /\ applied[n].outStart <= applied[n].outEnd
        BY <3>1, <3>4 DEF IInv, Layout
      <4>2. /\ applied[k].outEnd \in Nat /\ applied[n].outStart \in Nat
            /\ applied[n].outEnd \in Nat
        BY <1>1, <3>1, MappingType
      <4> QED BY <1>1, <3>2, <4>1, <4>2
    <3> QED BY <1>1, <3>3, <3>4
  <2>2. ASSUME n # Len(applied) PROVE n + 1 \in 1..Len(applied) /\ ~(applied[n+1].outEnd <= at)
    <3>1. n + 1 \in 1..Len(applied)
      BY <1>1, <2>2, NextIndex
    <3>2. at < applied[n+1].outStart
      <4>1. Until(n) = applied[n+1].outStart
        BY <2>2 DEF Until
      <4> QED BY <1>1, <4>1
    <3>4. applied[n+1].outStart <= applied[n+1].outEnd
      BY <3>1 DEF IInv, Layout
    <3>3. applied[n+1].outStart \in Nat /\ applied[n+1].outEnd \in Nat
      BY <1>1, <3>1, MappingType
    <3> QED BY <1>1, <3>1, <3>2, <3>3, <3>4
  <2>3. ASSUME NEW m \in DOMAIN applied, \A k \in 1..m : applied[k].outEnd <= at
        PROVE  m \in 1..n
    <3>1. m \in 1..Len(applied)
      BY <1>1, <2>3
    <3>2. ASSUME m > n PROVE FALSE
      <4>1. m \in Nat /\ m <= Len(applied) /\ n \in Nat /\ n < m
        BY <1>1, <3>1, <3>2
      <4>2. n # Len(applied) /\ n + 1 \in 1..m
        BY <1>1, <3>1, <4>1, NotLast
      <4> QED BY <2>2, <2>3, <4>2
    <3> QED BY <1>1, <3>1, <3>2
  <2>4. ASSUME NEW m \in 1..n
        PROVE  m \in DOMAIN applied /\ \A k \in 1..m : applied[k].outEnd <= at
    <3>1. m \in 1..Len(applied) /\ \A k \in 1..m : k \in 1..n
      BY <1>1
    <3> QED BY <1>1, <2>1, <3>1
  <2> QED BY <2>3, <2>4 DEF Passed
<1>3. CASE n = 0
  <2>1. Passed(at) = {}
    BY <1>2, <1>3
  <2> QED BY <1>3, <2>1 DEF Delta, Shift
<1>4. CASE n # 0
  <2>1. n \in Passed(at) /\ \A k \in Passed(at) : k <= n
    BY <1>1, <1>2, <1>4
  <2>2. ASSUME NEW last \in Passed(at), \A k \in Passed(at) : k <= last
        PROVE  last = n
    BY <1>1, <1>2, <2>1, <2>2
  <2>3. (CHOOSE last \in Passed(at) : \A k \in Passed(at) : k <= last) = n
    BY <2>1, <2>2
  <2>4. Passed(at) # {}
    BY <2>1
  <2>5. Delta(at) = applied[CHOOSE last \in Passed(at) : \A k \in Passed(at) : k <= last].outEnd
               - applied[CHOOSE last \in Passed(at) : \A k \in Passed(at) : k <= last].srcEnd
    BY <2>4, Zenon DEF Delta
  <2>6. Delta(at) = applied[n].outEnd - applied[n].srcEnd
    BY <2>3, <2>5
  <2> QED BY <1>4, <2>6 DEF Shift
<1> QED BY <1>3, <1>4

LEMMA GapRemap ==
    ASSUME IInv, NEW n \in 0..Len(applied), NEW at \in After(n) .. Until(n)-1,
           ~RemapRange(at, at + 1).inside
    PROVE  out[at+1] = [from |-> 0, at |-> RemapRange(at, at + 1).start + 1]
<1>1. Len(applied) \in Nat /\ After(n) \in Nat /\ Shift(n) \in Int /\ at \in Nat
  <2>1. applied \in Seq(Mapping) /\ Len(applied) \in Nat
    BY DEF IInv, TypeOK, Mapping
  <2>2. After(n) \in Nat /\ Shift(n) \in Int
    BY <2>1, GapType
  <2> QED BY <2>1, <2>2
<1>2. RemapRange(at, at + 1).start = NoLess(at - Delta(at))
  <2>1. CASE \E k \in DOMAIN applied : Holds(applied[k], at)
    BY <2>1 DEF RemapRange
  <2>2. CASE ~ \E k \in DOMAIN applied : Holds(applied[k], at)
    BY <2>2 DEF RemapRange
  <2> QED BY <2>1, <2>2
<1>3. Delta(at) = Shift(n)
  BY GapDelta
<1>4. at + 1 \in After(n)+1 .. Until(n)
  <2>1. Until(n) \in Nat
    BY UntilType DEF IInv, TypeOK, Mapping
  <2> QED BY <1>1, <2>1
<1>5. out[at+1] = [from |-> 0, at |-> (at + 1) - Shift(n)]
  BY <1>4 DEF IInv, CopiedExactly
<1>6. at - Shift(n) >= 0
  <2>1. CASE n = 0
    BY <1>1, <2>1 DEF Shift
  <2>2. CASE n # 0
    <3>1. n \in 1..Len(applied) /\ applied \in Seq(Mapping)
      BY <1>1, <2>2 DEF IInv, TypeOK, Mapping
    <3>2. After(n) = applied[n].outEnd /\ Shift(n) = applied[n].outEnd - applied[n].srcEnd
      BY <2>2 DEF After, Shift
    <3>3. applied[n].outEnd \in Nat /\ applied[n].srcEnd \in Nat
      BY <3>1, MappingType
    <3> QED BY <1>1, <3>2, <3>3
  <2> QED BY <2>1, <2>2
<1>7. NoLess(at - Shift(n)) + 1 = (at + 1) - Shift(n)
  BY <1>1, <1>6 DEF NoLess, Larger
<1> QED BY <1>2, <1>3, <1>5, <1>7

\* Between the patches solc's positions are mapped back exactly, for every
\* text and every plan.
THEOREM GapsComeBack == Spec => []GapsTraced
<1>1. IInv => GapsTraced
  BY GapRemap DEF GapsTraced
<1> QED BY <1>1, Inductive, PTL

-----------------------------------------------------------------------------
(***************************************************************************)
(* Every position.                                                         *)
(***************************************************************************)

\* Only the precondition marker is deleted (pass_ops.rs:250): a deletion takes
\* bytes away, and two deletions never touch.
DeletionsApart ==
    \A p, q \in Patches : p.size = 0 /\ q.size = 0 =>
        p.start < p.end /\ (p = q \/ p.end < q.start \/ q.end < p.start)

LEMMA Lying1 ==
    ASSUME IInv
    PROVE  /\ Len(applied) \in Nat /\ DOMAIN applied = 1..Len(applied) /\ Len(out) \in Nat
           /\ \A n \in 1..Len(applied) :
                 /\ applied[n].outStart \in Nat /\ applied[n].outEnd \in Nat
                 /\ applied[n].srcStart \in Nat /\ applied[n].srcEnd \in Nat
                 /\ applied[n].outStart <= applied[n].outEnd
                 /\ applied[n].outEnd <= Len(out)
           /\ \A m, n \in 1..Len(applied) : m < n => applied[m].outEnd <= applied[n].outStart
<1>1. applied \in Seq(Mapping) /\ Len(out) \in Nat
  BY DEF IInv, TypeOK, Mapping
<1>2. Len(applied) \in Nat /\ DOMAIN applied = 1..Len(applied)
  BY <1>1
<1>3. \A n \in 1..Len(applied) :
         /\ applied[n].outStart \in Nat /\ applied[n].outEnd \in Nat
         /\ applied[n].srcStart \in Nat /\ applied[n].srcEnd \in Nat
  BY <1>1, MappingType
<1> QED BY <1>1, <1>2, <1>3 DEF IInv, Layout

\* a position is in a copied part or in the text of a patch
LEMMA Somewhere ==
    ASSUME IInv, NEW at \in 0..Len(out)-1
    PROVE  \/ \E n \in 0..Len(applied) : at \in After(n) .. Until(n)-1
           \/ \E n \in 1..Len(applied) : applied[n].outStart <= at /\ at < applied[n].outEnd
<1> DEFINE later == {n \in 1..Len(applied) : at < applied[n].outStart}
<1>1. /\ Len(applied) \in Nat /\ Len(out) \in Nat /\ at \in Nat /\ at < Len(out)
      /\ \A n \in 1..Len(applied) : applied[n].outStart \in Nat /\ applied[n].outEnd \in Nat
  BY Lying1
<1>2. PICK n \in 0..Len(applied) :
         /\ n # 0 => applied[n].outStart <= at
         /\ n # Len(applied) => at < applied[n+1].outStart
  <2>1. CASE later = {}
    <3>1. Len(applied) # 0 => applied[Len(applied)].outStart <= at
      BY <1>1, <2>1
    <3> QED BY <1>1, <3>1
  <2>2. CASE later # {}
    <3>1. later \in SUBSET Nat
      BY <1>1
    <3>2. PICK m \in later : \A k \in later : m <= k
      <4> HIDE DEF later
      <4> QED BY <2>2, <3>1, Least
    <3>3. m \in 1..Len(applied) /\ at < applied[m].outStart
      BY <3>2
    <3>4. m - 1 \in 0..Len(applied) /\ (m - 1) + 1 = m
      BY <1>1, <3>3
    <3>5. ASSUME m - 1 # 0 PROVE applied[m-1].outStart <= at
      <4>1. m - 1 \in 1..Len(applied) /\ ~(m <= m - 1)
        BY <1>1, <3>3, <3>5
      <4>2. m - 1 \notin later
        BY <3>2, <4>1
      <4> QED BY <1>1, <4>1, <4>2
    <3> QED BY <3>3, <3>4, <3>5
  <2> QED BY <2>1, <2>2
<1>3. CASE n # 0 /\ at < applied[n].outEnd
  <2>1. n \in 1..Len(applied)
    BY <1>1, <1>3
  <2> QED BY <1>2, <1>3, <2>1
<1>4. CASE ~(n # 0 /\ at < applied[n].outEnd)
  <2>1. After(n) <= at /\ After(n) \in Nat
    <3>1. CASE n = 0
      BY <1>1, <3>1 DEF After
    <3>2. CASE n # 0
      <4>1. n \in 1..Len(applied)
        BY <1>1, <3>2
      <4> QED BY <1>1, <1>4, <3>2, <4>1 DEF After
    <3> QED BY <3>1, <3>2
  <2>2. at < Until(n) /\ Until(n) \in Nat
    <3>1. CASE n = Len(applied)
      BY <1>1, <3>1 DEF Until
    <3>2. CASE n # Len(applied)
      <4>1. n + 1 \in 1..Len(applied)
        BY <1>1, <3>2, NextIndex
      <4> QED BY <1>1, <1>2, <3>2, <4>1 DEF Until
    <3> QED BY <3>1, <3>2
  <2>3. at \in After(n) .. Until(n)-1
    BY <1>1, <2>1, <2>2
  <2> QED BY <2>3
<1> QED BY <1>3, <1>4

LEMMA FirstHeld ==
    ASSUME IInv, NEW at \in Nat, NEW n \in 1..Len(applied), Holds(applied[n], at)
    PROVE  /\ FirstHolding(at) \in 1..n /\ Holds(applied[FirstHolding(at)], at)
           /\ RemapRange(at, at + 1) = [start |-> applied[FirstHolding(at)].srcStart,
                                        end |-> applied[FirstHolding(at)].srcEnd,
                                        inside |-> TRUE]
<1> DEFINE held == {k \in 1..Len(applied) : Holds(applied[k], at)}
<1>1. Len(applied) \in Nat /\ DOMAIN applied = 1..Len(applied)
  BY Lying1
<1>2. PICK f \in held : \A k \in held : f <= k
  <2>1. held \in SUBSET Nat /\ held # {}
    BY <1>1
  <2> HIDE DEF held
  <2> QED BY <2>1, Least
<1>3. f \in 1..Len(applied) /\ Holds(applied[f], at)
  BY <1>2
<1>4. \A k \in 1..f-1 : ~Holds(applied[k], at)
  <2> SUFFICES ASSUME NEW k \in 1..f-1, Holds(applied[k], at) PROVE FALSE
    OBVIOUS
  <2>1. k \in 1..Len(applied) /\ ~(f <= k)
    BY <1>1, <1>3
  <2> QED BY <1>2, <2>1
<1>5. f \in DOMAIN applied
  BY <1>1, <1>3
<1> HIDE DEF held
<1>6. /\ FirstHolding(at) \in DOMAIN applied /\ Holds(applied[FirstHolding(at)], at)
      /\ \A k \in 1..FirstHolding(at)-1 : ~Holds(applied[k], at)
  BY <1>3, <1>4, <1>5, Zenon DEF FirstHolding
<1>7. FirstHolding(at) \in 1..n
  <2>1. FirstHolding(at) \in 1..Len(applied)
    BY <1>1, <1>6
  <2>2. ASSUME n < FirstHolding(at) PROVE FALSE
    <3>1. n \in 1..FirstHolding(at)-1
      BY <1>1, <2>1, <2>2
    <3> QED BY <1>6, <3>1
  <2> QED BY <1>1, <2>1, <2>2
<1>8. \E k \in DOMAIN applied : Holds(applied[k], at)
  BY <1>1
<1>9. RemapRange(at, at + 1) = [start |-> applied[FirstHolding(at)].srcStart,
                                end |-> applied[FirstHolding(at)].srcEnd,
                                inside |-> TRUE]
  BY <1>8, Zenon DEF RemapRange
<1> QED BY <1>6, <1>7, <1>9

\* a mapping that ends where it still holds is a deletion
LEMMA EmptyHolds ==
    ASSUME IInv, NEW at \in Nat, NEW f \in 1..Len(applied), Holds(applied[f], at),
           applied[f].outEnd <= at
    PROVE  applied[f].outStart = at /\ applied[f].outEnd = at
<1>1. /\ applied[f].outStart \in Nat /\ applied[f].outEnd \in Nat
      /\ applied[f].outStart <= applied[f].outEnd
  BY Lying1
<1>2. applied[f].outStart <= at /\ at < Larger(applied[f].outEnd, applied[f].outStart + 1)
  BY DEF Holds
<1> QED BY <1>1, <1>2 DEF Larger

LEMMA PatchOf ==
    ASSUME IInv, Placed, NEW n \in 1..Len(applied)
    PROVE  \E i \in DOMAIN plan :
              /\ TextLies(applied[n], i) /\ plan[i] \in Patches
              /\ i # 0 /\ plan[i].start \in Nat /\ plan[i].end \in Nat /\ plan[i].size \in Nat
<1>1. PICK i \in DOMAIN plan : TextLies(applied[n], i)
  BY DEF Placed
<1>2. IsPlan(plan)
  BY DEF IInv, TypeOK
<1>3. plan[i] \in Patches
  BY <1>2 DEF IsPlan
<1>4. i # 0
  <2>1. DOMAIN plan = 1..Len(plan) /\ Len(plan) \in Nat
    BY <1>2, PlanType
  <2> QED BY <2>1
<1> QED BY <1>1, <1>2, <1>3, <1>4, PatchType DEF TextLies

LEMMA NotTouching ==
    ASSUME IInv, Placed, DeletionsApart, NEW f \in 1..Len(applied), f + 1 \in 1..Len(applied),
           NEW at, applied[f].outStart = at, applied[f].outEnd = at,
           applied[f+1].outStart = at, applied[f+1].outEnd = at
    PROVE  FALSE
<1>1. PICK i \in DOMAIN plan :
         /\ TextLies(applied[f], i) /\ plan[i] \in Patches
         /\ plan[i].start \in Nat /\ plan[i].end \in Nat /\ plan[i].size \in Nat
  BY PatchOf
<1>2. PICK j \in DOMAIN plan :
         /\ TextLies(applied[f+1], j) /\ plan[j] \in Patches
         /\ plan[j].start \in Nat /\ plan[j].end \in Nat /\ plan[j].size \in Nat
  BY PatchOf
<1>3. at \in Nat /\ applied[f].srcEnd \in Nat /\ f \in Nat
  BY Lying1
<1>4. plan[i].size = 0 /\ plan[j].size = 0
  <2>1. at = at + plan[i].size /\ at = at + plan[j].size
    BY <1>1, <1>2 DEF TextLies
  <2> QED BY <1>1, <1>2, <1>3, <2>1
<1>5. applied[f+1].srcStart = applied[f].srcEnd
  <2>1. applied[f+1].srcStart = at - Shift((f + 1) - 1)
    BY DEF Placed
  <2>2. (f + 1) - 1 = f /\ f # 0
    BY <1>3
  <2> QED BY <1>3, <2>1, <2>2 DEF Shift
<1>6. plan[j].start = plan[i].end
  BY <1>1, <1>2, <1>5 DEF TextLies
<1>7. /\ plan[i].start < plan[i].end /\ plan[j].start < plan[j].end
      /\ plan[i] = plan[j] \/ plan[i].end < plan[j].start \/ plan[j].end < plan[i].start
  BY <1>1, <1>2, <1>4 DEF DeletionsApart
<1> QED BY <1>1, <1>2, <1>6, <1>7

\* a mapping that holds a position it does not cover is the deletion just before
LEMMA JustBefore ==
    ASSUME IInv, Placed, DeletionsApart, NEW at \in Nat, NEW f \in 1..Len(applied),
           Holds(applied[f], at), NEW n \in f..Len(applied),
           \A k \in f..n : applied[k].outEnd <= at
    PROVE  n = f
<1> SUFFICES ASSUME n # f PROVE FALSE
  OBVIOUS
<1>1. Len(applied) \in Nat
  BY Lying1
<1>2. /\ f + 1 \in 1..Len(applied) /\ f + 1 \in f..n /\ f \in f..n /\ f < f + 1
  BY <1>1
<1>3. applied[f].outStart = at /\ applied[f].outEnd = at
  BY <1>2, EmptyHolds
<1>4. applied[f+1].outStart = at /\ applied[f+1].outEnd = at
  <2>1. /\ applied[f+1].outStart \in Nat /\ applied[f+1].outEnd \in Nat
        /\ applied[f+1].outStart <= applied[f+1].outEnd
        /\ applied[f].outEnd <= applied[f+1].outStart
    BY <1>2, Lying1
  <2>2. applied[f+1].outEnd <= at
    BY <1>2
  <2> QED BY <1>3, <2>1, <2>2
<1> QED BY <1>2, <1>3, <1>4, NotTouching

LEMMA DeletionSpan ==
    ASSUME IInv, Placed, DeletionsApart, NEW f \in 1..Len(applied),
           applied[f].outStart = applied[f].outEnd
    PROVE  applied[f].srcStart < applied[f].srcEnd /\ ~NothingDeleted
<1>1. PICK i \in DOMAIN plan :
         /\ TextLies(applied[f], i) /\ plan[i] \in Patches
         /\ plan[i].start \in Nat /\ plan[i].end \in Nat /\ plan[i].size \in Nat
  BY PatchOf
<1>2. plan[i].size = 0
  <2>1. applied[f].outEnd = applied[f].outStart + plan[i].size /\ applied[f].outStart \in Nat
    BY <1>1, Lying1 DEF TextLies
  <2> QED BY <1>1, <2>1
<1>3. plan[i].start < plan[i].end
  BY <1>1, <1>2 DEF DeletionsApart
<1>4. applied[f].srcStart = plan[i].start /\ applied[f].srcEnd = plan[i].end
  BY <1>1 DEF TextLies
<1> QED BY <1>1, <1>2, <1>3, <1>4 DEF NothingDeleted

\* what TracedToSource says of one position
Traced(at) ==
    LET b == out[at+1]  r == RemapRange(at, at + 1)
    IN /\ ~r.inside => /\ b.from = 0
                       /\ r.start = Origin(b).start /\ r.end = Origin(b).end
       /\ r.inside => r.start <= Origin(b).start /\ Origin(b).start <= r.end
       /\ r.inside /\ NothingDeleted =>
             /\ b.from # 0
             /\ r.start = Origin(b).start /\ r.end = Origin(b).end

\* a byte a patch generated: it is blamed, or the deletion just before it
LEMMA TracedInText ==
    ASSUME IInv, Placed, DeletionsApart, NEW at \in 0..Len(out)-1,
           NEW n \in 1..Len(applied), applied[n].outStart <= at, at < applied[n].outEnd
    PROVE  Traced(at)
<1> DEFINE f == FirstHolding(at)
           b == out[at+1]
           r == RemapRange(at, at + 1)
<1>1. /\ at \in Nat /\ Len(applied) \in Nat
      /\ applied[n].outStart \in Nat /\ applied[n].outEnd \in Nat
  BY Lying1
<1>2. Holds(applied[n], at)
  BY <1>1 DEF Holds, Larger
<1>3. /\ f \in 1..n /\ Holds(applied[f], at)
      /\ r = [start |-> applied[f].srcStart, end |-> applied[f].srcEnd, inside |-> TRUE]
  BY <1>1, <1>2, FirstHeld
<1>4. PICK i \in DOMAIN plan : TextLies(applied[n], i) /\ i # 0
  BY PatchOf
<1>5. b.from = i
  <2>1. at + 1 \in applied[n].outStart + 1 .. applied[n].outEnd
    BY <1>1
  <2> QED BY <1>4, <2>1 DEF TextLies
<1>6. Origin(b) = [start |-> applied[n].srcStart, end |-> applied[n].srcEnd]
  BY <1>4, <1>5 DEF Origin, TextLies
<1> HIDE DEF b, r, f
<1>7. CASE f = n
  <2>1. applied[n].srcStart \in Nat /\ applied[n].srcEnd \in Nat
    BY Lying1
  <2>2. applied[n].srcStart <= applied[n].srcEnd
    BY <1>4 DEF TextLies
  <2> QED BY <1>3, <1>4, <1>5, <1>6, <1>7, <2>1, <2>2 DEF Traced, b, r
<1>8. CASE f # n
  <2>1. f \in 1..Len(applied) /\ f < n /\ n - 1 \in f..Len(applied) /\ f \in Nat
        /\ n - 1 \in 1..Len(applied)
    BY <1>1, <1>3, <1>8
  <2>2. ASSUME NEW k \in f..n-1 PROVE applied[k].outEnd <= at
    <3>1. k \in 1..Len(applied) /\ k < n
      BY <1>1, <2>1
    <3>2. applied[k].outEnd <= applied[n].outStart /\ applied[k].outEnd \in Nat
      BY <3>1, Lying1
    <3> QED BY <1>1, <3>2
  <2>3. n - 1 = f
    BY <1>1, <1>3, <2>1, <2>2, JustBefore
  <2>4. applied[f].outStart = at /\ applied[f].outEnd = at
    <3>1. applied[f].outEnd <= at
      BY <2>1, <2>2
    <3> QED BY <1>1, <1>3, <2>1, <3>1, EmptyHolds
  <2>5. applied[f].srcStart < applied[f].srcEnd /\ ~NothingDeleted
    BY <2>1, <2>4, DeletionSpan
  <2>6. applied[n].srcStart = applied[f].srcEnd
    <3>1. applied[n].outStart = at
      <4>1. applied[f].outEnd <= applied[n].outStart
        BY <2>1, Lying1
      <4> QED BY <1>1, <2>4, <4>1
    <3>2. applied[n].srcStart = at - Shift(f)
      BY <2>3, <3>1 DEF Placed
    <3>3. applied[f].srcEnd \in Nat /\ f # 0
      BY <2>1, Lying1
    <3> QED BY <1>1, <2>4, <3>2, <3>3 DEF Shift
  <2>7. applied[f].srcStart \in Nat /\ applied[f].srcEnd \in Nat
    BY <2>1, Lying1
  <2> QED BY <1>3, <1>6, <2>5, <2>6, <2>7 DEF Traced, b, r
<1> QED BY <1>7, <1>8

\* a byte copied from the source: it comes back, or the deletion just before it
\* is blamed
LEMMA TracedInGap ==
    ASSUME IInv, Placed, DeletionsApart, NEW n \in 0..Len(applied),
           NEW at \in After(n) .. Until(n)-1
    PROVE  Traced(at)
<1> DEFINE b == out[at+1]
           r == RemapRange(at, at + 1)
<1>1. /\ Len(applied) \in Nat /\ After(n) \in Nat /\ Shift(n) \in Int /\ at \in Nat
      /\ After(n) <= at /\ at < Until(n) /\ Until(n) \in Nat
      /\ DOMAIN applied = 1..Len(applied)
  <2>1. applied \in Seq(Mapping) /\ Len(applied) \in Nat /\ DOMAIN applied = 1..Len(applied)
    BY DEF IInv, TypeOK, Mapping
  <2>2. After(n) \in Nat /\ Shift(n) \in Int
    BY <2>1, GapType
  <2>3. Until(n) \in Nat
    BY <2>1, UntilType DEF IInv, TypeOK
  <2> QED BY <2>1, <2>2, <2>3
<1>2. b = [from |-> 0, at |-> (at + 1) - Shift(n)]
  <2>1. at + 1 \in After(n)+1 .. Until(n)
    BY <1>1
  <2> QED BY <2>1 DEF IInv, CopiedExactly
<1>3. Origin(b) = [start |-> at - Shift(n), end |-> (at - Shift(n)) + 1] /\ b.from = 0
  <2>1. ((at + 1) - Shift(n)) - 1 = at - Shift(n) /\ (at + 1) - Shift(n) = (at - Shift(n)) + 1
    BY <1>1
  <2> QED BY <1>2, <2>1 DEF Origin
<1>4. at - Shift(n) >= 0
  <2>1. CASE n = 0
    BY <1>1, <2>1 DEF Shift
  <2>2. CASE n # 0
    <3>1. n \in 1..Len(applied)
      BY <1>1, <2>2
    <3>2. After(n) = applied[n].outEnd /\ Shift(n) = applied[n].outEnd - applied[n].srcEnd
      BY <2>2 DEF After, Shift
    <3>3. applied[n].outEnd \in Nat /\ applied[n].srcEnd \in Nat
      BY <3>1, Lying1
    <3> QED BY <1>1, <3>2, <3>3
  <2> QED BY <2>1, <2>2
<1> HIDE DEF b, r
<1>5. CASE \A k \in 1..Len(applied) : ~Holds(applied[k], at)
  <2>1. r = [start |-> NoLess(at - Delta(at)), end |-> NoLess((at + 1) - Delta(at)),
             inside |-> FALSE]
    BY <1>1, <1>5 DEF RemapRange, r
  <2>2. Delta(at) = Shift(n)
    BY GapDelta
  <2>3. NoLess(at - Shift(n)) = at - Shift(n)
        /\ NoLess((at + 1) - Shift(n)) = (at - Shift(n)) + 1
    BY <1>1, <1>4 DEF NoLess, Larger
  <2>4. ~r.inside /\ r.start = Origin(b).start /\ r.end = Origin(b).end /\ b.from = 0
    BY <1>3, <2>1, <2>2, <2>3
  <2> QED BY <2>4 DEF Traced, b, r
<1>6. CASE \E k \in 1..Len(applied) : Holds(applied[k], at)
  <2> DEFINE f == FirstHolding(at)
  <2>1. PICK k \in 1..Len(applied) : Holds(applied[k], at)
    BY <1>6
  <2>2. /\ f \in 1..k /\ Holds(applied[f], at)
        /\ r = [start |-> applied[f].srcStart, end |-> applied[f].srcEnd, inside |-> TRUE]
    BY <1>1, <2>1, FirstHeld DEF r
  <2>3. f \in 1..Len(applied) /\ f \in Nat
    BY <1>1, <2>2
  <2> HIDE DEF f
  <2>4. f <= n
    <3> SUFFICES ASSUME n < f PROVE FALSE
      BY <1>1, <2>3
    <3>1. n # Len(applied) /\ n + 1 \in 1..Len(applied)
      <4>1. n \in Nat
        BY <1>1
      <4>2. n # Len(applied) /\ n + 1 \in 1..f
        BY <1>1, <2>3, <4>1, NotLast
      <4> QED BY <1>1, <2>3, <4>2, Within
    <3>2. at < applied[n+1].outStart
      BY <1>1, <3>1 DEF Until
    <3>3. applied[n+1].outStart <= applied[f].outStart
      <4>1. /\ applied[n+1].outStart \in Nat /\ applied[n+1].outEnd \in Nat
            /\ applied[n+1].outStart <= applied[n+1].outEnd /\ applied[f].outStart \in Nat
        BY <2>3, <3>1, Lying1
      <4>2. CASE n + 1 = f
        BY <4>1, <4>2
      <4>3. CASE n + 1 # f
        <5>1. n + 1 < f
          BY <1>1, <2>3, <4>3
        <5>2. applied[n+1].outEnd <= applied[f].outStart
          BY <2>3, <3>1, <5>1, Lying1
        <5> QED BY <4>1, <5>2
      <4> QED BY <4>2, <4>3
    <3>4. applied[f].outStart <= at
      BY <2>2 DEF Holds
    <3>5. applied[n+1].outStart \in Nat /\ applied[f].outStart \in Nat
      BY <2>3, <3>1, Lying1
    <3> QED BY <1>1, <3>2, <3>3, <3>4, <3>5
  <2>5. n \in 1..Len(applied) /\ n \in f..Len(applied) /\ n # 0
    BY <1>1, <2>3, <2>4
  <2>6. applied[n].outEnd = After(n)
    BY <2>5 DEF After
  <2>7. ASSUME NEW j \in f..n PROVE applied[j].outEnd <= at
    <3>1. j \in 1..Len(applied) /\ j <= n
      BY <1>1, <2>3, <2>5
    <3>2. /\ applied[j].outEnd \in Nat /\ applied[n].outStart \in Nat
          /\ applied[n].outEnd \in Nat /\ applied[n].outStart <= applied[n].outEnd
      BY <2>5, <3>1, Lying1
    <3>3. CASE j = n
      BY <1>1, <2>6, <3>3
    <3>4. CASE j # n
      <4>1. j < n
        BY <1>1, <3>1, <3>4
      <4>2. applied[j].outEnd <= applied[n].outStart
        BY <2>5, <3>1, <4>1, Lying1
      <4> QED BY <1>1, <2>6, <3>2, <4>2
    <3> QED BY <3>3, <3>4
  <2>8. n = f
    BY <1>1, <2>2, <2>3, <2>5, <2>7, JustBefore
  <2>9. applied[f].outStart = at /\ applied[f].outEnd = at
    <3>1. applied[f].outEnd <= at
      BY <1>1, <2>6, <2>8
    <3> QED BY <1>1, <2>2, <2>3, <3>1, EmptyHolds
  <2>10. applied[f].srcStart < applied[f].srcEnd /\ ~NothingDeleted
    BY <2>3, <2>9, DeletionSpan
  <2>11. applied[f].srcStart \in Nat /\ applied[f].srcEnd \in Nat
    BY <2>3, Lying1
  <2>12. at - Shift(n) = applied[f].srcEnd
    BY <1>1, <2>5, <2>8, <2>9, <2>11 DEF Shift
  <2> QED BY <1>3, <2>2, <2>10, <2>11, <2>12 DEF Traced, b, r
<1> QED BY <1>5, <1>6

\* remap_range takes every position of the output to the byte it was copied
\* from, or to the construct it was generated from, or to a deletion it touches,
\* for every text, and every plan in which no two deletions touch.
THEOREM PositionsComeBack == ASSUME DeletionsApart PROVE Spec => []TracedToSource
<1>1. IInv /\ Placed => TracedToSource
  <2> SUFFICES ASSUME IInv, Placed, NEW at \in 0..Len(out)-1 PROVE Traced(at)
    BY DEF TracedToSource, Traced
  <2> QED BY Somewhere, TracedInText, TracedInGap
<1> QED BY <1>1, Inductive, AllPlaced, PTL

-----------------------------------------------------------------------------
(***************************************************************************)
(* The walk makes the patches as Edits says.                               *)
(***************************************************************************)

\* the patches the walk has applied
Past == DOMAIN plan \ Range(todo)

\* what is ahead is sorted and stands after what is past; what is past lies in
\* the source before the cursor, which it has brought there
Ordered ==
    /\ \A m, n \in 1..Len(todo) : m < n => SortsBefore(todo[m], todo[n])
    /\ state # "unsorted" =>
          /\ \A j \in Past : /\ Sound(plan[j])
                             /\ plan[j].end <= cursor
                             /\ \A n \in 1..Len(todo) : SortsBefore(j, todo[n])
          /\ \A k \in 1..Len(out) : IF out[k].from = 0 THEN out[k].at <= cursor
                                                       ELSE out[k].from \in Past
    /\ state = "open" => cursor = 0 \/ \E j \in Past : plan[j].end = cursor
    /\ state = "unsorted" => out = << >> /\ todo = << >> /\ cursor = 0

\* the order of the sort is that of the promise, and it is one
LEMMA Agreeing ==
    ASSUME IsPlan(plan), NEW i \in DOMAIN plan, NEW j \in DOMAIN plan
    PROVE  /\ E!Precedes(i, j) <=> SortsBefore(i, j)
           /\ SortsBefore(i, j) => /\ ~SortsBefore(j, i)
                                   /\ plan[i].start <= plan[j].start
                                   /\ plan[i].start = plan[j].start /\ IsInsertion(plan[j])
                                         => IsInsertion(plan[i])
<1> DEFINE p == plan[i]
           q == plan[j]
           kp == IF IsInsertion(p) THEN 0 ELSE 1
           kq == IF IsInsertion(q) THEN 0 ELSE 1
<1>1. /\ i \in Nat /\ j \in Nat /\ p \in Patch /\ q \in Patch
  BY PatchType
<1>2. /\ p.start \in Nat /\ q.start \in Nat /\ p.order \in Nat /\ q.order \in Nat
  BY <1>1 DEF Patch, BlockOpen, BlockClose
<1>3. SortKey(p) = <<p.start, kp, p.order>> /\ SortKey(q) = <<q.start, kq, q.order>>
  BY DEF SortKey
<1>4. /\ kp \in {0, 1} /\ (kp = 0 <=> IsInsertion(p))
      /\ kq \in {0, 1} /\ (kq = 0 <=> IsInsertion(q))
  OBVIOUS
<1> HIDE DEF kp, kq
<1>5. /\ SortsBefore(i, j) <=>
            \/ p.start < q.start
            \/ p.start = q.start /\ kp < kq
            \/ p.start = q.start /\ kp = kq /\ p.order < q.order
            \/ p.start = q.start /\ kp = kq /\ p.order = q.order /\ i < j
      /\ SortsBefore(j, i) <=>
            \/ q.start < p.start
            \/ q.start = p.start /\ kq < kp
            \/ q.start = p.start /\ kq = kp /\ q.order < p.order
            \/ q.start = p.start /\ kq = kp /\ q.order = p.order /\ j < i
  <2> HIDE DEF p, q
  <2> QED BY <1>3 DEF SortsBefore, KeyLess, p, q
<1>6. E!Precedes(i, j) <=>
            \/ p.start < q.start
            \/ p.start = q.start /\ IsInsertion(p) /\ ~IsInsertion(q)
            \/ /\ p.start = q.start /\ IsInsertion(p) = IsInsertion(q)
               /\ p.order < q.order \/ (p.order = q.order /\ i < j)
  BY DEF E!Precedes, E!IsInsertion, IsInsertion
<1>7. IsInsertion(p) \in BOOLEAN /\ IsInsertion(q) \in BOOLEAN
  BY DEF IsInsertion
<1> HIDE DEF p, q
<1>8. E!Precedes(i, j) <=> SortsBefore(i, j)
  BY <1>1, <1>2, <1>4, <1>5, <1>6, <1>7
<1> QED BY <1>1, <1>2, <1>4, <1>5, <1>8 DEF p, q

\* a sorted order leaves no patch out
LEMMA NoneLeftOut ==
    ASSUME IsPlan(plan), NEW order \in [1..Len(plan) -> 1..Len(plan)],
           \A m, n \in 1..Len(plan) : m < n => SortsBefore(order[m], order[n])
    PROVE  /\ order \in Seq(DOMAIN plan) /\ Len(order) = Len(plan)
           /\ Range(order) = DOMAIN plan
<1> DEFINE N == 1..Len(plan)
<1>1. Len(plan) \in Nat /\ DOMAIN plan = N
  BY PlanType
<1>2. ASSUME NEW m \in N, NEW n \in N, order[m] = order[n] PROVE m = n
  <2>1. order[m] \in DOMAIN plan
    BY <1>1
  <2>2. ~SortsBefore(order[m], order[m])
    BY <2>1, Agreeing
  <2>3. ~(m < n) /\ ~(n < m)
    BY <1>2, <2>2
  <2> QED BY <1>1, <2>3
<1>3. order \in Injection(N, N)
  BY <1>2 DEF Injection, IsInjective
<1>4. IsFiniteSet(N)
  BY <1>1, FS_Interval
<1>5. order \in Surjection(N, N)
  BY <1>3, <1>4, FS_Injection
<1>6. Range(order) = N
  BY <1>5 DEF Surjection, Range
<1> QED BY <1>1, <1>6

\* the text so far, with what is still to copy
LEMMA Rest ==
    ASSUME TypeOK, state # "refused"
    PROVE  /\ SoFar = out \o Copied(cursor, Size) /\ SoFar \in Seq(Byte)
           /\ Len(SoFar) = Len(out) + (Size - cursor) /\ Len(out) \in Nat
           /\ \A k \in 1..Len(SoFar) :
                 SoFar[k] = IF k <= Len(out) THEN out[k]
                            ELSE [from |-> 0, at |-> cursor + (k - Len(out))]
<1>1. cursor \in 0..Size /\ Size \in Nat /\ Size \in cursor..Size /\ cursor \in Nat
  BY SizeAssumption DEF TypeOK
<1>2. out \in Seq(Byte) /\ Len(out) \in Nat
  BY DEF TypeOK
<1> DEFINE copy == Copied(cursor, Size)
<1>3. /\ copy \in Seq(Byte) /\ Len(copy) = Size - cursor
      /\ \A k \in 1..Size - cursor : copy[k] = [from |-> 0, at |-> cursor + k]
  BY <1>1, CopiedType
<1>4. SoFar = out \o copy
  BY DEF SoFar
<1> HIDE DEF copy
<1>5. /\ SoFar \in Seq(Byte) /\ Len(SoFar) = Len(out) + Len(copy)
      /\ \A k \in 1..Len(out) + Len(copy) :
            SoFar[k] = IF k <= Len(out) THEN out[k] ELSE copy[k - Len(out)]
  BY <1>2, <1>3, <1>4, ConcatProperties
<1>6. ASSUME NEW k \in 1..Len(SoFar), ~(k <= Len(out)) PROVE k - Len(out) \in 1..Size - cursor
  BY <1>1, <1>2, <1>3, <1>5, <1>6
<1> QED BY <1>2, <1>3, <1>4, <1>5, <1>6 DEF copy

\* a patch that is applied goes from what is ahead to what is past
LEMMA Moving ==
    ASSUME TypeOK, Ordered, state = "open", todo # << >>
    PROVE  LET i == Head(todo)
           IN /\ i \in DOMAIN plan /\ i \notin Past /\ i \in Range(todo)
              /\ Range(Tail(todo)) = Range(todo) \ {i}
              /\ Len(Tail(todo)) = Len(todo) - 1 /\ Len(todo) \in Nat /\ Len(todo) >= 1
              /\ i = todo[1]
              /\ \A n \in 1..Len(todo) - 1 : /\ Tail(todo)[n] = todo[n + 1]
                                             /\ SortsBefore(i, todo[n + 1])
              /\ DOMAIN plan \ Range(Tail(todo)) = Past \cup {i}
<1> DEFINE i == Head(todo)
<1>1. IsPlan(plan) /\ todo \in Seq(DOMAIN plan) /\ Len(todo) \in Nat
  BY DEF TypeOK
<1>2. /\ i \in DOMAIN plan /\ Tail(todo) \in Seq(DOMAIN plan)
      /\ Range(todo) = {i} \cup Range(Tail(todo))
  BY <1>1, RangeHeadTail
<1>3. /\ Len(Tail(todo)) = Len(todo) - 1 /\ i = todo[1]
      /\ \A n \in 1..Len(Tail(todo)) : Tail(todo)[n] = todo[n + 1]
  BY <1>1, HeadTailProperties
<1>4. Len(todo) >= 1
  BY <1>1, EmptySeq
<1>5. ASSUME NEW n \in 1..Len(todo) - 1
      PROVE  SortsBefore(i, todo[n + 1]) /\ todo[n + 1] # i
  <2>1. n + 1 \in 1..Len(todo) /\ 1 \in 1..Len(todo) /\ 1 < n + 1
    BY <1>1, <1>4
  <2>2. SortsBefore(todo[1], todo[n + 1])
    BY <2>1 DEF Ordered
  <2>3. todo[n + 1] \in DOMAIN plan
    BY <1>1, <2>1, ElementOfSeq
  <2> QED BY <1>1, <1>2, <1>3, <2>2, <2>3, Agreeing
<1>6. i \notin Range(Tail(todo))
  <2>1. Range(Tail(todo)) = {Tail(todo)[n] : n \in 1..Len(Tail(todo))}
    BY <1>2, RangeEquality
  <2> QED BY <1>3, <1>5, <2>1
<1> QED BY <1>1, <1>2, <1>3, <1>4, <1>5, <1>6 DEF Past

LEMMA OrderedApply == ASSUME TypeOK, Ordered, Apply PROVE Ordered'
<1> DEFINE i == Head(todo)
           p == plan[i]
           copy == Copied(cursor, p.start)
           kept == out \o copy
<1>1. /\ state = "open" /\ todo # << >> /\ Sound(p) /\ ~Overlaps(p)
      /\ out' = kept \o Text(plan, i) /\ cursor' = p.end /\ todo' = Tail(todo)
      /\ plan' = plan /\ state' = state
  BY DEF Apply
<1>2. /\ i \in DOMAIN plan /\ i \notin Past
      /\ Len(todo') = Len(todo) - 1 /\ Len(todo) \in Nat /\ Len(todo) >= 1
      /\ \A n \in 1..Len(todo) - 1 : todo'[n] = todo[n + 1] /\ SortsBefore(i, todo[n + 1])
      /\ Past' = Past \cup {i}
  BY <1>1, Moving DEF Past
<1>3. /\ p.start \in Nat /\ p.end \in Nat /\ p.size \in Nat /\ i \in Nat /\ i # 0
      /\ p.start <= p.end /\ p.end <= Size /\ cursor <= p.start
      /\ cursor \in 0..Size /\ Size \in Nat
  <2>1. p.start \in Nat /\ p.end \in Nat /\ p.size \in Nat /\ i \in Nat
    BY <1>2, PatchType DEF TypeOK
  <2>2. cursor \in 0..Size /\ Size \in Nat
    BY SizeAssumption DEF TypeOK
  <2>3. ~(p.start > p.end) /\ ~(p.end > Size) /\ ~(p.start < cursor)
    BY <1>1 DEF Sound, Outside, Overlaps
  <2>4. i # 0
    BY <1>2, PlanType DEF TypeOK
  <2> HIDE DEF p
  <2> QED BY <2>1, <2>2, <2>3, <2>4
<1>4. ASSUME NEW m \in 1..Len(todo'), NEW n \in 1..Len(todo'), m < n
      PROVE  SortsBefore(todo[m], todo[n])'
  <2>1. m + 1 \in 1..Len(todo) /\ n + 1 \in 1..Len(todo) /\ m + 1 < n + 1
    BY <1>2, <1>4
  <2>2. SortsBefore(todo[m + 1], todo[n + 1])
    BY <2>1 DEF Ordered
  <2>3. todo'[m] = todo[m + 1] /\ todo'[n] = todo[n + 1]
    BY <1>2
  <2> QED BY <1>1, <2>2, <2>3 DEF SortsBefore
<1>5. ASSUME NEW j \in Past'
      PROVE  /\ Sound(plan'[j]) /\ plan'[j].end <= cursor'
             /\ \A n \in 1..Len(todo') : SortsBefore(j, todo[n])'
  <2>1. CASE j = i
    <3>1. \A n \in 1..Len(todo') : SortsBefore(j, todo[n])'
      <4> SUFFICES ASSUME NEW n \in 1..Len(todo') PROVE SortsBefore(j, todo[n])'
        OBVIOUS
      <4>1. todo'[n] = todo[n + 1] /\ SortsBefore(j, todo[n + 1])
        BY <1>2, <2>1
      <4> QED BY <1>1, <4>1 DEF SortsBefore
    <3> QED BY <1>1, <1>3, <2>1, <3>1
  <2>2. CASE j \in Past
    <3>1. Sound(plan[j]) /\ plan[j].end <= cursor
      BY <1>1, <2>2 DEF Ordered
    <3>2. plan[j].end \in Nat
      BY <2>2, PatchType DEF Past, TypeOK
    <3>3. ASSUME NEW n \in 1..Len(todo') PROVE SortsBefore(j, todo[n])'
      <4>1. n + 1 \in 1..Len(todo) /\ todo'[n] = todo[n + 1]
        BY <1>2
      <4>2. SortsBefore(j, todo[n + 1])
        BY <1>1, <2>2, <4>1 DEF Ordered
      <4> QED BY <1>1, <4>1, <4>2 DEF SortsBefore
    <3> HIDE DEF p
    <3>4. plan[j].end <= p.end
      BY <1>3, <3>1, <3>2
    <3> QED BY <1>1, <3>1, <3>3, <3>4
  <2> QED BY <1>2, <2>1, <2>2
<1>6. ASSUME NEW k \in 1..Len(out')
      PROVE  IF out'[k].from = 0 THEN out'[k].at <= cursor' ELSE out'[k].from \in Past'
  <2>1. out \in Seq(Byte) /\ Len(out) \in Nat
    BY DEF TypeOK
  <2>2. /\ copy \in Seq(Byte) /\ Len(copy) = p.start - cursor
        /\ \A n \in 1..p.start - cursor : copy[n] = [from |-> 0, at |-> cursor + n]
    <3>1. p.start \in cursor..Size
      BY <1>3
    <3> QED BY <1>3, <3>1, CopiedType
  <2>3. /\ Text(plan, i) \in Seq(Byte) /\ Len(Text(plan, i)) = p.size
        /\ \A n \in 1..p.size : Text(plan, i)[n].from = i
    BY <1>2, TextType DEF TypeOK
  <2>4. kept = out \o copy
    OBVIOUS
  <2> HIDE DEF copy, kept, p
  <2>5. /\ kept \in Seq(Byte) /\ Len(kept) = Len(out) + Len(copy)
        /\ \A n \in 1..Len(out) + Len(copy) :
              kept[n] = IF n <= Len(out) THEN out[n] ELSE copy[n - Len(out)]
    BY <2>1, <2>2, <2>4, ConcatProperties
  <2>6. /\ Len(out') = Len(kept) + p.size
        /\ \A n \in 1..Len(kept) + p.size :
              out'[n] = IF n <= Len(kept) THEN kept[n] ELSE Text(plan, i)[n - Len(kept)]
    <3> DEFINE t == Text(plan, i)
    <3>1. t \in Seq(Byte) /\ Len(t) = p.size /\ out' = kept \o t
      BY <1>1, <2>3
    <3>3. kept \in Seq(Byte)
      BY <2>5
    <3> HIDE DEF t, i
    <3>2. /\ Len(kept \o t) = Len(kept) + Len(t)
          /\ \A n \in 1..Len(kept) + Len(t) :
                (kept \o t)[n] = IF n <= Len(kept) THEN kept[n] ELSE t[n - Len(kept)]
      BY <3>1, <3>3, ConcatProperties
    <3> QED BY <3>1, <3>2 DEF t
  <2>10. /\ Len(kept) = Len(out) + (p.start - cursor) /\ Len(kept) \in Nat
         /\ Len(out) <= Len(kept) /\ k \in 1..Len(kept) + p.size
    BY <1>3, <2>1, <2>2, <2>5, <2>6
  <2>7. CASE k <= Len(out)
    <3>1. k \in 1..Len(out) /\ out'[k] = out[k]
      <4>1. k \in 1..Len(out) /\ k <= Len(kept) /\ k \in 1..Len(out) + Len(copy)
        BY <1>3, <2>1, <2>2, <2>7, <2>10
      <4> QED BY <2>5, <2>6, <2>7, <2>10, <4>1
    <3>2. IF out[k].from = 0 THEN out[k].at <= cursor ELSE out[k].from \in Past
      BY <1>1, <3>1 DEF Ordered
    <3>3. out[k].at \in Nat
      <4>1. out[k] \in Byte
        BY <2>1, <3>1, ElementOfSeq
      <4> QED BY <4>1 DEF Byte
    <3>4. out[k].at <= cursor => out[k].at <= p.end
      BY <1>3, <3>3
    <3> QED BY <1>1, <1>2, <3>1, <3>2, <3>4
  <2>8. CASE ~(k <= Len(out)) /\ k <= Len(kept)
    <3>1. k - Len(out) \in 1..p.start - cursor /\ k \in 1..Len(out) + Len(copy)
          /\ k \in 1..Len(kept) + p.size
      BY <1>3, <2>1, <2>2, <2>8, <2>10
    <3>2. out'[k] = [from |-> 0, at |-> cursor + (k - Len(out))]
      BY <2>2, <2>5, <2>6, <2>8, <3>1
    <3>3. cursor + (k - Len(out)) <= p.end
      BY <1>3, <2>1, <3>1
    <3> QED BY <1>1, <3>2, <3>3
  <2>9. CASE ~(k <= Len(kept))
    <3>1. k - Len(kept) \in 1..p.size /\ k \in 1..Len(kept) + p.size
      BY <1>3, <2>1, <2>9, <2>10
    <3>2. out'[k].from = i
      BY <2>3, <2>6, <2>9, <3>1
    <3> QED BY <1>2, <1>3, <3>2
  <2> QED BY <2>7, <2>8, <2>9
<1>7. \E j \in Past' : plan'[j].end = cursor'
  BY <1>1, <1>2
<1> QED BY <1>1, <1>4, <1>5, <1>6, <1>7 DEF Ordered

LEMMA OrderedSort == ASSUME TypeOK, Ordered, Sort PROVE Ordered'
<1>1. /\ state = "unsorted" /\ state' = "open" /\ plan' = plan /\ cursor' = cursor /\ out' = out
      /\ out = << >> /\ cursor = 0 /\ IsPlan(plan)
  BY DEF Sort, Ordered, TypeOK
<1>2. PICK order \in [1..Len(plan) -> 1..Len(plan)] :
         /\ \A m, n \in 1..Len(plan) : m < n => SortsBefore(order[m], order[n])
         /\ todo' = order
  BY DEF Sort
<1>3. order \in Seq(DOMAIN plan) /\ Len(order) = Len(plan) /\ Range(order) = DOMAIN plan
  BY <1>1, <1>2, NoneLeftOut
<1>4. Past' = {}
  BY <1>1, <1>2, <1>3 DEF Past
<1>5. ASSUME NEW m \in 1..Len(todo'), NEW n \in 1..Len(todo'), m < n
      PROVE  SortsBefore(todo[m], todo[n])'
  <2>1. SortsBefore(order[m], order[n])
    BY <1>2, <1>3, <1>5
  <2> QED BY <1>1, <1>2, <2>1 DEF SortsBefore
<1>6. Len(out') = 0 /\ 1..Len(out') = {}
  BY <1>1
<1> QED BY <1>1, <1>4, <1>5, <1>6 DEF Ordered

LEMMA OrderedFinish == ASSUME TypeOK, Ordered, Finish PROVE Ordered'
<1>1. /\ state = "open" /\ state' = "done" /\ plan' = plan /\ cursor' = Size /\ todo' = todo
      /\ todo = << >> /\ out' = SoFar
  BY DEF Finish, SoFar
<1>2. /\ cursor \in 0..Size /\ Size \in Nat /\ Past' = Past /\ out \in Seq(Byte)
  BY <1>1, SizeAssumption DEF TypeOK, Past
<1>3. /\ Len(out') = Len(out) + (Size - cursor) /\ Len(out) \in Nat
      /\ \A k \in 1..Len(out') :
            out'[k] = IF k <= Len(out) THEN out[k]
                      ELSE [from |-> 0, at |-> cursor + (k - Len(out))]
  BY <1>1, Rest
<1>4. ASSUME NEW k \in 1..Len(out')
      PROVE  IF out'[k].from = 0 THEN out'[k].at <= cursor' ELSE out'[k].from \in Past'
  <2>1. CASE k <= Len(out)
    <3>1. k \in 1..Len(out) /\ out'[k] = out[k]
      BY <1>3, <2>1
    <3>2. IF out[k].from = 0 THEN out[k].at <= cursor ELSE out[k].from \in Past
      BY <1>1, <3>1 DEF Ordered
    <3>3. out[k].at \in Nat
      <4>1. out[k] \in Byte
        BY <1>2, <3>1, ElementOfSeq
      <4> QED BY <4>1 DEF Byte
    <3>4. out[k].at <= cursor => out[k].at <= Size
      BY <1>2, <3>3
    <3> QED BY <1>1, <1>2, <3>1, <3>2, <3>4
  <2>2. CASE ~(k <= Len(out))
    <3>1. out'[k] = [from |-> 0, at |-> cursor + (k - Len(out))]
      BY <1>3, <2>2
    <3>2. cursor + (k - Len(out)) <= Size
      BY <1>2, <1>3, <2>2
    <3> QED BY <1>1, <3>1, <3>2
  <2> QED BY <2>1, <2>2
<1>5. ASSUME NEW j \in Past' PROVE Sound(plan'[j]) /\ plan'[j].end <= cursor'
  <2>1. Sound(plan[j]) /\ j \in DOMAIN plan
    BY <1>1, <1>2 DEF Ordered, Past
  <2>2. plan[j].end \in Nat
    BY <2>1, PatchType DEF TypeOK
  <2>3. ~(plan[j].end > Size)
    BY <2>1 DEF Sound, Outside
  <2> QED BY <1>1, <1>2, <2>1, <2>2, <2>3
<1>6. Len(todo') = 0 /\ 1..Len(todo') = {}
  BY <1>1
<1> QED BY <1>1, <1>4, <1>5, <1>6 DEF Ordered

LEMMA OrderedInit == Init => Ordered
<1> SUFFICES ASSUME Init PROVE Ordered
  OBVIOUS
<1>1. todo = << >> /\ out = << >> /\ cursor = 0 /\ state = "unsorted" /\ 1..Len(todo) = {}
  BY DEF Init
<1> QED BY <1>1 DEF Ordered

LEMMA AllOrdered == Spec => []Ordered
<1>1. TypeOK /\ Ordered /\ [Next]_vars => Ordered'
  <2>1. ASSUME Ordered, UNCHANGED <<plan, todo, out, cursor>>,
               state' = state \/ (state = "open" /\ state' = "refused")
        PROVE  Ordered'
    BY <2>1 DEF Ordered, SortsBefore, Past
  <2>2. ASSUME Ordered, UNCHANGED vars PROVE Ordered'
    <3>1. /\ plan' = plan /\ todo' = todo /\ out' = out /\ cursor' = cursor /\ state' = state
      BY <2>2 DEF vars
    <3> QED BY <2>2, <3>1 DEF Ordered, SortsBefore, Past
  <2>3. Ordered /\ Reject => Ordered'
    BY <2>1 DEF Reject
  <2> QED BY <2>2, <2>3, OrderedSort, OrderedApply, OrderedFinish DEF Next
<1>2. IInv => TypeOK
  BY DEF IInv
<1> QED BY <1>1, <1>2, OrderedInit, Inductive, PTL DEF Spec

\* The next patch of the walk stands where Edits makes it: what was copied and
\* what was made before it is before it, what it replaces is not yet copied.
LEMMA ApplyMakes == ASSUME TypeOK, Ordered, Apply, TypeOK' PROVE E!Make(Head(todo))
<1> DEFINE i == Head(todo)
           p == plan[i]
           copy == Copied(cursor, p.start)
           kept == out \o copy
           a == Len(out) + (p.start - cursor)
           b == Len(out) + (p.end - cursor)
<1>1. /\ state = "open" /\ todo # << >> /\ Sound(p) /\ ~Overlaps(p)
      /\ out' = kept \o Text(plan, i) /\ cursor' = p.end /\ todo' = Tail(todo)
      /\ plan' = plan /\ state' = state
  BY DEF Apply
<1>2. /\ i \in DOMAIN plan /\ i \notin Past /\ i \in Range(todo) /\ i = todo[1]
      /\ Range(todo') = Range(todo) \ {i} /\ 1 \in 1..Len(todo)
  BY <1>1, Moving
<1>3. /\ p.start \in Nat /\ p.end \in Nat /\ p.size \in Nat /\ i \in Nat /\ i # 0
      /\ p.start <= p.end /\ p.end <= Size /\ cursor <= p.start
      /\ cursor \in Nat /\ Size \in Nat
  <2>1. p.start \in Nat /\ p.end \in Nat /\ p.size \in Nat /\ i \in Nat
    BY <1>2, PatchType DEF TypeOK
  <2>2. cursor \in Nat /\ Size \in Nat
    BY SizeAssumption DEF TypeOK
  <2>3. ~(p.start > p.end) /\ ~(p.end > Size) /\ ~(p.start < cursor)
    BY <1>1 DEF Sound, Outside, Overlaps
  <2>4. i # 0
    BY <1>2, PlanType DEF TypeOK
  <2> HIDE DEF p
  <2> QED BY <2>1, <2>2, <2>3, <2>4
<1>4. /\ SoFar \in Seq(Byte) /\ Len(SoFar) = Len(out) + (Size - cursor) /\ Len(out) \in Nat
      /\ \A k \in 1..Len(SoFar) :
            SoFar[k] = IF k <= Len(out) THEN out[k]
                       ELSE [from |-> 0, at |-> cursor + (k - Len(out))]
  BY <1>1, Rest
<1>5. /\ a \in Nat /\ b \in Nat /\ a <= b /\ b <= Len(SoFar) /\ Len(out) <= a
      /\ Len(SoFar) \in Nat
  <2>1. Len(out) \in Nat /\ Len(SoFar) = Len(out) + (Size - cursor)
    BY <1>4
  <2>2. a = Len(out) + (p.start - cursor) /\ b = Len(out) + (p.end - cursor)
    OBVIOUS
  <2> HIDE DEF p, a, b
  <2>3. /\ Len(out) + (p.start - cursor) \in Nat /\ Len(out) + (p.end - cursor) \in Nat
        /\ Len(out) + (p.start - cursor) <= Len(out) + (p.end - cursor)
        /\ Len(out) + (p.end - cursor) <= Len(out) + (Size - cursor)
        /\ Len(out) <= Len(out) + (p.start - cursor) /\ Len(out) + (Size - cursor) \in Nat
    <3>1. PICK o \in Nat, s \in Nat, e \in Nat, c \in Nat, z \in Nat :
             o = Len(out) /\ s = p.start /\ e = p.end /\ c = cursor /\ z = Size
      BY <1>3, <2>1
    <3>2. c <= s /\ s <= e /\ e <= z
      BY <1>3, <3>1
    <3>3. /\ o + (s - c) \in Nat /\ o + (e - c) \in Nat /\ o + (s - c) <= o + (e - c)
          /\ o + (e - c) <= o + (z - c) /\ o <= o + (s - c) /\ o + (z - c) \in Nat
      BY <3>2
    <3> QED BY <3>1, <3>3
  <2> QED BY <2>1, <2>2, <2>3
\* where each byte of the text so far stands
<1>6. ASSUME NEW k \in 1..Len(SoFar)
      PROVE  /\ k <= a <=> E!Before(SoFar[k], i)
             /\ a < k /\ k <= b <=> E!Taken(SoFar[k], i)
  <2>1. /\ E!Before(SoFar[k], i) <=> IF SoFar[k].from = 0 THEN SoFar[k].at <= p.start
                                     ELSE E!Precedes(SoFar[k].from, i)
        /\ E!Taken(SoFar[k], i) <=> /\ SoFar[k].from = 0 /\ p.start < SoFar[k].at
                                    /\ SoFar[k].at <= p.end
    BY DEF E!Before, E!Taken
  <2>2. CASE k <= Len(out)
    <3>1. k \in 1..Len(out) /\ SoFar[k] = out[k]
      BY <1>4, <2>2
    <3>2. IF out[k].from = 0 THEN out[k].at <= cursor ELSE out[k].from \in Past
      BY <1>1, <3>1 DEF Ordered
    <3>3. out[k] \in Byte /\ out[k].at \in Nat
      <4>1. out \in Seq(Byte)
        BY DEF TypeOK
      <4>2. out[k] \in Byte
        BY <3>1, <4>1, ElementOfSeq
      <4> QED BY <4>2 DEF Byte
    <3>4. k <= a /\ ~(a < k)
      <4> HIDE DEF a
      <4> QED BY <1>4, <1>5, <2>2
    <3>5. CASE out[k].from = 0
      <4>1. out[k].at <= p.start /\ ~(p.start < out[k].at)
        <5> HIDE DEF p
        <5> QED BY <1>3, <3>2, <3>3, <3>5
      <4> QED BY <2>1, <3>1, <3>4, <3>5, <4>1
    <3>6. CASE out[k].from # 0
      <4>1. out[k].from \in Past /\ out[k].from \in DOMAIN plan
        BY <3>2, <3>6 DEF Past
      <4>2. SortsBefore(out[k].from, todo[1])
        BY <1>1, <1>2, <4>1 DEF Ordered
      <4>3. E!Precedes(out[k].from, i)
        BY <1>2, <4>1, <4>2, Agreeing DEF TypeOK
      <4> QED BY <2>1, <3>1, <3>4, <3>6, <4>3
    <3> QED BY <3>5, <3>6
  <2>3. CASE ~(k <= Len(out))
    <3>1. SoFar[k] = [from |-> 0, at |-> cursor + (k - Len(out))]
      BY <1>4, <2>3
    <3>2. /\ cursor + (k - Len(out)) <= p.start <=> k <= a
          /\ p.start < cursor + (k - Len(out)) <=> a < k
          /\ cursor + (k - Len(out)) <= p.end <=> k <= b
      <4>1. Len(out) \in Nat /\ k \in Nat
        BY <1>4, <1>5
      <4> HIDE DEF p
      <4> QED BY <1>3, <4>1
    <3> HIDE DEF a, b, p
    <3> QED BY <2>1, <3>1, <3>2
  <2> QED BY <2>2, <2>3
\* what stays before it, and what stays after it
<1>7. SubSeq(SoFar, 1, a) = kept
  <2>1. /\ out \in Seq(Byte)
        /\ copy \in Seq(Byte) /\ Len(copy) = p.start - cursor
        /\ \A n \in 1..p.start - cursor : copy[n] = [from |-> 0, at |-> cursor + n]
    <3>1. p.start \in cursor..Size /\ cursor \in 0..Size
      BY <1>3
    <3> QED BY <3>1, CopiedType DEF TypeOK
  <2>2. kept = out \o copy /\ a = Len(out) + (p.start - cursor)
    OBVIOUS
  <2> HIDE DEF copy, kept, p, a
  <2>3. /\ kept \in Seq(Byte) /\ Len(kept) = Len(out) + Len(copy)
        /\ \A n \in 1..Len(out) + Len(copy) :
              kept[n] = IF n <= Len(out) THEN out[n] ELSE copy[n - Len(out)]
    BY <2>1, <2>2, ConcatProperties
  <2>4. \A n \in 1..a : SoFar[n] \in Byte
    BY <1>4, <1>5, ElementOfSeq
  <2> DEFINE u == SubSeq(SoFar, 1, a)
  <2>5. /\ u \in Seq(Byte) /\ Len(u) = a /\ \A n \in 1..a : u[n] = SoFar[n]
    <3>1. /\ u \in Seq(Byte) /\ Len(u) = IF 1 <= a THEN a - 1 + 1 ELSE 0
          /\ \A n \in 1..a - 1 + 1 : u[n] = SoFar[1 + n - 1]
      BY <1>5, <2>4, SubSeqProperties
    <3> HIDE DEF u
    <3> QED BY <1>5, <3>1
  <2>6. Len(kept) = a
    BY <1>3, <1>4, <2>1, <2>2, <2>3
  <2> HIDE DEF u
  <2>7. ASSUME NEW n \in 1..a PROVE u[n] = kept[n]
    <3>1. n \in 1..Len(SoFar) /\ n \in 1..Len(out) + Len(copy) /\ u[n] = SoFar[n]
      BY <1>5, <2>3, <2>5, <2>6
    <3>2. CASE n <= Len(out)
      BY <1>4, <2>3, <3>1, <3>2
    <3>3. CASE ~(n <= Len(out))
      <4>1. n - Len(out) \in 1..p.start - cursor
        <5> DEFINE d == p.start - cursor
        <5>1. d \in Int /\ Len(out) \in Nat
          BY <1>3, <2>1, LenProperties DEF TypeOK
        <5>2. n \in 1..Len(out) + d
          BY <2>2
        <5> HIDE DEF d
        <5>3. n - Len(out) \in 1..d
          BY <3>3, <5>1, <5>2
        <5> QED BY <5>3 DEF d
      <4>2. copy[n - Len(out)] = [from |-> 0, at |-> cursor + (n - Len(out))]
        BY <2>1, <4>1
      <4> QED BY <1>4, <2>3, <3>1, <3>3, <4>2
    <3> QED BY <3>2, <3>3
  <2>8. u = kept
    BY <2>3, <2>5, <2>6, <2>7, SeqEqual
  <2> QED BY <2>8 DEF u
<1>8. SubSeq(SoFar, b + 1, Len(SoFar)) = Copied(p.end, Size)
  <2> DEFINE c == Copied(p.end, Size)
             u == SubSeq(SoFar, b + 1, Len(SoFar))
  <2>1. /\ c \in Seq(Byte) /\ Len(c) = Size - p.end
        /\ \A n \in 1..Size - p.end : c[n] = [from |-> 0, at |-> p.end + n]
    <3>1. Size \in p.end..Size /\ p.end \in 0..Size
      BY <1>3
    <3> QED BY <3>1, CopiedType
  <2>2. b = Len(out) + (p.end - cursor)
    OBVIOUS
  <2> HIDE DEF b, p, c
  <2>3. b + 1 \in Int /\ Len(SoFar) \in Int
        /\ \A n \in b + 1 .. Len(SoFar) : SoFar[n] \in Byte
    <3>1. b + 1 \in Int /\ Len(SoFar) \in Int
      BY <1>5
    <3>2. ASSUME NEW n \in b + 1 .. Len(SoFar) PROVE SoFar[n] \in Byte
      <4>1. n \in 1..Len(SoFar)
        BY <1>5
      <4> QED BY <1>4, <4>1, ElementOfSeq
    <3> QED BY <3>1, <3>2
  <2>4. /\ u \in Seq(Byte)
        /\ Len(u) = IF b + 1 <= Len(SoFar) THEN Len(SoFar) - (b + 1) + 1 ELSE 0
        /\ \A n \in 1..Len(SoFar) - (b + 1) + 1 : u[n] = SoFar[b + 1 + n - 1]
    <3> DEFINE low == b + 1
    <3>1. low \in Int /\ Len(SoFar) \in Int /\ \A n \in low..Len(SoFar) : SoFar[n] \in Byte
      BY <2>3
    <3> HIDE DEF low
    <3>2. /\ SubSeq(SoFar, low, Len(SoFar)) \in Seq(Byte)
          /\ Len(SubSeq(SoFar, low, Len(SoFar)))
                = IF low <= Len(SoFar) THEN Len(SoFar) - low + 1 ELSE 0
          /\ \A n \in 1..Len(SoFar) - low + 1 :
                SubSeq(SoFar, low, Len(SoFar))[n] = SoFar[low + n - 1]
      BY <3>1, SubSeqProperties
    <3> QED BY <3>2 DEF low
  <2> HIDE DEF u
  <2>8. Len(out) \in Nat /\ Len(SoFar) = Len(out) + (Size - cursor)
    BY <1>4
  <2>9. /\ Len(SoFar) - (b + 1) + 1 = Size - p.end
        /\ b + 1 <= Len(SoFar) <=> p.end < Size
    BY <1>3, <2>2, <2>8
  <2>5. Len(u) = Size - p.end
    BY <1>3, <2>4, <2>9
  <2>6. ASSUME NEW n \in 1..Size - p.end PROVE u[n] = c[n]
    <3>1. /\ n \in 1..Len(SoFar) - (b + 1) + 1 /\ b + 1 + n - 1 \in 1..Len(SoFar)
          /\ ~(b + 1 + n - 1 <= Len(out))
          /\ cursor + ((b + 1 + n - 1) - Len(out)) = p.end + n
      <4> DEFINE at == Len(out) + (p.end - cursor) + 1 + n - 1
      <4>1. at \in 1..Len(out) + (Size - cursor) /\ ~(at <= Len(out))
            /\ cursor + (at - Len(out)) = p.end + n
        <5>1. PICK o \in Nat, e \in Nat, k \in Nat, z \in Nat :
                 o = Len(out) /\ e = p.end /\ k = cursor /\ z = Size
          BY <1>3, <2>8
        <5>2. k <= e /\ e <= z /\ n \in 1..z - e
          <6>1. cursor <= p.end
            BY <1>3
          <6> QED BY <1>3, <5>1, <6>1
        <5>3. /\ o + (e - k) + 1 + n - 1 \in 1..o + (z - k)
              /\ ~(o + (e - k) + 1 + n - 1 <= o)
              /\ k + ((o + (e - k) + 1 + n - 1) - o) = e + n
          BY <5>2
        <5> QED BY <5>1, <5>3
      <4>2. at = b + 1 + n - 1
        BY <2>2
      <4> HIDE DEF at
      <4> QED BY <2>8, <2>9, <4>1, <4>2
    <3>2. SoFar[b + 1 + n - 1] = [from |-> 0, at |-> cursor + ((b + 1 + n - 1) - Len(out))]
      BY <1>4, <3>1
    <3> QED BY <2>1, <2>4, <3>1, <3>2
  <2>7. u = c
    BY <2>1, <2>4, <2>5, <2>6, SeqEqual
  <2> QED BY <2>7 DEF u, c
<1>9. SoFar' = SubSeq(SoFar, 1, a) \o Text(plan, i) \o SubSeq(SoFar, b + 1, Len(SoFar))
  <2>1. SoFar' = out' \o Copied(p.end, Size)
    BY <1>1 DEF SoFar, Copied, Source
  <2> QED BY <1>1, <1>7, <1>8, <2>1
<1>10. E!Fits(i)
  <2>1. E!Made = Past
    BY <1>1 DEF E!Made, Past, Ahead, Range
  <2>2. ASSUME NEW j \in Past PROVE ~E!Conflict(p, plan[j])
    <3>1. plan[j].end <= cursor /\ plan[j].end \in Nat
      BY <1>1, PatchType DEF Ordered, Past, TypeOK
    <3>2. ~(p.start < plan[j].end)
      <4> HIDE DEF p
      <4> QED BY <1>3, <3>1
    <3> QED BY <3>2 DEF E!Conflict
  <2> QED BY <1>1, <2>1, <2>2
        DEF E!Fits, E!Sound, E!Outside, E!Splits, Sound, Outside, Splits
<1>11. /\ Ahead = Range(todo) /\ Ahead' = Ahead \ {i}
  BY <1>1, <1>2 DEF Ahead, Range
<1>12. Text(plan, i) = E!Text(plan, i)
  BY DEF Text, E!Text
<1>13. DOMAIN SoFar = 1..Len(SoFar) /\ a \in 0..Len(SoFar) /\ b \in 0..Len(SoFar)
  <2> HIDE DEF a, b
  <2> QED BY <1>4, <1>5
<1> HIDE DEF a, b, p, kept
<1> QED BY <1>1, <1>2, <1>5, <1>6, <1>9, <1>10, <1>11, <1>12, <1>13 DEF E!Make

\* What the walk refuses no order of making the patches gets past: an overlap is
\* a conflict with the last patch made.
LEMMA RejectRefuses == ASSUME TypeOK, Ordered, Reject PROVE E!Refuse(Head(todo))
<1> DEFINE i == Head(todo)
           p == plan[i]
<1>1. /\ state = "open" /\ state' = "refused" /\ todo # << >>
      /\ ~Sound(p) \/ Overlaps(p)
      /\ plan' = plan /\ todo' = todo
  BY DEF Reject
<1>2. i \in DOMAIN plan /\ i \in Range(todo) /\ i = todo[1] /\ 1 \in 1..Len(todo)
  BY <1>1, Moving
<1>3. p.start \in Nat /\ p.end \in Nat /\ cursor \in Nat
  BY <1>2, PatchType, SizeAssumption DEF TypeOK
<1>4. E!Made = Past
  BY <1>1 DEF E!Made, Past, Ahead, Range
<1>5. ASSUME ~Sound(p) PROVE ~E!Fits(i)
  BY <1>5 DEF E!Fits, E!Sound, E!Outside, E!Splits, Sound, Outside, Splits
<1>6. ASSUME Sound(p), Overlaps(p) PROVE ~E!Fits(i)
  <2>1. p.start < cursor /\ ~(p.start > p.end)
    BY <1>6 DEF Overlaps, Sound, Outside
  <2>2. PICK j \in Past : plan[j].end = cursor
    <3>1. cursor # 0
      <4> HIDE DEF p
      <4> QED BY <1>3, <2>1
    <3> QED BY <1>1, <3>1 DEF Ordered
  <2>3. j \in DOMAIN plan /\ SortsBefore(j, i) /\ Sound(plan[j])
    BY <1>1, <1>2, <2>2 DEF Ordered, Past
  <2>4. /\ plan[j].start <= p.start
        /\ plan[j].start = p.start /\ IsInsertion(p) => IsInsertion(plan[j])
    BY <1>2, <2>3, Agreeing DEF TypeOK
  <2>5. plan[j].start \in Nat
    BY <2>3, PatchType DEF TypeOK
  <2>6. plan[j].start < p.end
    <3>1. CASE plan[j].start = p.start /\ p.start = p.end
      <4>1. plan[j].start = plan[j].end
        BY <2>4, <3>1 DEF IsInsertion
      <4> HIDE DEF p
      <4> QED BY <1>3, <2>1, <2>2, <3>1, <4>1
    <3> HIDE DEF p
    <3> QED BY <1>3, <2>1, <2>4, <2>5, <3>1
  <2>7. E!Conflict(p, plan[j])
    BY <2>1, <2>2, <2>6 DEF E!Conflict
  <2> QED BY <1>4, <2>2, <2>7 DEF E!Fits
<1>7. ~E!Fits(i)
  BY <1>1, <1>5, <1>6
<1>8. SoFar' = << >> /\ Ahead' = Ahead /\ i \in Ahead
  BY <1>1, <1>2 DEF SoFar, Ahead, Range
<1> QED BY <1>1, <1>7, <1>8 DEF E!Refuse

\* What the walk makes of a plan, step by step, is what its patches promise when
\* they are made one at a time, for every text and every plan: each Apply makes
\* one patch, in the author's coordinates, and the sort, the copying and the
\* cursor are nothing else.
THEOREM WalkKeepsPromise == Spec => E!Safely
<1>1. Init => E!Init
  <2> SUFFICES ASSUME Init PROVE E!Init
    OBVIOUS
  <2>1. /\ IsPlan(plan) /\ state = "unsorted" /\ cursor = 0 /\ out = << >>
    BY DEF Init
  <2>2. SoFar = E!Source
    <3>1. SoFar = << >> \o Copied(0, Size)
      BY <2>1 DEF SoFar
    <3>2. /\ Copied(0, Size) \in Seq(Byte) /\ Len(Copied(0, Size)) = Size
          /\ \A k \in 1..Size : Copied(0, Size)[k] = [from |-> 0, at |-> k]
      <4>1. 0 \in 0..Size /\ Size \in 0..Size
        BY SizeAssumption
      <4> QED BY <4>1, CopiedType, SizeAssumption
    <3>3. Copied(0, Size) = Source
      BY <3>2, SourceType, SeqEqual
    <3> QED BY <3>1, <3>2, <3>3, ConcatEmptySeq DEF Source, E!Source
  <2> QED BY <2>1, <2>2 DEF E!Init, Ahead, E!IsPlan, IsPlan
<1>2. ASSUME TypeOK, Ordered, TypeOK', [Next]_vars PROVE [E!Next]_(E!vars)
  <2>1. CASE Sort
    <3>1. /\ state = "unsorted" /\ state' = "open" /\ plan' = plan
          /\ cursor' = cursor /\ out' = out
      BY <2>1 DEF Sort
    <3>2. PICK order \in [1..Len(plan) -> 1..Len(plan)] :
             /\ \A m, n \in 1..Len(plan) : m < n => SortsBefore(order[m], order[n])
             /\ todo' = order
      BY <2>1 DEF Sort
    <3>3. Range(order) = DOMAIN plan
      BY <1>2, <3>2, NoneLeftOut DEF TypeOK
    <3>4. SoFar' = SoFar /\ Ahead' = Ahead
      BY <3>1, <3>2, <3>3 DEF SoFar, Ahead, Copied, Source, Range
    <3> QED BY <3>1, <3>4 DEF E!vars
  <2>2. CASE Apply
    <3>1. E!Make(Head(todo)) /\ Head(todo) \in Ahead
      BY <1>2, <2>2, ApplyMakes DEF E!Make
    <3> QED BY <3>1 DEF E!Next
  <2>3. CASE Reject
    <3>1. E!Refuse(Head(todo)) /\ Head(todo) \in Ahead
      BY <1>2, <2>3, RejectRefuses DEF E!Refuse
    <3> QED BY <3>1 DEF E!Next
  <2>4. CASE Finish
    <3>1. /\ state = "open" /\ todo = << >> /\ state' = "done" /\ out' = SoFar
          /\ plan' = plan /\ todo' = todo /\ cursor' = Size
      BY <2>4 DEF Finish, SoFar
    <3>2. Ahead = {} /\ Ahead' = {}
      BY <3>1 DEF Ahead
    <3>3. SoFar' = out'
      <4>1. SoFar' = out' \o Copied(Size, Size)
        BY <3>1 DEF SoFar, Copied, Source
      <4>2. Size \in 0..Size /\ Size \in Size..Size /\ Size - Size = 0
        BY SizeAssumption
      <4>3. Copied(Size, Size) \in Seq(Byte) /\ Len(Copied(Size, Size)) = 0
        BY <4>2, CopiedType
      <4>4. Copied(Size, Size) = << >>
        BY <4>3, EmptySeq
      <4> QED BY <1>2, <4>1, <4>4, ConcatEmptySeq DEF TypeOK
    <3> QED BY <3>1, <3>2, <3>3 DEF E!Finish, E!Next
  <2>5. CASE UNCHANGED vars
    BY <2>5 DEF vars, E!vars, SoFar, Ahead, Copied, Source
  <2> QED BY <1>2, <2>1, <2>2, <2>3, <2>4, <2>5 DEF Next
<1>3. IInv => TypeOK
  BY DEF IInv
<1> QED BY <1>1, <1>2, <1>3, Inductive, AllOrdered, PTL DEF Spec, E!Safely
=============================================================================
