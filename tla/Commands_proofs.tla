---------------------------- MODULE Commands_proofs ----------------------------
(***************************************************************************)
(* Proofs about the commands.  Build: what build, --frozen and --fix       *)
(* promise of a run that nobody disturbed, and that no command but --fix   *)
(* touches a source, for every project, every number of processes, and     *)
(* every unit the stages accept or refuse.  Watch (the last section): that *)
(* no edit is lost while fhec.toml keeps naming the same directories.      *)
(*                                                                         *)
(* What a run promises depends on the disk; the predicates below take the  *)
(* disk as a parameter, so that they say the same of a disk and of the     *)
(* next one.                                                               *)
(***************************************************************************)
EXTENDS Build, Watch, SequenceTheorems, WellFoundedInduction, TLAPS

-----------------------------------------------------------------------------
(* Sequences and numbers.                                                  *)

\* The library states this with an operator for "<", which no prover takes.
NatLess == {ss \in Nat \X Nat : ss[1] < ss[2]}

LEMMA Least ==
    ASSUME NEW T \in SUBSET Nat, T # {}
    PROVE  \E x \in T : \A y \in T : x <= y
<1>1. IsWellFoundedOn(NatLess, Nat)
  BY NatLessThanWellFounded DEF OpToRel, NatLess
<1>2. PICK x \in T : \A y \in T : ~(<<y, x>> \in NatLess)
  BY <1>1, WFMin
<1>3. ASSUME NEW y \in T PROVE x <= y
  <2>1. x \in Nat /\ y \in Nat /\ <<y, x>> \in Nat \X Nat
    OBVIOUS
  <2>2. ~(y < x)
    BY <1>2, <2>1 DEF NatLess
  <2> QED BY <2>1, <2>2
<1> QED BY <1>3

LEMMA RangeEmpty == Range(<< >>) = {}
<1>1. DOMAIN << >> = {}
  OBVIOUS
<1> QED BY <1>1 DEF Range

LEMMA RangeAppend ==
    ASSUME NEW S, NEW s \in Seq(S), NEW e \in S
    PROVE  Range(Append(s, e)) = Range(s) \cup {e}
<1> DEFINE t == Append(s, e)
<1>1. t \in Seq(S) /\ Len(t) = Len(s) + 1 /\ t[Len(s) + 1] = e
      /\ \A i \in 1..Len(s) : t[i] = s[i]
  BY AppendProperties
<1> HIDE DEF t
<1>2. Range(t) = {t[i] : i \in 1..Len(t)} /\ Range(s) = {s[i] : i \in 1..Len(s)}
  BY <1>1, RangeEquality
<1>3. Len(s) \in Nat
  BY LenProperties
<1> QED BY <1>1, <1>2, <1>3 DEF t

LEMMA RangeHeadTail ==
    ASSUME NEW S, NEW s \in Seq(S), s # << >>
    PROVE  /\ Head(s) \in S /\ Tail(s) \in Seq(S)
           /\ Range(s) = {Head(s)} \cup Range(Tail(s))
<1>1. Tail(s) \in Seq(S) /\ Len(Tail(s)) = Len(s) - 1 /\ Head(s) \in S
      /\ \A i \in 1..Len(Tail(s)) : Tail(s)[i] = s[i + 1]
  BY HeadTailProperties
<1>2. Range(Tail(s)) = {Tail(s)[i] : i \in 1..Len(Tail(s))} /\ Range(s) = {s[i] : i \in 1..Len(s)}
  BY <1>1, RangeEquality
<1>3. Len(s) \in Nat /\ Len(s) >= 1 /\ Head(s) = s[1]
  BY EmptySeq
<1>4. {s[i] : i \in 1..Len(s)} = {s[1]} \cup {s[i + 1] : i \in 1..Len(s) - 1}
  <2>1. \A i \in 1..Len(s) : i = 1 \/ (i - 1 \in 1..Len(s) - 1 /\ s[i] = s[(i - 1) + 1])
    BY <1>3
  <2>2. \A i \in 1..Len(s) - 1 : i + 1 \in 1..Len(s)
    BY <1>3
  <2> QED BY <1>3, <2>1, <2>2
<1> QED BY <1>1, <1>2, <1>3, <1>4

-----------------------------------------------------------------------------
\* src and out share no file the author writes (refused or lost otherwise)
Separate == Layout \in {"apart", "out in src"}

\* no two sources have one output (mirror.rs writes both to it otherwise)
Distinct == \A f, g \in Authored : OutRel[f] = OutRel[g] => f = g

-----------------------------------------------------------------------------
(* Types.                                                                  *)

Holding == {None, Torn} \cup Text
Disk    == [Path -> Holding]
Write == [path : Path, text : Holding]
Points  == {"rest", "walk", "read", "write", "fill", "sweep", "gate",
            "compare", "clean", "done"}
Runs    == [cmd : Commands \cup {"none"}, pc : Points,
            queue : Seq(SrcPath) \cup Seq(Write), unit : Units, base : Units,
            again : BOOLEAN, bad : BOOLEAN, code : {0, 1, 2}, calm : BOOLEAN]

\* the writes of a unit, and of its fix-its, as sets
OutWrites(u) == {[path |-> OutRel[f], text |-> Lower(f, u)] : f \in DOMAIN u}
                    \cup {[path |-> Manifest, text |-> ManifestOf(u)]}
PatchWrites(u) == {[path |-> f, text |-> Fixed(u[f])] : f \in Fixes(u)}
Patched(u) == [f \in DOMAIN u |-> IF f \in Fixes(u) THEN Fixed(u[f]) ELSE u[f]]

\* what holds of a run whatever happens to the disk
Shape(r) ==
    /\ DOMAIN r.unit \subseteq Authored /\ DOMAIN r.base \subseteq Authored
    /\ r.pc = "clean" => r.cmd = "clean"
    /\ r.pc = "compare" => r.cmd = "frozen"
    /\ r.pc \in {"write", "fill", "sweep"} => r.cmd # "frozen"
    /\ r.pc \in {"sweep", "gate"} => r.cmd # "fix"
    /\ r.pc = "read" => r.queue \in Seq(Authored)
    /\ r.pc \in {"write", "fill", "compare"} =>
          /\ r.queue \in Seq(Write)
          /\ Range(r.queue) \subseteq IF r.cmd = "fix" THEN PatchWrites(r.unit)
                                      ELSE OutWrites(r.unit)
    /\ r.pc = "fill" => r.queue # << >> /\ Head(r.queue).text # None
    /\ r.pc \in {"write", "fill"} /\ r.cmd = "fix" => r.base = r.unit /\ ~r.again

-----------------------------------------------------------------------------
(* What holds of a run that nobody disturbed, on a disk d.                 *)

Home(d)       == {f \in Authored : d[f] # None}
NowAt(d)      == [f \in Home(d) |-> d[f]]
OrphansAt(d, u) == {o \in OutTree \ ({Manifest} \cup Keep(u)) : d[o] # None}
Done(d, u)    == \A w \in OutWrites(u) : d[w.path] = w.text
MirrorAt(d, u) == Done(d, u) /\ OrphansAt(d, u) = {}

\* the files read so far are those listed that are not waiting, as they are
Reads(d, r) ==
    r.pc = "read" => /\ ~r.bad
                     /\ DOMAIN r.unit \cup Range(r.queue) = Home(d)
                     /\ \A f \in DOMAIN r.unit : r.unit[f] = d[f]

\* the outputs written so far are those that are not waiting
Emits(d, r) ==
    r.pc \in {"write", "fill"} /\ r.cmd # "fix" =>
        /\ r.unit = NowAt(d)
        /\ Distinct => \A w \in OutWrites(r.unit) :
                          w \in Range(r.queue) \/ d[w.path] = w.text

Sweeps(d, r) ==
    r.pc = "sweep" => r.unit = NowAt(d) /\ (Distinct => Done(d, r.unit))

\* a difference was found, or what differs is waiting
Compares(d, r) ==
    r.pc = "compare" =>
        /\ r.unit = NowAt(d)
        /\ r.bad => ~Done(d, r.unit)
        /\ ~r.bad => \A w \in OutWrites(r.unit) :
                        w \in Range(r.queue) \/ d[w.path] = w.text

Builds(d, r) ==
    Distinct /\ r.cmd = "build" /\ (r.pc = "gate" \/ (r.pc = "done" /\ r.code = 0))
        => MirrorAt(d, NowAt(d))

Freezes(d, r) ==
    r.cmd = "frozen" /\ r.pc = "gate" => (r.bad <=> ~MirrorAt(d, NowAt(d)))

\* a source is as it was read, or fixed, or its fix waits
Patches(d, r) ==
    r.cmd = "fix" /\ r.pc \in {"write", "fill"} =>
        \A f \in Authored :
            /\ f \notin DOMAIN r.base => d[f] = None
            /\ f \in DOMAIN r.base \ Fixes(r.base) => d[f] = r.base[f]
            /\ f \in Fixes(r.base) =>
                  \/ [path |-> f, text |-> Fixed(r.base[f])] \in Range(r.queue)
                  \/ d[f] = Fixed(r.base[f]) /\ d[f] # None

Rereads(d, r) ==
    r.cmd = "fix" /\ r.again /\ r.pc \in {"walk", "read"} => NowAt(d) = Patched(r.base)

Answers(d, r) ==
    r.cmd = "fix" /\ r.again /\ r.pc = "done" /\ r.code # 2 =>
        NowAt(d) = Patched(r.base) /\ r.code = Verdict(Errors(NowAt(d)))

Good(d, r) ==
    /\ Reads(d, r) /\ Emits(d, r) /\ Sweeps(d, r) /\ Compares(d, r) /\ Builds(d, r)
    /\ Freezes(d, r) /\ Patches(d, r) /\ Rereads(d, r) /\ Answers(d, r)

Fine(d, r) == Shape(r) /\ (r.calm => Good(d, r))

IInv == /\ disk \in Disk /\ run \in [Proc -> Runs]
        /\ \A p \in Proc : Fine(disk, run[p])

-----------------------------------------------------------------------------
(* The order of the walk.                                                  *)

\* The walk's order as far as the n-th file: what the function in Sorted is.
Upto(S, n, F) ==
    F = [i \in 0..n |-> IF i = 0 THEN << >>
                        ELSE IF SrcOrder[i] \in S THEN Append(F[i - 1], SrcOrder[i])
                        ELSE F[i - 1]]

\* The definition of Sorted by recursion is one: there is such a function.
LEMMA UptoExists == ASSUME NEW S, NEW n \in Nat PROVE \E F : Upto(S, n, F)
<1> DEFINE Bad == {k \in Nat : ~\E F : Upto(S, k, F)}
<1>1. SUFFICES ASSUME Bad # {} PROVE FALSE
  OBVIOUS
<1>2. PICK m \in Bad : \A k \in Bad : m <= k
  <2>1. Bad \in SUBSET Nat
    OBVIOUS
  <2> HIDE DEF Bad
  <2> QED BY <1>1, <2>1, Least
<1>3. CASE m = 0
  <2>1. Upto(S, 0, [i \in 0..0 |-> << >>])
    BY DEF Upto
  <2> QED BY <1>2, <1>3, <2>1
<1>4. CASE m # 0
  <2>1. m \in Nat /\ m - 1 \in Nat
    BY <1>2, <1>4
  <2>2. PICK F : Upto(S, m - 1, F)
    <3>1. m - 1 \notin Bad
      BY <1>2, <2>1
    <3> QED BY <2>1, <3>1
  <2> DEFINE G == [i \in 0..m |->
                     IF i = m THEN (IF SrcOrder[m] \in S THEN Append(F[m - 1], SrcOrder[m])
                                    ELSE F[m - 1])
                     ELSE F[i]]
  <2>3. \A i \in 0..m - 1 :
           F[i] = IF i = 0 THEN << >>
                  ELSE IF SrcOrder[i] \in S THEN Append(F[i - 1], SrcOrder[i])
                  ELSE F[i - 1]
    BY <2>1, <2>2 DEF Upto
  <2>4. \A i \in 0..m :
           G[i] = IF i = 0 THEN << >>
                  ELSE IF SrcOrder[i] \in S THEN Append(G[i - 1], SrcOrder[i])
                  ELSE G[i - 1]
    BY <1>4, <2>1, <2>3
  <2>5. G = [i \in 0..m |-> G[i]]
    OBVIOUS
  <2> HIDE DEF G
  <2>6. Upto(S, m, G)
    BY <2>4, <2>5 DEF Upto
  <2> QED BY <2>6, <1>2
<1> QED BY <1>3, <1>4

\* Sorting loses no file and adds none.
LEMMA SortedProperties ==
    ASSUME NEW S \in SUBSET SrcPath
    PROVE  Sorted(S) \in Seq(S) /\ Range(Sorted(S)) = S
<1> DEFINE N == Len(SrcOrder)
           F == CHOOSE F : Upto(S, N, F)
           Upto2(k) == F[k] \in Seq(S) /\ \A j \in 1..k : SrcOrder[j] \in S => SrcOrder[j] \in Range(F[k])
           Bad == {k \in 0..N : ~Upto2(k)}
<1>1. N \in Nat /\ SrcOrder \in Seq(Path) /\ DOMAIN SrcOrder = 1..N
  BY PathAssumption, LenProperties
<1>2. Upto(S, N, F)
  BY <1>1, UptoExists
<1>3. Sorted(S) = F[N]
  BY DEF Sorted, Upto
<1>4. F[0] = << >> /\ \A i \in 1..N : F[i] = IF SrcOrder[i] \in S THEN Append(F[i - 1], SrcOrder[i])
                                             ELSE F[i - 1]
  <2> HIDE DEF F, N
  <2>1. F = [i \in 0..N |-> IF i = 0 THEN << >>
                             ELSE IF SrcOrder[i] \in S THEN Append(F[i - 1], SrcOrder[i])
                             ELSE F[i - 1]]
    BY <1>2 DEF Upto
  <2>2. 0 \in 0..N /\ \A i \in 1..N : i \in 0..N /\ i # 0
    BY <1>1
  <2> QED BY <2>1, <2>2
<1> HIDE DEF F, N
<1>5. Bad = {}
  <2> SUFFICES ASSUME Bad # {} PROVE FALSE
    OBVIOUS
  <2>1. Bad \in SUBSET Nat
    BY <1>1
  <2> HIDE DEF Bad
  <2>2. PICK m \in Bad : \A k \in Bad : m <= k
    BY <2>1, Least
  <2>3. m \in 0..N /\ ~Upto2(m)
    BY <2>2 DEF Bad
  <2>4. m # 0
    <3>1. Upto2(0)
      BY <1>4, EmptySeq
    <3> QED BY <2>3, <3>1
  <2>5. m - 1 \in 0..N /\ m \in 1..N
    BY <1>1, <2>3, <2>4
  <2>6. Upto2(m - 1)
    BY <1>1, <2>2, <2>3, <2>5 DEF Bad
  <2> DEFINE s == F[m - 1]
             e == SrcOrder[m]
  <2>7. s \in Seq(S) /\ \A j \in 1..m - 1 : SrcOrder[j] \in S => SrcOrder[j] \in Range(s)
    BY <2>6
  <2>8. CASE e \notin S
    <3>1. F[m] = s
      BY <1>4, <2>5, <2>8
    <3> HIDE DEF s
    <3>2. \A j \in 1..m : SrcOrder[j] \in S => SrcOrder[j] \in Range(s)
      BY <2>5, <2>7, <2>8
    <3> QED BY <2>3, <2>7, <3>1, <3>2
  <2>9. CASE e \in S
    <3>1. F[m] = Append(s, e)
      BY <1>4, <2>5, <2>9
    <3> HIDE DEF s, e
    <3>2. Append(s, e) \in Seq(S) /\ Range(Append(s, e)) = Range(s) \cup {e}
      BY <2>7, <2>9, AppendProperties, RangeAppend
    <3>3. \A j \in 1..m : SrcOrder[j] \in S => SrcOrder[j] \in Range(Append(s, e))
      BY <2>5, <2>7, <3>2 DEF e
    <3> QED BY <2>3, <3>1, <3>2, <3>3
  <2> QED BY <2>8, <2>9
<1>6. Upto2(N)
  BY <1>1, <1>5
<1>7. Range(F[N]) \subseteq S
  BY <1>6, RangeOfSeq
<1>8. ASSUME NEW f \in S PROVE f \in Range(F[N])
  <2>1. PICK j \in 1..N : f = SrcOrder[j]
    BY <1>1 DEF SrcPath
  <2> QED BY <1>6, <2>1
<1> QED BY <1>3, <1>6, <1>7, <1>8

-----------------------------------------------------------------------------
(* Sources and outputs.                                                    *)

LEMMA SrcPathType == SrcPath \subseteq Path
<1>1. SrcOrder \in Seq(Path) /\ DOMAIN SrcOrder = 1..Len(SrcOrder)
  BY PathAssumption, LenProperties
<1>2. \A i \in 1..Len(SrcOrder) : SrcOrder[i] \in Path
  BY <1>1, ElementOfSeq
<1> QED BY <1>1, <1>2 DEF SrcPath

LEMMA Apart ==
    ASSUME Separate
    PROVE  /\ Authored \cap OutTree = {} /\ Authored \subseteq SrcPath
           /\ Walked = Authored /\ SrcPath \subseteq Path /\ OutTree \subseteq Path
           /\ Manifest \in OutTree
BY SrcPathType, PathAssumption DEF Separate, Authored, Walked

LEMMA UnitType ==
    ASSUME NEW u
    PROVE  u \in Units <=> /\ DOMAIN u \subseteq SrcPath
                           /\ u \in [DOMAIN u -> Text \cup {Torn}]
BY DEF Units

LEMMA NowType ==
    ASSUME Separate, NEW d \in Disk
    PROVE  NowAt(d) \in Units /\ DOMAIN NowAt(d) = Home(d) /\ Home(d) \subseteq Authored
<1>1. Home(d) \subseteq Authored /\ Authored \subseteq SrcPath /\ SrcPath \subseteq Path
  BY Apart DEF Home
<1>2. \A f \in Home(d) : d[f] \in Text \cup {Torn}
  BY <1>1 DEF Home, Disk, Holding
<1>3. DOMAIN NowAt(d) = Home(d) /\ NowAt(d) \in [Home(d) -> Text \cup {Torn}]
  BY <1>2 DEF NowAt
<1> QED BY <1>1, <1>3, UnitType

\* What is done under out leaves the author's tree as it is.
LEMMA NowSame ==
    ASSUME NEW d, NEW e, \A f \in Authored : d[f] = e[f]
    PROVE  Home(d) = Home(e) /\ NowAt(d) = NowAt(e)
<1>1. Home(d) = Home(e)
  BY DEF Home
<1>2. \A f \in Home(d) : d[f] = e[f]
  BY DEF Home
<1> QED BY <1>1, <1>2 DEF NowAt

LEMMA Named == /\ Now = NowAt(disk)
               /\ \A u : Orphans(u) = OrphansAt(disk, u)
BY DEF Now, NowAt, Home, Orphans, OrphansAt

\* A unit's writes are into out: texts for the outputs, and the manifest.
LEMMA OutWritesType ==
    ASSUME NEW u \in Units, NEW w \in OutWrites(u)
    PROVE  /\ w \in Write /\ w.path \in OutTree /\ w.text \in Text
           /\ w.path \in {Manifest} \cup Keep(u)
<1>1. DOMAIN u \subseteq SrcPath /\ OutTree \subseteq Path
  BY UnitType, PathAssumption
<1>2. CASE w = [path |-> Manifest, text |-> ManifestOf(u)]
  BY <1>1, <1>2, PathAssumption, TextAssumption DEF Write, Holding
<1>3. CASE w \in {[path |-> OutRel[f], text |-> Lower(f, u)] : f \in DOMAIN u}
  <2>1. PICK f \in DOMAIN u : w = [path |-> OutRel[f], text |-> Lower(f, u)]
    BY <1>3
  <2>2. OutRel[f] \in OutTree /\ OutRel[f] \in Path /\ Lower(f, u) \in Text
    BY <1>1, PathAssumption, TextAssumption
  <2>3. OutRel[f] \in Keep(u)
    BY DEF Keep
  <2> QED BY <2>1, <2>2, <2>3 DEF Write, Holding
<1> QED BY <1>2, <1>3 DEF OutWrites

\* and no two of them are to one file.
LEMMA OutWritesDistinct ==
    ASSUME Distinct, NEW u \in Units, DOMAIN u \subseteq Authored, Separate,
           NEW v \in OutWrites(u), NEW w \in OutWrites(u), v.path = w.path
    PROVE  v = w
<1> DEFINE O == {[path |-> OutRel[f], text |-> Lower(f, u)] : f \in DOMAIN u}
           m == [path |-> Manifest, text |-> ManifestOf(u)]
<1>1. \A f \in DOMAIN u : OutRel[f] # Manifest
  BY Apart, PathAssumption
<1>2. CASE v \in O /\ w \in O
  <2>1. PICK f \in DOMAIN u : v = [path |-> OutRel[f], text |-> Lower(f, u)]
    BY <1>2
  <2>2. PICK g \in DOMAIN u : w = [path |-> OutRel[g], text |-> Lower(g, u)]
    BY <1>2
  <2>3. f = g
    BY <2>1, <2>2 DEF Distinct
  <2> QED BY <2>1, <2>2, <2>3
<1>3. ASSUME NEW x \in O PROVE x.path # m.path
  BY <1>1
<1>4. v \in O \/ v = m
  BY DEF OutWrites
<1>5. w \in O \/ w = m
  BY DEF OutWrites
<1> QED BY <1>2, <1>3, <1>4, <1>5

LEMMA WritesAre ==
    ASSUME NEW u \in Units
    PROVE  Writes(u) \in Seq(Write) /\ Range(Writes(u)) = OutWrites(u)
<1> DEFINE s == Sorted(DOMAIN u)
           O == {[path |-> OutRel[f], text |-> Lower(f, u)] : f \in DOMAIN u}
           m == [path |-> Manifest, text |-> ManifestOf(u)]
           w(f) == [path |-> OutRel[f], text |-> Lower(f, u)]
<1>1. s \in Seq(DOMAIN u) /\ Range(s) = DOMAIN u
  BY UnitType, SortedProperties
<1> HIDE DEF s
<1>2. Len(s) \in Nat /\ \A i \in 1..Len(s) : s[i] \in DOMAIN u
  BY <1>1, LenProperties, ElementOfSeq
<1>3. Outputs(u) = [i \in 1..Len(s) |-> w(s[i])]
  BY DEF Outputs, s
<1>4. O \subseteq OutWrites(u) /\ m \in OutWrites(u) /\ OutWrites(u) = O \cup {m}
  BY DEF OutWrites
<1>5. OutWrites(u) \subseteq Write
  BY OutWritesType
<1>6. Outputs(u) \in Seq(Write) /\ Len(Outputs(u)) = Len(s)
  <2>1. \A i \in 1..Len(s) : w(s[i]) \in Write
    BY <1>2, <1>4, <1>5
  <2> HIDE DEF w
  <2> QED BY <1>2, <1>3, <2>1
<1>7. Range(Outputs(u)) = O
  <2>1. Range(Outputs(u)) = {Outputs(u)[i] : i \in 1..Len(s)}
    BY <1>6, RangeEquality
  <2>2. Range(s) = {s[i] : i \in 1..Len(s)}
    BY <1>1, RangeEquality
  <2>3. O = {w(f) : f \in DOMAIN u}
    OBVIOUS
  <2>4. \A i \in 1..Len(s) : Outputs(u)[i] = w(s[i])
    BY <1>3
  <2> HIDE DEF w, O
  <2>5. Range(Outputs(u)) = {w(s[i]) : i \in 1..Len(s)}
    BY <2>1, <2>4
  <2>6. \A f \in DOMAIN u : \E i \in 1..Len(s) : f = s[i]
    BY <1>1, <2>2
  <2> QED BY <1>2, <2>3, <2>5, <2>6
<1> HIDE DEF O, m
<1>8. Writes(u) = Append(Outputs(u), m)
  BY DEF Writes, m
<1> QED BY <1>4, <1>5, <1>6, <1>7, <1>8, RangeAppend, AppendProperties

LEMMA FixWritesAre ==
    ASSUME NEW u \in Units
    PROVE  /\ FixWrites(u) \in Seq(Write) /\ Range(FixWrites(u)) = PatchWrites(u)
           /\ Fixes(u) \subseteq DOMAIN u
           /\ \A f \in DOMAIN u : Fixed(u[f]) \in Text \cup {None}
<1> DEFINE s == Sorted(Fixes(u))
           w(f) == [path |-> f, text |-> Fixed(u[f])]
<1>1. /\ Fixes(u) \subseteq DOMAIN u /\ DOMAIN u \subseteq SrcPath /\ SrcPath \subseteq Path
      /\ \A f \in DOMAIN u : u[f] \in Text \cup {Torn}
  <2>1. DOMAIN u \subseteq SrcPath /\ u \in [DOMAIN u -> Text \cup {Torn}]
    BY UnitType
  <2>2. Fixes(u) \subseteq DOMAIN u
    BY TextAssumption
  <2> QED BY <2>1, <2>2, SrcPathType
<1>2. \A f \in DOMAIN u : Fixed(u[f]) \in Text \cup {None}
  BY <1>1, TextAssumption
<1>3. s \in Seq(Fixes(u)) /\ Range(s) = Fixes(u)
  BY <1>1, SortedProperties
<1> HIDE DEF s
<1>4. Len(s) \in Nat /\ \A i \in 1..Len(s) : s[i] \in Fixes(u)
  BY <1>3, LenProperties, ElementOfSeq
<1>5. FixWrites(u) = [i \in 1..Len(s) |-> w(s[i])]
  BY DEF FixWrites, s
<1>6. \A f \in Fixes(u) : w(f) \in Write
  BY <1>1, <1>2 DEF Write, Holding
<1>7. PatchWrites(u) = {w(f) : f \in Fixes(u)}
  BY DEF PatchWrites
<1> HIDE DEF w
<1>8. FixWrites(u) \in Seq(Write) /\ Len(FixWrites(u)) = Len(s)
  BY <1>4, <1>5, <1>6
<1>9. Range(FixWrites(u)) = PatchWrites(u)
  <2>1. Range(FixWrites(u)) = {FixWrites(u)[i] : i \in 1..Len(s)}
    BY <1>8, RangeEquality
  <2>2. Range(s) = {s[i] : i \in 1..Len(s)}
    BY <1>3, RangeEquality
  <2>3. \A i \in 1..Len(s) : FixWrites(u)[i] = w(s[i])
    BY <1>5
  <2>4. Range(FixWrites(u)) = {w(s[i]) : i \in 1..Len(s)}
    BY <2>1, <2>3
  <2>5. \A f \in Fixes(u) : \E i \in 1..Len(s) : f = s[i]
    BY <1>3, <2>2
  <2> QED BY <1>4, <1>7, <2>4, <2>5
<1> QED BY <1>1, <1>2, <1>8, <1>9

LEMMA Mirrored == \A u : Mirror(u) <=> MirrorAt(disk, u)
<1> TAKE u
<1>1. Done(disk, u) <=> /\ \A f \in DOMAIN u : disk[OutRel[f]] = Lower(f, u)
                        /\ disk[Manifest] = ManifestOf(u)
  <2> DEFINE O == {[path |-> OutRel[f], text |-> Lower(f, u)] : f \in DOMAIN u}
             m == [path |-> Manifest, text |-> ManifestOf(u)]
  <2>1. Done(disk, u) <=> disk[m.path] = m.text /\ \A w \in O : disk[w.path] = w.text
    BY DEF Done, OutWrites
  <2>2. (\A w \in O : disk[w.path] = w.text)
          <=> \A f \in DOMAIN u : disk[OutRel[f]] = Lower(f, u)
    <3>1. ASSUME \A w \in O : disk[w.path] = w.text, NEW f \in DOMAIN u
          PROVE  disk[OutRel[f]] = Lower(f, u)
      <4>1. [path |-> OutRel[f], text |-> Lower(f, u)] \in O
        OBVIOUS
      <4> QED BY <3>1, <4>1
    <3>2. ASSUME \A f \in DOMAIN u : disk[OutRel[f]] = Lower(f, u), NEW w \in O
          PROVE  disk[w.path] = w.text
      BY <3>2
    <3> QED BY <3>1, <3>2
  <2> QED BY <2>1, <2>2
<1> QED BY <1>1, Named DEF Mirror, MirrorAt

-----------------------------------------------------------------------------
(* A step of one process, seen by all.                                     *)

\* p goes on and the disk stays: the others see nothing.
LEMMA PrivateStep ==
    ASSUME IInv, NEW p \in Proc, NEW r \in Runs, Fine(disk, r), Private(p, r)
    PROVE  IInv'
<1>1. disk' = disk /\ run' = [run EXCEPT ![p] = r]
  BY DEF Private
<1>2. run' \in [Proc -> Runs] /\ \A q \in Proc : run'[q] = IF q = p THEN r ELSE run[q]
  BY <1>1 DEF IInv
<1>3. \A q \in Proc : Fine(disk', run'[q])
  BY <1>1, <1>2 DEF IInv
<1> QED BY <1>1, <1>2, <1>3 DEF IInv

\* What holds of a run by its shape holds of it disturbed.
Disturbed(r) == [r EXCEPT !.calm = FALSE]

LEMMA DisturbedFine ==
    ASSUME NEW d, NEW r \in Runs, Shape(r)
    PROVE  Disturbed(r) \in Runs /\ Fine(d, Disturbed(r))
<1> DEFINE s == Disturbed(r)
<1>1. s \in Runs /\ s.calm = FALSE
  BY DEF Runs, Disturbed
<1>2. /\ s.unit = r.unit /\ s.base = r.base /\ s.pc = r.pc /\ s.cmd = r.cmd
      /\ s.queue = r.queue /\ s.again = r.again
  BY DEF Runs, Disturbed
<1> HIDE DEF s
<1>3. Shape(s)
  BY <1>2 DEF Shape
<1> QED BY <1>1, <1>3 DEF Fine, s

\* p writes a file: every other run is disturbed.
LEMMA PublicStep ==
    ASSUME IInv, NEW p \in Proc, NEW r \in Runs, NEW path \in Path, NEW text \in Holding,
           Fine([disk EXCEPT ![path] = text], r), Public(p, r, path, text)
    PROVE  IInv'
<1>1. disk' = [disk EXCEPT ![path] = text] /\ disk' \in Disk
  BY DEF Public, IInv, Disk
<1>2. \A q \in Proc : run'[q] = IF q = p THEN r ELSE Disturbed(run[q])
  BY DEF Public, Disturbed
<1>3. \A q \in Proc : run'[q] \in Runs /\ Fine(disk', run'[q])
  <2> TAKE q \in Proc
  <2>1. CASE q = p
    BY <1>1, <1>2, <2>1
  <2>2. CASE q # p
    <3>1. run[q] \in Runs /\ Shape(run[q])
      BY DEF IInv, Fine
    <3> QED BY <1>2, <2>2, <3>1, DisturbedFine
  <2> QED BY <2>1, <2>2
<1>4. run' \in [Proc -> Runs]
  BY <1>3 DEF Public
<1> QED BY <1>1, <1>3, <1>4 DEF IInv

LEMMA EditStep ==
    ASSUME IInv, NEW f \in Authored, NEW t \in AuthorText, Edit(f, t), Separate
    PROVE  IInv'
<1>1. f \in Path /\ t \in Holding
  BY Apart, TextAssumption DEF Holding
<1>2. disk' \in Disk
  BY <1>1 DEF Edit, IInv, Disk
<1>3. \A q \in Proc : run'[q] = Disturbed(run[q])
  BY DEF Edit, Disturbed
<1>4. \A q \in Proc : run'[q] \in Runs /\ Fine(disk', run'[q])
  <2>1. \A q \in Proc : run[q] \in Runs /\ Shape(run[q])
    BY DEF IInv, Fine
  <2> QED BY <1>3, <2>1, DisturbedFine
<1>5. run' \in [Proc -> Runs]
  BY <1>4 DEF Edit
<1> QED BY <1>2, <1>4, <1>5 DEF IInv

-----------------------------------------------------------------------------
(* The steps of a run, one by one.                                         *)

LEMMA RunType ==
    ASSUME IInv, NEW p \in Proc
    PROVE  /\ run[p] \in Runs /\ Shape(run[p]) /\ disk \in Disk
           /\ run[p].calm => Good(disk, run[p])
BY DEF IInv, Fine

LEMMA NoUnitType == NoUnit \in Units /\ DOMAIN NoUnit = {}
<1>1. DOMAIN NoUnit = {} /\ NoUnit \in [{} -> Text \cup {Torn}]
  BY DEF NoUnit
<1> QED BY <1>1, UnitType

LEMMA RestingType == Resting \in Runs /\ \A d : Fine(d, Resting)
<1>1. Resting \in Runs
  BY NoUnitType, EmptySeq DEF Resting, Runs, Points
<1>2. /\ Resting.pc = "rest" /\ Resting.cmd = "none"
      /\ Resting.unit = NoUnit /\ Resting.base = NoUnit
  BY DEF Resting
<1>3. Shape(Resting)
  BY <1>2, NoUnitType DEF Shape
<1>4. \A d : Good(d, Resting)
  BY <1>2 DEF Good, Reads, Emits, Sweeps, Compares, Builds, Freezes, Patches, Rereads, Answers
<1> QED BY <1>1, <1>3, <1>4 DEF Fine

LEMMA StartStep ==
    ASSUME IInv, NEW p \in Proc, NEW c \in Commands, Start(p, c)
    PROVE  IInv'
<1> DEFINE r == [Resting EXCEPT !.cmd = c, !.pc = IF c = "clean" THEN "clean" ELSE "walk"]
<1>1. r \in Runs
  BY NoUnitType, EmptySeq DEF Resting, Runs, Points
<1>2. /\ r.pc \in {"clean", "walk"} /\ r.cmd = c /\ (r.pc = "clean" => c = "clean")
      /\ r.unit = NoUnit /\ r.base = NoUnit /\ ~r.again
  BY DEF Resting
<1>3. Private(p, r)
  BY DEF Start
<1> HIDE DEF r
<1>4. Shape(r)
  BY <1>2, NoUnitType DEF Shape
<1>5. Good(disk, r)
  BY <1>2 DEF Good, Reads, Emits, Sweeps, Compares, Builds, Freezes, Patches, Rereads, Answers
<1> QED BY <1>1, <1>3, <1>4, <1>5, PrivateStep DEF Fine

LEMMA WalkStep ==
    ASSUME IInv, Separate, NEW p \in Proc, Walk(p)
    PROVE  IInv'
<1> DEFINE r0 == run[p]
           r  == [run[p] EXCEPT !.pc = "read", !.queue = Sorted(Present),
                                !.unit = NoUnit, !.bad = FALSE]
<1>1. r0 \in Runs /\ Shape(r0) /\ disk \in Disk /\ (r0.calm => Good(disk, r0)) /\ r0.pc = "walk"
  BY RunType DEF Walk
<1>2. Present = Home(disk) /\ Present \subseteq Authored /\ Present \subseteq SrcPath
  BY Apart DEF Present, Home
<1>3. Sorted(Present) \in Seq(Present) /\ Range(Sorted(Present)) = Present
  BY <1>2, SortedProperties
<1>4. Sorted(Present) \in Seq(Authored) /\ Sorted(Present) \in Seq(SrcPath)
  BY <1>2, <1>3, SeqMonotonic
<1>5. r \in Runs
  BY <1>1, <1>4, NoUnitType DEF Runs, Points
<1>6. /\ r.pc = "read" /\ r.queue = Sorted(Present) /\ r.unit = NoUnit /\ ~r.bad
      /\ r.base = r0.base /\ r.cmd = r0.cmd /\ r.again = r0.again /\ r.calm = r0.calm
  BY <1>1 DEF Runs
<1>7. Private(p, r)
  BY DEF Walk
<1> HIDE DEF r, r0
<1>8. Shape(r)
  BY <1>1, <1>4, <1>6, NoUnitType DEF Shape
<1>9. r.calm => Good(disk, r)
  <2>1. Reads(disk, r)
    BY <1>2, <1>3, <1>6, NoUnitType DEF Reads
  <2>2. r.calm => Rereads(disk, r)
    BY <1>1, <1>6 DEF Good, Rereads
  <2> QED BY <1>6, <2>1, <2>2
          DEF Good, Emits, Sweeps, Compares, Builds, Freezes, Patches, Answers
<1> QED BY <1>5, <1>7, <1>8, <1>9, PrivateStep DEF Fine

LEMMA ReadFileStep ==
    ASSUME IInv, Separate, NEW p \in Proc, ReadFile(p)
    PROVE  IInv'
<1> DEFINE r0 == run[p]
           f  == Head(r0.queue)
           u  == IF disk[f] = None THEN r0.unit
                 ELSE [g \in DOMAIN r0.unit \cup {f} |-> IF g = f THEN disk[f] ELSE r0.unit[g]]
           r  == [r0 EXCEPT !.queue = Tail(r0.queue), !.unit = u,
                            !.bad = r0.bad \/ disk[f] = None]
<1>1. /\ r0 \in Runs /\ Shape(r0) /\ disk \in Disk /\ (r0.calm => Good(disk, r0))
      /\ r0.pc = "read" /\ r0.queue # << >>
  BY RunType DEF ReadFile
<1>2. Private(p, r)
  BY DEF ReadFile
<1>3. r0.queue \in Seq(Authored) /\ DOMAIN r0.unit \subseteq Authored /\ r0.unit \in Units
  BY <1>1 DEF Shape, Runs
<1>4. /\ f \in Authored /\ Tail(r0.queue) \in Seq(Authored)
      /\ Range(r0.queue) = {f} \cup Range(Tail(r0.queue))
  BY <1>1, <1>3, RangeHeadTail
<1>5. f \in SrcPath /\ f \in Path /\ Tail(r0.queue) \in Seq(SrcPath)
  BY <1>4, Apart, SeqMonotonic
<1>6. u \in Units /\ DOMAIN u \subseteq Authored
  <2>1. CASE disk[f] = None
    BY <1>3, <2>1
  <2>2. CASE disk[f] # None
    <3>1. disk[f] \in Text \cup {Torn}
      BY <1>1, <1>5, <2>2 DEF Disk, Holding
    <3>2. DOMAIN r0.unit \subseteq SrcPath /\ r0.unit \in [DOMAIN r0.unit -> Text \cup {Torn}]
      BY <1>3, UnitType
    <3>3. DOMAIN u = DOMAIN r0.unit \cup {f} /\ u \in [DOMAIN r0.unit \cup {f} -> Text \cup {Torn}]
      BY <2>2, <3>1, <3>2
    <3> HIDE DEF u, f
    <3>4. DOMAIN u \subseteq SrcPath
      BY <1>5, <3>2, <3>3
    <3> QED BY <1>3, <1>4, <3>3, <3>4, UnitType
  <2> QED BY <2>1, <2>2
<1>7. r \in Runs
  <2>1. (r0.bad \/ disk[f] = None) \in BOOLEAN
    OBVIOUS
  <2> HIDE DEF f, u
  <2> QED BY <1>1, <1>5, <1>6, <2>1 DEF Runs
<1>8. /\ r.pc = "read" /\ r.queue = Tail(r0.queue) /\ r.unit = u /\ r.base = r0.base
      /\ r.cmd = r0.cmd /\ r.again = r0.again /\ r.calm = r0.calm
      /\ r.bad <=> (r0.bad \/ disk[f] = None)
  <2> HIDE DEF f, u
  <2> QED BY <1>1 DEF Runs
<1>9. Shape(r)
  <2> HIDE DEF r, u
  <2> QED BY <1>1, <1>4, <1>6, <1>8 DEF Shape
<1>10. ASSUME r.calm PROVE Good(disk, r)
  <2>1. /\ ~r0.bad /\ DOMAIN r0.unit \cup Range(r0.queue) = Home(disk)
        /\ \A g \in DOMAIN r0.unit : r0.unit[g] = disk[g]
    <3> HIDE DEF r, r0
    <3> QED BY <1>1, <1>8, <1>10 DEF Good, Reads
  <2>2. disk[f] # None
    BY <1>4, <2>1 DEF Home
  <2>3. DOMAIN u = DOMAIN r0.unit \cup {f} /\ \A g \in DOMAIN u : u[g] = disk[g]
    BY <2>1, <2>2
  <2> HIDE DEF r, u, f, r0
  <2>4. Reads(disk, r)
    BY <1>4, <1>8, <2>1, <2>2, <2>3 DEF Reads
  <2>5. Rereads(disk, r)
    BY <1>1, <1>8, <1>10 DEF Good, Rereads
  <2> QED BY <1>8, <2>4, <2>5
          DEF Good, Emits, Sweeps, Compares, Builds, Freezes, Patches, Answers
<1> HIDE DEF r
<1> QED BY <1>2, <1>7, <1>9, <1>10, PrivateStep DEF Fine

\* A run ends with what it answers.
LEMMA EndedFine ==
    ASSUME NEW d, NEW r0 \in Runs, Shape(r0), NEW code \in {0, 1, 2},
           Distinct /\ r0.calm /\ r0.cmd = "build" /\ code = 0 => MirrorAt(d, NowAt(d)),
           r0.calm /\ r0.cmd = "fix" /\ r0.again /\ code # 2 =>
               NowAt(d) = Patched(r0.base) /\ code = Verdict(Errors(NowAt(d)))
    PROVE  Ended(r0, code) \in Runs /\ Fine(d, Ended(r0, code))
<1> DEFINE r == Ended(r0, code)
<1>1. r \in Runs
  BY EmptySeq DEF Ended, Runs, Points
<1>2. /\ r.pc = "done" /\ r.code = code /\ r.queue = << >> /\ r.unit = r0.unit
      /\ r.base = r0.base /\ r.cmd = r0.cmd /\ r.again = r0.again /\ r.calm = r0.calm
  BY DEF Ended, Runs
<1> HIDE DEF r
<1>3. Shape(r)
  BY <1>2 DEF Shape
<1>4. r.calm => Builds(d, r) /\ Answers(d, r)
  BY <1>2 DEF Builds, Answers
<1>5. r.calm => Good(d, r)
  BY <1>2, <1>4 DEF Good, Reads, Emits, Sweeps, Compares, Freezes, Patches, Rereads
<1> QED BY <1>1, <1>3, <1>5 DEF Fine, r

\* Everything is read: the unit is the author's tree.
LEMMA ReadIsNow ==
    ASSUME Separate, NEW d \in Disk, NEW r \in Runs, r.pc = "read", r.queue = << >>, Reads(d, r)
    PROVE  r.unit = NowAt(d) /\ ~r.bad
<1>1. Range(<< >>) = {}
  BY RangeEmpty
<1>2. DOMAIN r.unit = Home(d) /\ \A f \in DOMAIN r.unit : r.unit[f] = d[f]
  BY <1>1 DEF Reads
<1>3. r.unit \in Units
  BY DEF Runs
<1>4. r.unit = [f \in DOMAIN r.unit |-> r.unit[f]]
  BY <1>3, UnitType
<1>5. NowAt(d) = [f \in Home(d) |-> d[f]]
  BY DEF NowAt
<1> HIDE DEF Units
<1> QED BY <1>2, <1>4, <1>5 DEF Reads

LEMMA StagesStep ==
    ASSUME IInv, Separate, NEW p \in Proc, Stages(p)
    PROVE  IInv'
<1> DEFINE r0  == run[p]
           bad == r0.bad \/ Errors(r0.unit)
           fix == r0.cmd = "fix" /\ ~r0.again
<1>1. /\ r0 \in Runs /\ Shape(r0) /\ disk \in Disk /\ (r0.calm => Good(disk, r0))
      /\ r0.pc = "read" /\ r0.queue = << >>
  BY RunType DEF Stages
<1>2. r0.unit \in Units /\ DOMAIN r0.unit \subseteq Authored
  BY <1>1 DEF Shape, Runs
<1>3. r0.calm => r0.unit = NowAt(disk) /\ ~r0.bad
  BY <1>1, ReadIsNow DEF Good
<1>4. CASE fix /\ Fixes(r0.unit) # {}
  <2> DEFINE r == [r0 EXCEPT !.pc = "write", !.base = r0.unit, !.queue = FixWrites(r0.unit)]
  <2>1. Private(p, r)
    BY <1>4 DEF Stages
  <2>2. /\ FixWrites(r0.unit) \in Seq(Write)
        /\ Range(FixWrites(r0.unit)) = PatchWrites(r0.unit)
        /\ Fixes(r0.unit) \subseteq DOMAIN r0.unit
    BY <1>2, FixWritesAre
  <2>3. r \in Runs
    BY <1>1, <1>2, <2>2 DEF Runs, Points
  <2>4. /\ r.pc = "write" /\ r.queue = FixWrites(r0.unit) /\ r.unit = r0.unit
        /\ r.base = r0.unit /\ r.cmd = "fix" /\ ~r.again /\ r.calm = r0.calm
    BY <1>1, <1>4 DEF Runs
  <2> HIDE DEF r
  <2>5. Shape(r)
    BY <1>2, <2>2, <2>4 DEF Shape
  <2>6. ASSUME r.calm PROVE Good(disk, r)
    <3>1. r.base = NowAt(disk) /\ DOMAIN r.base = Home(disk)
      BY <1>1, <1>3, <2>4, <2>6, NowType
    <3>2. \A f \in Authored : f \notin DOMAIN r.base => disk[f] = None
      BY <3>1 DEF Home
    <3>3. \A f \in DOMAIN r.base : r.base[f] = disk[f]
      BY <3>1 DEF NowAt
    <3>4. \A f \in Fixes(r.base) :
             [path |-> f, text |-> Fixed(r.base[f])] \in Range(r.queue)
      BY <2>2, <2>4 DEF PatchWrites
    <3>5. Patches(disk, r)
      BY <3>2, <3>3, <3>4 DEF Patches
    <3> QED BY <2>4, <3>5
            DEF Good, Reads, Emits, Sweeps, Compares, Builds, Freezes, Rereads, Answers
  <2> QED BY <2>1, <2>3, <2>5, <2>6, PrivateStep DEF Fine
<1>5. CASE ~(fix /\ Fixes(r0.unit) # {}) /\ (r0.cmd \in {"check", "fix"} \/ bad)
  <2>1. Private(p, Ended(r0, Verdict(bad)))
    BY <1>5 DEF Stages
  <2>2. Verdict(bad) \in {0, 1, 2} /\ (bad => Verdict(bad) = 1)
    BY DEF Verdict
  <2>3. r0.cmd = "build" => Verdict(bad) # 0
    BY <1>5, <2>2
  <2>4. ASSUME r0.calm, r0.cmd = "fix", r0.again
        PROVE  NowAt(disk) = Patched(r0.base) /\ Verdict(bad) = Verdict(Errors(NowAt(disk)))
    <3>1. NowAt(disk) = Patched(r0.base)
      BY <1>1, <2>4 DEF Good, Rereads
    <3>2. bad <=> Errors(NowAt(disk))
      BY <1>3, <2>4
    <3> QED BY <3>1, <3>2 DEF Verdict
  <2> HIDE DEF bad
  <2>5. Ended(r0, Verdict(bad)) \in Runs /\ Fine(disk, Ended(r0, Verdict(bad)))
    BY <1>1, <2>2, <2>3, <2>4, EndedFine
  <2> QED BY <2>1, <2>5, PrivateStep
<1>6. CASE ~(fix /\ Fixes(r0.unit) # {}) /\ r0.cmd \notin {"check", "fix"} /\ ~bad
  <2> DEFINE r == [r0 EXCEPT !.pc = IF r0.cmd = "frozen" THEN "compare" ELSE "write",
                             !.queue = Writes(r0.unit)]
  <2>1. Private(p, r)
    BY <1>6 DEF Stages
  <2>2. Writes(r0.unit) \in Seq(Write) /\ Range(Writes(r0.unit)) = OutWrites(r0.unit)
    BY <1>2, WritesAre
  <2>3. r \in Runs
    BY <1>1, <2>2 DEF Runs, Points
  <2>4. /\ r.pc = IF r.cmd = "frozen" THEN "compare" ELSE "write"
        /\ r.queue = Writes(r0.unit) /\ r.unit = r0.unit /\ r.base = r0.base
        /\ r.cmd = r0.cmd /\ r.cmd # "fix" /\ r.calm = r0.calm /\ r.bad = r0.bad /\ ~r.bad
    BY <1>1, <1>6 DEF Runs
  <2> HIDE DEF r
  <2>5. Shape(r)
    BY <1>1, <1>2, <2>2, <2>4 DEF Shape
  <2>6. ASSUME r.calm PROVE Good(disk, r)
    <3>1. r.unit = NowAt(disk)
      BY <1>3, <2>4, <2>6
    <3>2. Emits(disk, r) /\ Compares(disk, r)
      BY <2>2, <2>4, <3>1 DEF Emits, Compares
    <3> QED BY <2>4, <3>2
            DEF Good, Reads, Sweeps, Builds, Freezes, Patches, Rereads, Answers
  <2> QED BY <2>1, <2>3, <2>5, <2>6, PrivateStep DEF Fine
<1> QED BY <1>4, <1>5, <1>6

\* The next write of a run, and what holds around it.
LEMMA NextWrite ==
    ASSUME IInv, Separate, NEW p \in Proc, run[p].pc \in {"write", "fill", "compare"},
           run[p].queue # << >>
    PROVE  LET r == run[p]  h == Head(r.queue) IN
           /\ h \in Write /\ h.path \in Path /\ h.text \in Holding
           /\ Tail(r.queue) \in Seq(Write)
           /\ Range(r.queue) = {h} \cup Range(Tail(r.queue))
           /\ r.unit \in Units /\ DOMAIN r.unit \subseteq Authored
           /\ r.cmd # "fix" => /\ h \in OutWrites(r.unit) /\ h.path \in OutTree
                               /\ Distinct => \A w \in OutWrites(r.unit) : w.path = h.path => w = h
           /\ r.cmd = "fix" => /\ h.path \in Fixes(r.unit) /\ Fixes(r.unit) \subseteq DOMAIN r.unit
                               /\ h.text = Fixed(r.unit[h.path])
<1> DEFINE r == run[p]
           h == Head(r.queue)
<1>1. /\ r \in Runs /\ r.unit \in Units /\ DOMAIN r.unit \subseteq Authored
      /\ r.queue \in Seq(Write) /\ r.queue # << >>
      /\ Range(r.queue) \subseteq IF r.cmd = "fix" THEN PatchWrites(r.unit) ELSE OutWrites(r.unit)
  BY RunType DEF Shape, Runs
<1>2. /\ h \in Write /\ Tail(r.queue) \in Seq(Write)
      /\ Range(r.queue) = {h} \cup Range(Tail(r.queue))
  BY <1>1, RangeHeadTail
<1>3. h.path \in Path /\ h.text \in Holding
  BY <1>2 DEF Write
<1> HIDE DEF r, h
<1>4. ASSUME r.cmd # "fix"
      PROVE  /\ h \in OutWrites(r.unit) /\ h.path \in OutTree
             /\ Distinct => \A w \in OutWrites(r.unit) : w.path = h.path => w = h
  BY <1>1, <1>2, <1>4, OutWritesType, OutWritesDistinct
<1>5. ASSUME r.cmd = "fix"
      PROVE  /\ h.path \in Fixes(r.unit) /\ Fixes(r.unit) \subseteq DOMAIN r.unit
             /\ h.text = Fixed(r.unit[h.path])
  <2>1. PICK f \in Fixes(r.unit) : h = [path |-> f, text |-> Fixed(r.unit[f])]
    BY <1>1, <1>2, <1>5 DEF PatchWrites
  <2> QED BY <1>1, <2>1, FixWritesAre
<1> QED BY <1>1, <1>2, <1>3, <1>4, <1>5 DEF r, h

LEMMA OpenFileStep ==
    ASSUME IInv, Separate, NEW p \in Proc, OpenFile(p)
    PROVE  IInv'
<1> DEFINE r0 == run[p]
           h  == Head(r0.queue)
           r  == [r0 EXCEPT !.pc = "fill"]
           d  == [disk EXCEPT ![h.path] = Torn]
<1>1. /\ r0 \in Runs /\ Shape(r0) /\ disk \in Disk /\ (r0.calm => Good(disk, r0))
      /\ r0.pc = "write" /\ r0.queue # << >> /\ h.text # None
  BY RunType DEF OpenFile
<1>2. Public(p, r, h.path, Torn)
  BY DEF OpenFile
<1>3. /\ h \in Write /\ h.path \in Path /\ Range(r0.queue) = {h} \cup Range(Tail(r0.queue))
      /\ r0.cmd # "fix" => /\ h.path \in OutTree
                           /\ Distinct => \A w \in OutWrites(r0.unit) : w.path = h.path => w = h
      /\ r0.cmd = "fix" => h.path \in Fixes(r0.unit) /\ h.text = Fixed(r0.unit[h.path])
  BY <1>1, NextWrite
<1>4. r \in Runs
  BY <1>1 DEF Runs, Points
<1>5. /\ r.pc = "fill" /\ r.queue = r0.queue /\ r.unit = r0.unit /\ r.base = r0.base
      /\ r.cmd = r0.cmd /\ r.again = r0.again /\ r.calm = r0.calm
  BY <1>1 DEF Runs
<1> HIDE DEF r
<1>6. Shape(r)
  BY <1>1, <1>5 DEF Shape
<1>7. Torn \in Holding /\ \A f \in Path : d[f] = IF f = h.path THEN Torn ELSE disk[f]
  BY <1>1 DEF Holding, Disk
<1> HIDE DEF d
<1>8. ASSUME r.calm PROVE Good(d, r)
  <2>1. CASE r.cmd # "fix"
    <3>1. \A f \in Authored : d[f] = disk[f]
      BY <1>3, <1>5, <1>7, <2>1, Apart
    <3>2. r.unit = NowAt(d)
      BY <1>1, <1>5, <1>8, <2>1, <3>1, NowSame DEF Good, Emits
    <3>3. ASSUME Distinct, NEW w \in OutWrites(r.unit) PROVE w \in Range(r.queue) \/ d[w.path] = w.text
      <4>1. w \in Range(r0.queue) \/ disk[w.path] = w.text
        BY <1>1, <1>5, <1>8, <2>1, <3>3 DEF Good, Emits
      <4>2. w.path \in Path
        BY <1>1, <1>5, OutWritesType DEF Runs, Write
      <4> QED BY <1>3, <1>5, <1>7, <2>1, <3>3, <4>1, <4>2
    <3>4. Emits(d, r)
      BY <3>2, <3>3 DEF Emits
    <3> QED BY <1>5, <2>1, <3>4
            DEF Good, Reads, Sweeps, Compares, Builds, Freezes, Patches, Rereads, Answers
  <2>2. CASE r.cmd = "fix"
    <3>1. r0.base = r0.unit /\ Patches(disk, r0)
      BY <1>1, <1>5, <1>8, <2>2 DEF Shape, Good
    <3>2. ASSUME NEW f \in Authored
          PROVE  /\ f \notin DOMAIN r.base => d[f] = None
                 /\ f \in DOMAIN r.base \ Fixes(r.base) => d[f] = r.base[f]
                 /\ f \in Fixes(r.base) =>
                       \/ [path |-> f, text |-> Fixed(r.base[f])] \in Range(r.queue)
                       \/ d[f] = Fixed(r.base[f]) /\ d[f] # None
      <4>1. f \in Path
        BY Apart
      <4>2. CASE f = h.path
        <5>1. h = [path |-> f, text |-> Fixed(r.base[f])] /\ f \in Fixes(r.base)
          BY <1>3, <1>5, <2>2, <3>1, <4>2 DEF Write
        <5>2. f \in DOMAIN r.base
          BY <1>1, <1>5, <3>1, <5>1, FixWritesAre DEF Runs
        <5> QED BY <1>3, <1>5, <5>1, <5>2
      <4>3. CASE f # h.path
        BY <1>1, <1>5, <1>7, <2>2, <3>1, <4>1, <4>3 DEF Patches
      <4> QED BY <4>2, <4>3
    <3>3. Patches(d, r)
      BY <3>2 DEF Patches
    <3> QED BY <1>1, <1>5, <2>2, <3>3
            DEF Good, Reads, Emits, Sweeps, Compares, Builds, Freezes, Rereads, Answers
  <2> QED BY <2>1, <2>2
<1> QED BY <1>2, <1>3, <1>4, <1>6, <1>7, <1>8, PublicStep DEF Fine, d

LEMMA FillFileStep ==
    ASSUME IInv, Separate, NEW p \in Proc, FillFile(p)
    PROVE  IInv'
<1> DEFINE r0 == run[p]
           h  == Head(r0.queue)
           r  == [r0 EXCEPT !.pc = "write", !.queue = Tail(r0.queue)]
           d  == [disk EXCEPT ![h.path] = h.text]
<1>1. /\ r0 \in Runs /\ Shape(r0) /\ disk \in Disk /\ (r0.calm => Good(disk, r0))
      /\ r0.pc = "fill" /\ r0.queue # << >> /\ h.text # None
  BY RunType DEF FillFile, Shape
<1>2. Public(p, r, h.path, h.text)
  BY DEF FillFile
<1>3. /\ h \in Write /\ h.path \in Path /\ h.text \in Holding
      /\ Tail(r0.queue) \in Seq(Write) /\ Range(r0.queue) = {h} \cup Range(Tail(r0.queue))
      /\ r0.cmd # "fix" => /\ h.path \in OutTree
                           /\ Distinct => \A w \in OutWrites(r0.unit) : w.path = h.path => w = h
      /\ r0.cmd = "fix" => h.path \in Fixes(r0.unit) /\ h.text = Fixed(r0.unit[h.path])
  BY <1>1, NextWrite
<1>4. r \in Runs
  BY <1>1, <1>3 DEF Runs, Points
<1>5. /\ r.pc = "write" /\ r.queue = Tail(r0.queue) /\ r.unit = r0.unit /\ r.base = r0.base
      /\ r.cmd = r0.cmd /\ r.again = r0.again /\ r.calm = r0.calm
  BY <1>1 DEF Runs
<1> HIDE DEF r
<1>6. Shape(r)
  BY <1>1, <1>3, <1>5 DEF Shape
<1>7. \A f \in Path : d[f] = IF f = h.path THEN h.text ELSE disk[f]
  BY <1>1 DEF Disk
<1> HIDE DEF d
<1>8. ASSUME r.calm PROVE Good(d, r)
  <2>1. CASE r.cmd # "fix"
    <3>1. \A f \in Authored : d[f] = disk[f]
      BY <1>3, <1>5, <1>7, <2>1, Apart
    <3>2. r.unit = NowAt(d)
      BY <1>1, <1>5, <1>8, <2>1, <3>1, NowSame DEF Good, Emits
    <3>3. ASSUME Distinct, NEW w \in OutWrites(r.unit) PROVE w \in Range(r.queue) \/ d[w.path] = w.text
      <4>1. w \in Range(r0.queue) \/ disk[w.path] = w.text
        BY <1>1, <1>5, <1>8, <2>1, <3>3 DEF Good, Emits
      <4>2. w.path \in Path
        BY <1>1, <1>5, OutWritesType DEF Runs, Write
      <4> QED BY <1>3, <1>5, <1>7, <2>1, <3>3, <4>1, <4>2
    <3>4. Emits(d, r)
      BY <3>2, <3>3 DEF Emits
    <3> QED BY <1>5, <2>1, <3>4
            DEF Good, Reads, Sweeps, Compares, Builds, Freezes, Patches, Rereads, Answers
  <2>2. CASE r.cmd = "fix"
    <3>1. r0.base = r0.unit /\ Patches(disk, r0)
      BY <1>1, <1>5, <1>8, <2>2 DEF Shape, Good
    <3>2. ASSUME NEW f \in Authored
          PROVE  /\ f \notin DOMAIN r.base => d[f] = None
                 /\ f \in DOMAIN r.base \ Fixes(r.base) => d[f] = r.base[f]
                 /\ f \in Fixes(r.base) =>
                       \/ [path |-> f, text |-> Fixed(r.base[f])] \in Range(r.queue)
                       \/ d[f] = Fixed(r.base[f]) /\ d[f] # None
      <4>1. f \in Path
        BY Apart
      <4>2. CASE f = h.path
        <5>1. f \in Fixes(r.base) /\ d[f] = Fixed(r.base[f]) /\ d[f] # None
          BY <1>1, <1>3, <1>5, <1>7, <2>2, <3>1, <4>1, <4>2
        <5>2. f \in DOMAIN r.base
          BY <1>1, <1>5, <3>1, <5>1, FixWritesAre DEF Runs
        <5> QED BY <5>1, <5>2
      <4>3. CASE f # h.path
        <5>1. [path |-> f, text |-> Fixed(r.base[f])] # h
          BY <4>3
        <5>2. d[f] = disk[f]
          BY <1>7, <4>1, <4>3
        <5> HIDE DEF h
        <5> QED BY <1>1, <1>3, <1>5, <2>2, <3>1, <5>1, <5>2 DEF Patches
      <4> QED BY <4>2, <4>3
    <3>3. Patches(d, r)
      BY <3>2 DEF Patches
    <3> QED BY <1>1, <1>5, <2>2, <3>3
            DEF Good, Reads, Emits, Sweeps, Compares, Builds, Freezes, Rereads, Answers, Shape
  <2> QED BY <2>1, <2>2
<1> QED BY <1>2, <1>3, <1>4, <1>6, <1>8, PublicStep DEF Fine, d

LEMMA WriteFailsStep ==
    ASSUME IInv, NEW p \in Proc, WriteFails(p)
    PROVE  IInv'
<1>1. run[p] \in Runs /\ Shape(run[p]) /\ run[p].pc \in {"write", "fill"}
  BY RunType DEF WriteFails
<1>2. Private(p, Ended(run[p], FailCode(run[p])))
  BY DEF WriteFails
<1>3. /\ FailCode(run[p]) \in {0, 1, 2} /\ FailCode(run[p]) # 0
      /\ run[p].cmd = "fix" => FailCode(run[p]) = 2
  BY DEF FailCode
<1>4. Ended(run[p], FailCode(run[p])) \in Runs /\ Fine(disk, Ended(run[p], FailCode(run[p])))
  BY <1>1, <1>3, EndedFine
<1> QED BY <1>2, <1>4, PrivateStep

\* Every fix is in its file: the tree is the one read, with the fixes applied.
LEMMA AllPatched ==
    ASSUME Separate, NEW d \in Disk, NEW u \in Units, DOMAIN u \subseteq Authored,
           \A f \in Authored :
              /\ f \notin DOMAIN u => d[f] = None
              /\ f \in DOMAIN u \ Fixes(u) => d[f] = u[f]
              /\ f \in Fixes(u) => d[f] = Fixed(u[f]) /\ d[f] # None
    PROVE  NowAt(d) = Patched(u)
<1>1. Fixes(u) \subseteq DOMAIN u
  BY FixWritesAre
<1>2. \A f \in DOMAIN u : u[f] # None
  BY UnitType, TextAssumption
<1>3. Home(d) = DOMAIN u
  BY <1>1, <1>2 DEF Home
<1>4. \A f \in DOMAIN u : d[f] = IF f \in Fixes(u) THEN Fixed(u[f]) ELSE u[f]
  BY <1>1
<1> QED BY <1>3, <1>4 DEF NowAt, Patched

LEMMA WrittenStep ==
    ASSUME IInv, Separate, NEW p \in Proc, Written(p)
    PROVE  IInv'
<1> DEFINE r0 == run[p]
           r  == [r0 EXCEPT !.pc = IF r0.cmd = "fix" THEN "walk" ELSE "sweep", !.again = TRUE]
<1>1. /\ r0 \in Runs /\ Shape(r0) /\ disk \in Disk /\ (r0.calm => Good(disk, r0))
      /\ r0.pc = "write" /\ r0.queue = << >>
  BY RunType DEF Written
<1>2. Private(p, r)
  BY DEF Written
<1>3. r \in Runs
  BY <1>1 DEF Runs, Points
<1>4. /\ r.pc = IF r0.cmd = "fix" THEN "walk" ELSE "sweep"
      /\ r.queue = << >> /\ r.unit = r0.unit /\ r.base = r0.base
      /\ r.cmd = r0.cmd /\ r.calm = r0.calm
  BY <1>1 DEF Runs
<1> HIDE DEF r
<1>5. Shape(r)
  BY <1>1, <1>4 DEF Shape
<1>6. ASSUME r.calm PROVE Good(disk, r)
  <2>1. CASE r.cmd # "fix"
    <3>1. r.unit = NowAt(disk) /\ (Distinct => Done(disk, r.unit))
      BY <1>1, <1>4, <1>6, <2>1, RangeEmpty DEF Good, Emits, Done
    <3> QED BY <1>4, <2>1, <3>1
            DEF Good, Reads, Emits, Sweeps, Compares, Builds, Freezes, Patches, Rereads, Answers
  <2>2. CASE r.cmd = "fix"
    <3>1. r.base \in Units /\ DOMAIN r.base \subseteq Authored
      BY <1>1, <1>4 DEF Shape, Runs
    <3>2. \A f \in Authored :
              /\ f \notin DOMAIN r.base => disk[f] = None
              /\ f \in DOMAIN r.base \ Fixes(r.base) => disk[f] = r.base[f]
              /\ f \in Fixes(r.base) => disk[f] = Fixed(r.base[f]) /\ disk[f] # None
      BY <1>1, <1>4, <1>6, <2>2, RangeEmpty DEF Good, Patches
    <3>3. NowAt(disk) = Patched(r.base)
      BY <1>1, <3>1, <3>2, AllPatched
    <3> QED BY <1>4, <2>2, <3>3
            DEF Good, Reads, Emits, Sweeps, Compares, Builds, Freezes, Patches, Rereads, Answers
  <2> QED BY <2>1, <2>2
<1> QED BY <1>2, <1>3, <1>5, <1>6, PrivateStep DEF Fine

LEMMA SweepStep ==
    ASSUME IInv, Separate, NEW p \in Proc, Sweep(p)
    PROVE  IInv'
<1> DEFINE r == run[p]
<1>1. /\ r \in Runs /\ Shape(r) /\ disk \in Disk /\ (r.calm => Good(disk, r)) /\ r.pc = "sweep"
  BY RunType DEF Sweep
<1>2. PICK o \in Orphans(r.unit) : Public(p, r, o, None)
  BY DEF Sweep
<1>3. o \in OutTree /\ o \in Path /\ o \notin {Manifest} \cup Keep(r.unit)
  BY Apart DEF Orphans
<1> DEFINE d == [disk EXCEPT ![o] = None]
<1>4. None \in Holding /\ \A f \in Path : d[f] = IF f = o THEN None ELSE disk[f]
  BY <1>1 DEF Holding, Disk
<1> HIDE DEF d, r
<1>5. ASSUME r.calm PROVE Good(d, r)
  <2>1. r.unit = NowAt(disk) /\ (Distinct => Done(disk, r.unit))
    BY <1>1, <1>5 DEF Good, Sweeps
  <2>2. \A f \in Authored : d[f] = disk[f]
    BY <1>3, <1>4, Apart
  <2>3. r.unit = NowAt(d)
    BY <2>1, <2>2, NowSame
  <2>4. r.unit \in Units
    BY <1>1 DEF Runs
  <2>5. \A w \in OutWrites(r.unit) : w.path \in Path /\ w.path # o
    BY <1>3, <2>4, OutWritesType DEF Write
  <2>6. Distinct => Done(d, r.unit)
    BY <1>4, <2>1, <2>5 DEF Done
  <2> QED BY <1>1, <2>3, <2>6
          DEF Good, Reads, Emits, Sweeps, Compares, Builds, Freezes, Patches, Rereads, Answers
<1> QED BY <1>1, <1>2, <1>3, <1>4, <1>5, PublicStep DEF Fine, d, r

LEMMA SweptStep ==
    ASSUME IInv, NEW p \in Proc, Swept(p)
    PROVE  IInv'
<1> DEFINE r0 == run[p]
           r  == [r0 EXCEPT !.pc = "gate"]
<1>1. /\ r0 \in Runs /\ Shape(r0) /\ disk \in Disk /\ (r0.calm => Good(disk, r0))
      /\ r0.pc = "sweep" /\ r0.cmd # "fix"
  BY RunType DEF Swept, Shape
<1>2. CASE Orphans(r0.unit) = {} /\ Private(p, r)
  <2>1. r \in Runs
    BY <1>1 DEF Runs, Points
  <2>2. /\ r.pc = "gate" /\ r.unit = r0.unit /\ r.base = r0.base
        /\ r.cmd = r0.cmd /\ r.calm = r0.calm
    BY <1>1 DEF Runs
  <2> HIDE DEF r
  <2>3. Shape(r)
    BY <1>1, <2>2 DEF Shape
  <2>4. ASSUME r.calm PROVE Good(disk, r)
    <3>1. r.unit = NowAt(disk) /\ (Distinct => Done(disk, r.unit))
      BY <1>1, <2>2, <2>4 DEF Good, Sweeps
    <3>2. Distinct => MirrorAt(disk, NowAt(disk))
      BY <1>2, <2>2, <3>1, Named DEF MirrorAt
    <3> QED BY <1>1, <2>2, <3>2
            DEF Good, Reads, Emits, Sweeps, Compares, Builds, Freezes, Patches, Rereads,
                Answers, Shape
  <2> QED BY <1>2, <2>1, <2>3, <2>4, PrivateStep DEF Fine
<1>3. CASE Private(p, Ended(r0, 1))
  <2>1. Ended(r0, 1) \in Runs /\ Fine(disk, Ended(r0, 1))
    BY <1>1, EndedFine
  <2> QED BY <1>3, <2>1, PrivateStep
<1> QED BY <1>2, <1>3 DEF Swept

LEMMA GateStep ==
    ASSUME IInv, NEW p \in Proc, Gate(p)
    PROVE  IInv'
<1> DEFINE r == run[p]
<1>1. /\ r \in Runs /\ Shape(r) /\ (r.calm => Good(disk, r)) /\ r.pc = "gate" /\ r.cmd # "fix"
  BY RunType DEF Gate, Shape
<1>2. PICK bad \in {r.bad, TRUE} : Private(p, Ended(r, Verdict(bad)))
  BY DEF Gate
<1>3. Verdict(bad) \in {0, 1, 2}
  BY DEF Verdict
<1>4. Distinct /\ r.calm /\ r.cmd = "build" => MirrorAt(disk, NowAt(disk))
  BY <1>1 DEF Good, Builds
<1>5. Ended(r, Verdict(bad)) \in Runs /\ Fine(disk, Ended(r, Verdict(bad)))
  BY <1>1, <1>3, <1>4, EndedFine
<1> QED BY <1>2, <1>5, PrivateStep

LEMMA CompareStep ==
    ASSUME IInv, Separate, NEW p \in Proc, Compare(p)
    PROVE  IInv'
<1> DEFINE r0 == run[p]
           h  == Head(r0.queue)
           r  == [r0 EXCEPT !.queue = Tail(r0.queue), !.bad = r0.bad \/ disk[h.path] # h.text]
<1>1. /\ r0 \in Runs /\ Shape(r0) /\ disk \in Disk /\ (r0.calm => Good(disk, r0))
      /\ r0.pc = "compare" /\ r0.queue # << >> /\ r0.cmd = "frozen"
  BY RunType DEF Compare, Shape
<1>2. Private(p, r)
  BY DEF Compare
<1>3. /\ h \in OutWrites(r0.unit) /\ Tail(r0.queue) \in Seq(Write)
      /\ Range(r0.queue) = {h} \cup Range(Tail(r0.queue))
  BY <1>1, NextWrite
<1>4. r \in Runs
  <2>1. (r0.bad \/ disk[h.path] # h.text) \in BOOLEAN
    OBVIOUS
  <2> HIDE DEF h
  <2> QED BY <1>1, <1>3, <2>1 DEF Runs
<1>5. /\ r.pc = "compare" /\ r.queue = Tail(r0.queue) /\ r.unit = r0.unit /\ r.base = r0.base
      /\ r.cmd = r0.cmd /\ r.calm = r0.calm
      /\ r.bad <=> (r0.bad \/ disk[h.path] # h.text)
  <2> HIDE DEF h
  <2> QED BY <1>1 DEF Runs
<1> HIDE DEF r
<1>6. Shape(r)
  BY <1>1, <1>3, <1>5 DEF Shape
<1>7. ASSUME r.calm PROVE Good(disk, r)
  <2>1. Compares(disk, r0)
    BY <1>1, <1>5, <1>7 DEF Good
  <2> HIDE DEF h, r0
  <2>2. Compares(disk, r)
    BY <1>1, <1>3, <1>5, <2>1 DEF Compares, Done
  <2> QED BY <1>1, <1>5, <2>2
          DEF Good, Reads, Emits, Sweeps, Builds, Freezes, Patches, Rereads, Answers
<1> QED BY <1>2, <1>4, <1>6, <1>7, PrivateStep DEF Fine

LEMMA ComparedStep ==
    ASSUME IInv, NEW p \in Proc, Compared(p)
    PROVE  IInv'
<1> DEFINE r0 == run[p]
           r  == [r0 EXCEPT !.pc = "gate", !.bad = r0.bad \/ Orphans(r0.unit) # {}]
<1>1. /\ r0 \in Runs /\ Shape(r0) /\ disk \in Disk /\ (r0.calm => Good(disk, r0))
      /\ r0.pc = "compare" /\ r0.queue = << >> /\ r0.cmd = "frozen"
  BY RunType DEF Compared, Shape
<1>2. Private(p, r)
  BY DEF Compared
<1>3. r \in Runs
  <2>1. (r0.bad \/ Orphans(r0.unit) # {}) \in BOOLEAN
    OBVIOUS
  <2> QED BY <1>1, <2>1 DEF Runs, Points
<1>4. /\ r.pc = "gate" /\ r.unit = r0.unit /\ r.base = r0.base
      /\ r.cmd = r0.cmd /\ r.calm = r0.calm
      /\ r.bad <=> (r0.bad \/ OrphansAt(disk, r0.unit) # {})
  BY <1>1, Named DEF Runs
<1> HIDE DEF r
<1>5. Shape(r)
  BY <1>1, <1>4 DEF Shape
<1>6. ASSUME r.calm PROVE Good(disk, r)
  <2>1. r0.unit = NowAt(disk) /\ (r0.bad <=> ~Done(disk, r0.unit))
    BY <1>1, <1>4, <1>6, RangeEmpty DEF Good, Compares, Done
  <2>2. r.bad <=> ~MirrorAt(disk, NowAt(disk))
    BY <1>4, <2>1 DEF MirrorAt
  <2> QED BY <1>1, <1>4, <2>2
          DEF Good, Reads, Emits, Sweeps, Compares, Builds, Freezes, Patches, Rereads, Answers
<1> QED BY <1>2, <1>3, <1>5, <1>6, PrivateStep DEF Fine

LEMMA CleanStep ==
    ASSUME IInv, Separate, NEW p \in Proc, Clean(p) \/ Cleaned(p)
    PROVE  IInv'
<1> DEFINE r == run[p]
<1>1. r \in Runs /\ Shape(r) /\ r.pc = "clean" /\ r.cmd = "clean"
  BY RunType DEF Clean, Cleaned, Shape
<1>2. CASE Clean(p)
  <2>1. PICK o \in OutTree : Public(p, r, o, None)
    BY <1>2 DEF Clean
  <2>2. o \in Path /\ None \in Holding
    BY Apart DEF Holding
  <2>3. \A d : Good(d, r)
    BY <1>1 DEF Good, Reads, Emits, Sweeps, Compares, Builds, Freezes, Patches, Rereads, Answers
  <2> QED BY <1>1, <2>1, <2>2, <2>3, PublicStep DEF Fine
<1>3. CASE Cleaned(p)
  <2>1. PICK code \in {0, 2} : Private(p, Ended(r, code))
    BY <1>3 DEF Cleaned
  <2>2. Ended(r, code) \in Runs /\ Fine(disk, Ended(r, code))
    BY <1>1, EndedFine
  <2> QED BY <2>1, <2>2, PrivateStep
<1> QED BY <1>2, <1>3

LEMMA DieStep ==
    ASSUME IInv, NEW p \in Proc, Die(p)
    PROVE  IInv'
<1>1. Private(p, Resting)
  BY DEF Die, Private
<1> QED BY <1>1, RestingType, PrivateStep

-----------------------------------------------------------------------------
(* The theorems.                                                           *)

LEMMA InitInv == Init => IInv
<1> SUFFICES ASSUME Init PROVE IInv
  OBVIOUS
<1>1. disk \in Disk
  BY TextAssumption DEF Init, Disk, Holding
<1>2. run = [p \in Proc |-> Resting]
  BY DEF Init
<1> QED BY <1>1, <1>2, RestingType DEF IInv

LEMMA NextInv ==
    ASSUME Separate, IInv, [Next]_vars
    PROVE  IInv'
<1>1. ASSUME NEW p \in Proc, Step(p) PROVE IInv'
  BY <1>1, WalkStep, ReadFileStep, StagesStep, OpenFileStep, FillFileStep, WriteFailsStep,
     WrittenStep, SweepStep, SweptStep, GateStep, CompareStep, ComparedStep, CleanStep
     DEF Step
<1>2. CASE UNCHANGED vars
  BY <1>2 DEF vars, IInv
<1> QED BY <1>1, <1>2, DieStep, StartStep, EditStep DEF Next

\* What a run nobody disturbed has read, written and compared is what the disk
\* held, whatever its point: the invariant the others follow from.
THEOREM RunsCorrect == Separate => (Spec => []IInv)
<1> SUFFICES ASSUME Separate PROVE Spec => []IInv
  OBVIOUS
<1>1. IInv /\ [Next]_vars => IInv'
  BY NextInv
<1> QED BY <1>1, InitInv, PTL DEF Spec

\* A build that succeeds undisturbed leaves out the mirror of src.
THEOREM BuildLeavesMirror == Separate /\ Distinct => (Spec => []BuildFresh)
<1> SUFFICES ASSUME Separate, Distinct PROVE Spec => []BuildFresh
  OBVIOUS
<1>1. IInv => BuildFresh
  BY Named, Mirrored DEF IInv, Fine, Good, Builds, BuildFresh
<1> QED BY <1>1, RunsCorrect, PTL

\* --frozen finds a difference exactly when building would make one.
THEOREM FrozenDecides == Separate => (Spec => []FrozenExact)
<1> SUFFICES ASSUME Separate PROVE Spec => []FrozenExact
  OBVIOUS
<1>1. IInv => FrozenExact
  BY Named, Mirrored DEF IInv, Fine, Good, Freezes, FrozenExact
<1> QED BY <1>1, RunsCorrect, PTL

\* --fix applies each fix once and answers for the sources as fixed.
THEOREM FixAnswers == Separate => (Spec => []FixSound)
<1> SUFFICES ASSUME Separate PROVE Spec => []FixSound
  OBVIOUS
<1>1. IInv => FixSound
  BY Named DEF IInv, Fine, Good, Answers, FixSound, Patched
<1> QED BY <1>1, RunsCorrect, PTL

-----------------------------------------------------------------------------
(* The sources, and the types.                                             *)

Counts == runs \in 0..MaxRuns /\ edits \in 0..MaxEdits

LEMMA CountsStep == ASSUME Counts, [Next]_vars PROVE Counts'
<1>1. /\ runs' = runs \/ (runs < MaxRuns /\ runs' = runs + 1)
      /\ edits' = edits \/ (edits < MaxEdits /\ edits' = edits + 1)
  BY DEF Next, Step, Walk, ReadFile, Stages, OpenFile, FillFile, WriteFails, Written,
         Sweep, Swept, Gate, Compare, Compared, Clean, Cleaned, Die, Start, Edit, vars
<1> QED BY <1>1, BoundAssumption DEF Counts

THEOREM CountsHold == Spec => []Counts
<1>1. Init => Counts
  BY BoundAssumption DEF Init, Counts
<1>2. Counts /\ [Next]_vars => Counts'
  BY CountsStep
<1> QED BY <1>1, <1>2, PTL DEF Spec

\* Only --fix and the author open or fill a file that is not an output.
LEMMA WriteKeeps ==
    ASSUME Separate, IInv, NEW p \in Proc, OpenFile(p) \/ FillFile(p),
           ~Fixing(p), NEW f \in Authored
    PROVE  disk'[f] = disk[f]
<1> DEFINE r == run[p]
           h == Head(r.queue)
<1>1. f \notin OutTree /\ disk \in [Path -> Holding] /\ r \in Runs /\ Shape(r)
  BY Apart, RunType DEF IInv, Disk, Fine
<1>2. r.queue # << >> /\ r.pc \in {"write", "fill"}
  BY <1>1 DEF OpenFile, FillFile, Shape
<1>3. \E text : disk' = [disk EXCEPT ![h.path] = text]
  BY DEF OpenFile, FillFile, Public
<1>4. run'[p] # r
  <2>1. CASE OpenFile(p)
    <3>1. r.pc = "write" /\ run'[p] = [r EXCEPT !.pc = "fill"]
      BY <2>1 DEF OpenFile, Public
    <3>2. [r EXCEPT !.pc = "fill"].pc = "fill"
      BY <1>1 DEF Runs
    <3> QED BY <3>1, <3>2
  <2>2. CASE FillFile(p)
    <3>1. r.pc = "fill" /\ run'[p] = [r EXCEPT !.pc = "write", !.queue = Tail(r.queue)]
      BY <2>2 DEF FillFile, Public
    <3>2. [r EXCEPT !.pc = "write", !.queue = Tail(r.queue)].pc = "write"
      BY <1>1 DEF Runs
    <3> QED BY <3>1, <3>2
  <2> QED BY <2>1, <2>2
<1>5. r.cmd # "fix"
  BY <1>4 DEF Fixing
<1>6. h.path \in OutTree
  BY <1>1, <1>2, <1>5, NextWrite
<1> HIDE DEF h, r
<1> QED BY <1>1, <1>3, <1>6

LEMMA SourcesStep ==
    ASSUME Separate, IInv, Counts, [Next]_vars, edits' = edits,
           ~(\E p \in Proc : Fixing(p)), NEW f \in Authored
    PROVE  disk'[f] = disk[f]
<1>1. f \notin OutTree /\ disk \in [Path -> Holding]
  BY Apart DEF IInv, Disk
<1>2. ASSUME NEW p \in Proc, Step(p) PROVE disk'[f] = disk[f]
  <2>1. CASE OpenFile(p) \/ FillFile(p)
    BY <2>1, WriteKeeps
  <2>2. CASE Sweep(p) \/ Clean(p)
    <3>1. PICK o \in OutTree : disk' = [disk EXCEPT ![o] = None]
      BY <2>2 DEF Sweep, Clean, Orphans, Public
    <3> QED BY <1>1, <3>1
  <2>3. CASE ~(OpenFile(p) \/ FillFile(p) \/ Sweep(p) \/ Clean(p))
    BY <1>2, <2>3 DEF Step, Walk, ReadFile, Stages, WriteFails, Written, Swept, Gate,
                      Compare, Compared, Cleaned, Private
  <2> QED BY <2>1, <2>2, <2>3
<1>3. ~(\E g \in Authored, t \in AuthorText : Edit(g, t))
  BY BoundAssumption DEF Edit, Counts
<1> QED BY <1>2, <1>3 DEF Next, Die, Start, Private, vars

\* Nothing but the author and --fix changes a source, whoever runs and dies.
THEOREM SourcesStay == Separate => (Spec => SourcesKept)
<1> SUFFICES ASSUME Separate PROVE Spec => SourcesKept
  OBVIOUS
<1>1. IInv /\ Counts /\ [Next]_vars =>
        [edits' = edits /\ ~(\E p \in Proc : Fixing(p)) =>
           \A f \in Authored : disk'[f] = disk[f]]_vars
  BY SourcesStep
<1> QED BY <1>1, RunsCorrect, CountsHold, PTL DEF Spec, SourcesKept

\* Every variable has its type, and a run is filling the file it opened.
THEOREM TypeCorrect == Separate => (Spec => []TypeOK)
<1> SUFFICES ASSUME Separate PROVE Spec => []TypeOK
  OBVIOUS
<1>1. ASSUME IInv, NEW p \in Proc PROVE RunOK(run[p])
  <2> DEFINE r == run[p]
  <2>1. r \in Runs /\ Shape(r)
    BY <1>1, RunType DEF IInv, Fine
  <2> HIDE DEF r
  <2>2. ASSUME r.pc = "read", NEW i \in DOMAIN r.queue PROVE r.queue[i] \in SrcPath
    <3>1. r.queue \in Seq(Authored)
      BY <2>1, <2>2 DEF Shape
    <3>2. i \in 1..Len(r.queue)
      BY <3>1, <2>2
    <3>3. r.queue[i] \in Authored
      BY <3>1, <3>2
    <3> QED BY <3>3 DEF Authored
  <2>3. ASSUME r.pc \in {"write", "fill", "compare"}, NEW i \in DOMAIN r.queue
        PROVE  r.queue[i].path \in Path
    <3>1. r.queue \in Seq(Write)
      BY <2>1, <2>3 DEF Shape
    <3>2. i \in 1..Len(r.queue)
      BY <3>1, <2>3
    <3>3. r.queue[i] \in Write
      BY <3>1, <3>2
    <3> QED BY <3>3 DEF Write
  <2>4. r.pc = "fill" => r.queue # << >> /\ Head(r.queue).text # None
    BY <2>1 DEF Shape
  <2>5. RunOK(r)
    BY <2>1, <2>2, <2>3, <2>4 DEF RunOK, Runs, Points
  <2> QED BY <2>5 DEF r
<1>2. IInv /\ Counts => TypeOK
  BY <1>1 DEF TypeOK, IInv, Disk, Holding, Counts
<1> QED BY <1>2, RunsCorrect, CountsHold, PTL

-----------------------------------------------------------------------------
(* The watch.                                                              *)

\* where the process may be with the watchers it has
Stage ==
    /\ pc \in {"start", "watch src"} => watched = {}
    /\ pc \in {"run", "read", "write"} => watched = {} \/ Watching
    /\ pc = "watch toml" => watched = {"src"}
    /\ pc = "handler" => Watching /\ ~handler

TInv == WatchTypeOK /\ Stage

LEMMA SourcesType ==
    ASSUME version \in [Dir -> Nat], NEW c \in Config
    PROVE  Sources(c) \in [Dir -> Nat \cup {-1, -2}]
BY DEF Sources, Nothing

LEMMA EmitType ==
    ASSUME pending \subseteq Event, NEW e \in Event, Emit(e)
    PROVE  pending' \subseteq Event
BY DEF Emit

LEMMA WatchTypeInit == WatchInit => TInv
<1> SUFFICES ASSUME WatchInit PROVE TInv
  OBVIOUS
<1>1. toml \in Config /\ loaded \in Config /\ cfg \in Config
  BY DirAssumption DEF WatchInit
<1>2. version \in [Dir -> Nat] /\ [d \in Dir |-> -2] \in [Dir -> Nat \cup {-1, -2}]
  BY DEF WatchInit
<1>3. saves \in Nat /\ errors \in Nat /\ queue \in Seq(SUBSET Event)
  BY DEF WatchInit
<1> QED BY <1>1, <1>2, <1>3, Zenon DEF WatchInit, TInv, WatchTypeOK, Stage, Watching

LEMMA TypeProcess == TInv /\ (Begin \/ RunLoad \/ RunRead \/ RunWrite) => TInv'
<1> SUFFICES ASSUME TInv PROVE Begin \/ RunLoad \/ RunRead \/ RunWrite => TInv'
  OBVIOUS
<1>1. CASE Begin
  BY <1>1 DEF Begin, Go, TInv, WatchTypeOK, Stage, Watching
<1>2. CASE RunLoad
  <2>1. Nothing \in [Dir -> Nat \cup {-1, -2}]
    BY DEF Nothing
  <2>2. toml \in Config /\ read \in [cfg : Config, sources : [Dir -> Nat \cup {-1, -2}]]
    BY DEF TInv, WatchTypeOK
  <2>3. read' \in [cfg : Config, sources : [Dir -> Nat \cup {-1, -2}]]
    BY <1>2, <2>1, <2>2 DEF RunLoad
  <2>4. pc' \in {"loop", "watch src", "read"} /\ Stage' /\ (pc' = "loop" => Watching)
    BY <1>2 DEF RunLoad, AfterRun, Go, TInv, Stage, Watching
  <2> QED BY <1>2, <2>2, <2>3, <2>4 DEF RunLoad, TInv, WatchTypeOK, Watching
<1>3. CASE RunRead
  <2>1. Sources(cfg) \in [Dir -> Nat \cup {-1, -2}]
    BY SourcesType DEF TInv, WatchTypeOK
  <2> QED BY <1>3, <2>1 DEF RunRead, Go, TInv, WatchTypeOK, Stage, Watching
<1>4. CASE RunWrite
  <2>1. [what |-> "dialect", dir |-> cfg.out] \in Event
    BY DirAssumption DEF Event, TInv, WatchTypeOK
  <2>2. pending' \subseteq Event
    BY <1>4, <2>1, EmitType DEF RunWrite, TInv, WatchTypeOK
  <2> QED BY <1>4, <2>2 DEF RunWrite, AfterRun, Go, TInv, WatchTypeOK, Stage, Watching
<1> QED BY <1>1, <1>2, <1>3, <1>4

LEMMA TypeLoop ==
    TInv /\ (Install \/ InstallFails \/ Receive \/ Timeout \/ Interrupt) => TInv'
<1> SUFFICES ASSUME TInv
    PROVE Install \/ InstallFails \/ Receive \/ Timeout \/ Interrupt => TInv'
  OBVIOUS
<1>1. CASE Install
  <2>1. CASE pc = "watch src"
    BY <1>1, <2>1 DEF Install, Go, TInv, WatchTypeOK, Stage, Watching
  <2>2. CASE pc = "watch toml"
    <3>1. {"src"} # {"src", "toml"}
      OBVIOUS
    <3>2. ~handler /\ ~stop
      BY <2>2, <3>1, Zenon DEF TInv, WatchTypeOK, Stage, Watching
    <3>3. watched' = {"src", "toml"} /\ pc' = "handler" /\ handler' = handler
      BY <1>1, <2>2 DEF Install, Go
    <3>4. UNCHANGED <<toml, version, loaded, cfg, read, pending, queue, stop, saves, errors>>
      BY <1>1 DEF Install
    <3> QED BY <3>2, <3>3, <3>4 DEF TInv, WatchTypeOK, Stage, Watching
  <2>3. CASE pc = "handler"
    <3>1. /\ handler' \in BOOLEAN /\ pc' = "loop"
          /\ watched' = watched /\ Watching /\ ~stop
      BY <1>1, <2>3, Zenon DEF Install, Go, TInv, WatchTypeOK, Stage
    <3>2. UNCHANGED <<toml, version, loaded, cfg, read, pending, queue, stop, saves, errors>>
      BY <1>1 DEF Install
    <3> QED BY <3>1, <3>2, Zenon DEF TInv, WatchTypeOK, Stage, Watching
  <2> QED BY <1>1, <2>1, <2>2, <2>3 DEF Install
<1>2. CASE InstallFails
  BY <1>2 DEF InstallFails, Go, TInv, WatchTypeOK, Stage, Watching
<1>3. CASE Receive
  <2>1. queue' \in Seq(SUBSET Event)
    BY <1>3 DEF Receive, TInv, WatchTypeOK
  <2> QED BY <1>3, <2>1 DEF Receive, Go, TInv, WatchTypeOK, Stage, Watching
<1>4. CASE Timeout
  BY <1>4 DEF Timeout, Go, TInv, WatchTypeOK, Stage, Watching
<1>5. CASE Interrupt
  BY <1>5 DEF Interrupt, Go, TInv, WatchTypeOK, Stage, Watching
<1> QED BY <1>1, <1>2, <1>3, <1>4, <1>5

LEMMA TypeWorld ==
    ASSUME TInv
    PROVE  /\ Fire \/ WatcherError => TInv'
           /\ \A d \in Dir : EditSource(d) \/ EditOther(d) => TInv'
           /\ \A c \in Changes : EditToml(c) => TInv'
<1>1. CASE Fire
  <2>1. queue' \in Seq(SUBSET Event)
    <3>1. queue \in Seq(SUBSET Event) /\ pending \in SUBSET Event
      BY DEF TInv, WatchTypeOK
    <3> QED BY <1>1, <3>1, AppendProperties DEF Fire
  <2> QED BY <1>1, <2>1 DEF Fire, TInv, WatchTypeOK, Stage, Watching
<1>2. CASE WatcherError
  <2>1. queue' \in Seq(SUBSET Event)
    <3>1. queue \in Seq(SUBSET Event) /\ {} \in SUBSET Event
      BY DEF TInv, WatchTypeOK
    <3> QED BY <1>2, <3>1, AppendProperties DEF WatcherError
  <2>2. errors' \in Nat
    <3>1. errors \in Nat
      BY DEF TInv, WatchTypeOK
    <3>2. errors' = errors + 1
      BY <1>2 DEF WatcherError
    <3> QED BY ONLY <3>1, <3>2
  <2> QED BY <1>2, <2>1, <2>2, Zenon DEF WatcherError, TInv, WatchTypeOK, Stage, Watching
<1>3. ASSUME NEW d \in Dir, EditSource(d) PROVE TInv'
  <2>1. [what |-> "dialect", dir |-> d] \in Event
    BY DEF Event
  <2>2. pending' \subseteq Event
    BY <1>3, <2>1, EmitType DEF EditSource, TInv, WatchTypeOK
  <2>3. version' \in [Dir -> Nat]
    <3>1. version \in [Dir -> Nat]
      BY DEF TInv, WatchTypeOK
    <3>2. version' = [version EXCEPT ![d] = version[d] + 1]
      BY <1>3 DEF EditSource
    <3> QED BY ONLY <3>1, <3>2, d \in Dir
  <2>4. saves' \in Nat
    <3>1. saves \in Nat
      BY DEF TInv, WatchTypeOK
    <3>2. saves' = saves + 1
      BY <1>3 DEF EditSource
    <3> QED BY ONLY <3>1, <3>2
  <2> QED BY <1>3, <2>2, <2>3, <2>4, Zenon DEF EditSource, TInv, WatchTypeOK, Stage, Watching
<1>4. ASSUME NEW d \in Dir, EditOther(d) PROVE TInv'
  <2>1. [what |-> "other", dir |-> d] \in Event
    BY DEF Event
  <2>2. pending' \subseteq Event
    BY <1>4, <2>1, EmitType DEF EditOther, TInv, WatchTypeOK
  <2>3. saves' \in Nat
    <3>1. saves \in Nat
      BY DEF TInv, WatchTypeOK
    <3>2. saves' = saves + 1
      BY <1>4 DEF EditOther
    <3> QED BY ONLY <3>1, <3>2
  <2> QED BY <1>4, <2>2, <2>3, Zenon DEF EditOther, TInv, WatchTypeOK, Stage, Watching
<1>5. ASSUME NEW c \in Changes, EditToml(c) PROVE TInv'
  <2>1. TomlEvent \in Event
    BY DEF Event
  <2>2. pending' \subseteq Event
    BY <1>5, <2>1, EmitType DEF EditToml, TInv, WatchTypeOK
  <2>3. c \in Config
    BY DirAssumption
  <2>4. saves' \in Nat
    <3>1. saves \in Nat
      BY DEF TInv, WatchTypeOK
    <3>2. saves' = saves + 1
      BY <1>5 DEF EditToml
    <3> QED BY ONLY <3>1, <3>2
  <2> QED BY <1>5, <2>2, <2>3, <2>4, Zenon DEF EditToml, TInv, WatchTypeOK, Stage, Watching
<1> QED BY <1>1, <1>2, <1>3, <1>4, <1>5

LEMMA WatchTypeStep == TInv /\ [WatchNext]_watchVars => TInv'
<1> SUFFICES ASSUME TInv, [WatchNext]_watchVars PROVE TInv'
  OBVIOUS
<1>1. CASE UNCHANGED watchVars
  BY <1>1 DEF watchVars, TInv, WatchTypeOK, Stage, Watching
<1>2. CASE WatchNext
  BY <1>2, TypeProcess, TypeLoop, TypeWorld DEF WatchNext, Process
<1> QED BY <1>1, <1>2

\* Every variable has its type, and the loop and the Ctrl-C handler are there
\* only with both watchers, whatever the project and the saves.
THEOREM WatchTypeCorrect == WatchSpec => []WatchTypeOK
<1>1. WatchInit => TInv
  BY WatchTypeInit
<1>2. TInv /\ [WatchNext]_watchVars => TInv'
  BY WatchTypeStep
<1>3. TInv => WatchTypeOK
  BY DEF TInv
<1> QED BY <1>1, <1>2, <1>3, PTL DEF WatchSpec

-----------------------------------------------------------------------------
(* No edit is lost                                                         *)

Known == Initial \cup Changes

\* no source is both in out and counted
Clear(c) == \A d \in Dir : Under(d, c.src) /\ Under(d, c.out) => Nested(d, c)

\* The author saves once the watchers are there, leaves src and out where they
\* are, and a directory inside both is an out nested in src.
Settled ==
    /\ ~EarlyEdits
    /\ \A c, e \in Known : c.src = e.src /\ c.out = e.out
    /\ \A c \in Known : Unsafe(c) \/ Clear(c)

\* What the runs before the watchers have seen, the one that is about to read
\* with a stale fhec.toml, and the layout the watch was started with.
Lead ==
    /\ toml \in Known /\ loaded \in Known
    /\ pc \notin {"start", "ended"} => Clear(loaded)
    /\ ~Watching /\ pc = "read" => cfg = toml
    /\ ~Watching /\ pc \in {"write", "watch src", "watch toml"} => UpToDate
    /\ Watching /\ pc = "read" /\ cfg # toml => Asked

LInv == TInv /\ Lead /\ NothingLost

LEMMA CountedRebuilds ==
    ASSUME Settled, LInv, pc \notin {"start", "ended"}, Watching,
           NEW d \in Dir, Counted(d, toml)
    PROVE  LET e == [what |-> "dialect", dir |-> d]
           IN Delivered(e) /\ ShouldRebuild(e)
<1>1. Under(d, toml.src) /\ ~Nested(d, toml)
  BY DEF Counted
<1>2. toml.src = loaded.src /\ toml.out = loaded.out
  BY DEF Settled, LInv, Lead
<1>3. ~Under(d, loaded.out)
  BY <1>1, <1>2 DEF LInv, Lead, Clear, Nested
<1> DEFINE e == [what |-> "dialect", dir |-> d]
<1>4. e.what = "dialect" /\ e.dir = d /\ e # TomlEvent
  BY DEF TomlEvent
<1>5. "src" \in watched
  BY DEF Watching
<1> QED BY <1>1, <1>2, <1>3, <1>4, <1>5, Zenon DEF Delivered, ShouldRebuild

\* events that wait keep waiting
LEMMA AskedGrows ==
    ASSUME Asked, loaded' = loaded, queue' = queue, pending \subseteq pending'
    PROVE  Asked'
BY Zenon DEF Asked, ShouldRebuild

LEMMA EmitAsks ==
    ASSUME NEW e, Emit(e), Delivered(e), ShouldRebuild(e), loaded' = loaded
    PROVE  Asked'
<1>1. e \in pending'
  BY DEF Emit
<1>2. ShouldRebuild(e)'
  BY DEF ShouldRebuild
<1> QED BY <1>1, <1>2, Zenon DEF Asked

LEMMA EmitGrows ==
    ASSUME NEW e, Emit(e)
    PROVE  pending \subseteq pending'
BY DEF Emit

LEMMA AskedSent ==
    ASSUME Asked, WatchTypeOK, Fire
    PROVE  Asked'
<1>1. queue \in Seq(SUBSET Event) /\ pending \in SUBSET Event
  BY DEF WatchTypeOK
<1>2. queue' = Append(queue, pending) /\ loaded' = loaded
  BY DEF Fire
<1>3. Len(queue') = Len(queue) + 1 /\ DOMAIN queue' = 1..Len(queue')
  BY <1>1, <1>2, AppendProperties
<1>4. queue'[Len(queue')] = pending /\ Len(queue') \in DOMAIN queue'
  BY <1>1, <1>2, <1>3, AppendProperties
<1>5. \A i \in DOMAIN queue : i \in DOMAIN queue' /\ queue'[i] = queue[i]
  BY <1>1, <1>2, <1>3, AppendProperties
<1>6. \A e : ShouldRebuild(e)' = ShouldRebuild(e)
  BY <1>2 DEF ShouldRebuild
<1> QED BY <1>4, <1>5, <1>6, Zenon DEF Asked

LEMMA AskedErred ==
    ASSUME Asked, WatchTypeOK, WatcherError
    PROVE  Asked'
<1>1. queue \in Seq(SUBSET Event) /\ {} \in SUBSET Event
  BY DEF WatchTypeOK
<1>2. queue' = Append(queue, {}) /\ loaded' = loaded /\ pending' = pending
  BY DEF WatcherError
<1>3. \A i \in DOMAIN queue : i \in DOMAIN queue' /\ queue'[i] = queue[i]
  BY <1>1, <1>2, AppendProperties
<1>4. \A e : ShouldRebuild(e)' = ShouldRebuild(e)
  BY <1>2 DEF ShouldRebuild
<1> QED BY <1>2, <1>3, <1>4, Zenon DEF Asked

\* a batch that asks for nothing takes nothing with it
LEMMA AskedReceived ==
    ASSUME Asked, WatchTypeOK, Receive, pc' # "run"
    PROVE  Asked'
<1>1. queue \in Seq(SUBSET Event) /\ queue # << >>
  BY DEF WatchTypeOK, Receive
<1>2. queue' = Tail(queue) /\ loaded' = loaded /\ pending' = pending
  BY DEF Receive
<1>3. \A e \in Head(queue) : ~ShouldRebuild(e)
  BY DEF Receive, Go
<1>4. \A e : ShouldRebuild(e)' = ShouldRebuild(e)
  BY <1>2 DEF ShouldRebuild
<1>5. CASE \E e \in pending : ShouldRebuild(e)
  BY <1>2, <1>4, <1>5, Zenon DEF Asked
<1>6. ASSUME NEW i \in DOMAIN queue, NEW e \in queue[i], ShouldRebuild(e)
      PROVE  Asked'
  <2>1. i # 1
    <3>1. Head(queue) = queue[1]
      BY <1>1
    <3> QED BY <1>3, <1>6, <3>1, Zenon
  <2>2. i \in 2..Len(queue) /\ DOMAIN queue' = 1..(Len(queue) - 1)
    BY <1>1, <1>2, <2>1
  <2>3. i - 1 \in DOMAIN queue' /\ queue'[i - 1] = queue[i]
    BY <1>1, <1>2, <2>2
  <2> QED BY <1>4, <1>6, <2>3, Zenon DEF Asked
<1> QED BY <1>5, <1>6, Zenon DEF Asked

LEMMA LeadInit == Settled /\ WatchInit => LInv
<1> SUFFICES ASSUME Settled, WatchInit PROVE LInv
  OBVIOUS
<1>1. watched = {} /\ pc = "start" /\ toml \in Known /\ loaded \in Known
  BY DEF WatchInit, Known
<1>2. ~Watching
  BY <1>1 DEF Watching
<1> QED BY <1>1, <1>2, WatchTypeInit DEF LInv, Lead, NothingLost

\* steps that leave the files, what was read and the watchers alone
LEMMA Still ==
    ASSUME LInv, UNCHANGED <<toml, version, loaded, read, watched>>
    PROVE  /\ toml' \in Known /\ loaded' \in Known
           /\ UpToDate' = UpToDate /\ Watching' = Watching
           /\ Clear(loaded)' = Clear(loaded)
BY DEF LInv, Lead, UpToDate, Watching, Clear, Nested, Sources, Counted, Nothing

LEMMA LeadRun ==
    ASSUME Settled, LInv, TInv', Begin \/ RunLoad \/ RunRead \/ RunWrite
    PROVE  LInv'
<1>1. CASE Begin
  <2>1. watched' = {} /\ loaded' = toml /\ toml' = toml /\ toml \in Known
    BY <1>1 DEF Begin, LInv, Lead, TInv, Stage
  <2>2. ~Watching'
    BY <2>1 DEF Watching
  <2>3. pc' # "ended" => Clear(loaded)'
    BY <1>1, <2>1 DEF Begin, Go, Settled, Clear, Nested
  <2>4. pc' \in {"ended", "run"}
    BY <1>1 DEF Begin, Go
  <2> QED BY <2>1, <2>2, <2>3, <2>4, Zenon DEF LInv, Lead, NothingLost
<1>2. CASE RunLoad
  <2>1. /\ cfg' = toml /\ UNCHANGED <<toml, loaded, watched>>
        /\ toml \in Known /\ loaded \in Known /\ Clear(loaded)
    BY <1>2 DEF RunLoad, LInv, Lead
  <2>2. Watching' = Watching /\ Clear(loaded)'
    BY <2>1 DEF Watching, Clear, Nested
  <2>3. \/ pc' = "read"
        \/ pc' \in {"loop", "watch src"} /\ UpToDate'
    BY <1>2 DEF RunLoad, AfterRun, Go, UpToDate, Sources
  <2>4. cfg' = toml'
    BY <2>1
  <2> QED BY <2>1, <2>2, <2>3, <2>4, Zenon DEF LInv, Lead, NothingLost
<1>3. CASE RunRead
  <2>1. /\ pc' = "write" /\ UNCHANGED <<toml, version, loaded, watched, pending, queue>>
        /\ toml \in Known /\ loaded \in Known /\ Clear(loaded)
        /\ read' = [cfg |-> cfg, sources |-> Sources(cfg)]
    BY <1>3 DEF RunRead, Go, LInv, Lead
  <2>2. Watching' = Watching /\ Clear(loaded)' /\ Asked' = Asked
    BY <2>1 DEF Watching, Clear, Nested, Asked, ShouldRebuild
  <2>3. cfg = toml => UpToDate'
    BY <2>1 DEF UpToDate, Sources, Counted, Nested, Nothing
  <2>4. cfg = toml \/ (Watching /\ Asked)
    BY <1>3 DEF RunRead, LInv, Lead
  <2> QED BY <2>1, <2>2, <2>3, <2>4, Zenon DEF LInv, Lead, NothingLost
<1>4. CASE RunWrite
  <2>1. /\ pc' \in {"loop", "watch src"} /\ UNCHANGED <<toml, version, loaded, read, watched, queue>>
        /\ Clear(loaded) /\ pc = "write"
    BY <1>4 DEF RunWrite, AfterRun, Go, LInv, Lead
  <2>2. pending \subseteq pending'
    BY <1>4, EmitGrows DEF RunWrite
  <2>3. Asked => Asked'
    BY <2>1, <2>2, AskedGrows
  <2>4. ~Watching => UpToDate
    BY <2>1 DEF LInv, Lead
  <2>5. Watching => UpToDate \/ Asked
    BY <2>1, Zenon DEF LInv, NothingLost
  <2> QED BY <2>1, <2>3, <2>4, <2>5, Still, Zenon DEF LInv, Lead, NothingLost
<1> QED BY <1>1, <1>2, <1>3, <1>4

LEMMA LeadLoop ==
    ASSUME Settled, LInv, TInv',
           Install \/ InstallFails \/ Receive \/ Timeout \/ Interrupt
    PROVE  LInv'
<1>1. CASE Install
  <2>1. /\ UNCHANGED <<toml, version, loaded, read, pending, queue, cfg>>
        /\ pc \in {"watch src", "watch toml", "handler"}
    BY <1>1 DEF Install
  <2>2. UpToDate' = UpToDate /\ Clear(loaded)' /\ Asked' = Asked
    BY <2>1 DEF LInv, Lead, UpToDate, Clear, Nested, Sources, Counted, Nothing, Asked,
                ShouldRebuild
  <2>3. CASE pc \in {"watch src", "watch toml"}
    <3>1. UpToDate
      <4>1. {"src"} # {"src", "toml"} /\ {} # {"src", "toml"}
        OBVIOUS
      <4>2. ~Watching
        BY <2>3, <4>1, Zenon DEF LInv, TInv, Stage, Watching
      <4> QED BY <2>3, <4>2, Zenon DEF LInv, Lead
    <3>2. pc' \in {"watch toml", "handler"}
      BY <1>1, <2>3 DEF Install, Go
    <3> QED BY <2>1, <2>2, <3>1, <3>2, Zenon DEF LInv, Lead, NothingLost
  <2>4. CASE pc = "handler"
    <3>1. pc' = "loop" /\ watched' = watched
      BY <1>1, <2>4 DEF Install, Go
    <3>2. Watching /\ Watching'
      BY <2>4, <3>1 DEF LInv, TInv, Stage, Watching
    <3>3. UpToDate \/ Asked
      BY <2>4, <3>2, Zenon DEF LInv, NothingLost
    <3> QED BY <2>1, <2>2, <3>1, <3>2, <3>3, Zenon DEF LInv, Lead, NothingLost
  <2> QED BY <2>1, <2>3, <2>4
<1>2. CASE InstallFails \/ Timeout
  <2>1. pc' = "ended" /\ UNCHANGED <<toml, version, loaded, read, watched>>
    BY <1>2 DEF InstallFails, Timeout, Go
  <2> QED BY <2>1, Still, Zenon DEF LInv, Lead, NothingLost
<1>3. CASE Receive
  <2>1. /\ UNCHANGED <<toml, version, loaded, read, watched>>
        /\ pc = "loop" /\ pc' \in {"run", "loop"} /\ Clear(loaded)
    BY <1>3 DEF Receive, Go, LInv, Lead
  <2>2. pc' = "loop" /\ Asked => Asked'
    BY <1>3, AskedReceived DEF LInv, TInv
  <2>3. Watching => UpToDate \/ Asked
    BY <2>1, Zenon DEF LInv, NothingLost
  <2>4. Lead'
    BY <2>1, Still DEF Lead
  <2>5. NothingLost'
    BY <2>1, <2>2, <2>3, Still DEF NothingLost
  <2> QED BY <2>4, <2>5 DEF LInv
<1>4. CASE Interrupt
  <2>1. /\ UNCHANGED <<toml, version, loaded, read, watched, cfg, pending, queue>>
        /\ pc' = "ended" \/ pc' = pc
    BY <1>4 DEF Interrupt, Go
  <2>2. Asked' = Asked
    BY <2>1 DEF Asked, ShouldRebuild
  <2>3. CASE pc' = "ended"
    BY <2>1, <2>3, Still, Zenon DEF LInv, Lead, NothingLost
  <2>4. CASE pc' = pc
    <3>1. Lead'
      BY <2>1, <2>2, <2>4, Still DEF LInv, Lead
    <3>2. NothingLost'
      BY <2>1, <2>2, <2>4, Still DEF LInv, NothingLost
    <3> QED BY <3>1, <3>2 DEF LInv
  <2> QED BY <2>1, <2>3, <2>4
<1> QED BY <1>1, <1>2, <1>3, <1>4

LEMMA LeadSent ==
    ASSUME Settled, LInv, TInv', Fire \/ WatcherError
    PROVE  LInv'
<1>1. UNCHANGED <<toml, version, loaded, read, watched, cfg, pc>>
  BY DEF Fire, WatcherError
<1>2. Asked => Asked'
  BY AskedSent, AskedErred DEF LInv, TInv
<1>3. Lead'
  BY <1>1, <1>2, Still DEF LInv, Lead
<1>4. NothingLost'
  BY <1>1, <1>2, Still DEF LInv, NothingLost
<1> QED BY <1>3, <1>4 DEF LInv

LEMMA LeadEdits ==
    ASSUME Settled, LInv, TInv'
    PROVE  /\ \A d \in Dir : EditSource(d) \/ EditOther(d) => LInv'
           /\ \A c \in Changes : EditToml(c) => LInv'
<1>1. ASSUME NEW d \in Dir, EditSource(d) PROVE LInv'
  <2>1. /\ UNCHANGED <<toml, loaded, read, watched, cfg, pc, queue>>
        /\ Emit([what |-> "dialect", dir |-> d]) /\ Watching
        /\ version' = [version EXCEPT ![d] = version[d] + 1]
    BY <1>1 DEF EditSource, MayEdit, Settled
  <2>2. Watching' /\ Clear(loaded)' = Clear(loaded) /\ toml' \in Known /\ loaded' \in Known
    BY <2>1 DEF Watching, Clear, Nested, LInv, Lead
  <2>3. Asked => Asked'
    BY <2>1, EmitGrows, AskedGrows
  <2>4. pc # "start"
    BY <2>1 DEF LInv, TInv, Stage, Watching
  <2>5. CASE pc = "ended"
    BY <2>1, <2>2, <2>5, Zenon DEF LInv, Lead, NothingLost
  <2>6. CASE pc # "ended" /\ Counted(d, toml)
    <3>1. Asked'
      BY <2>1, <2>4, <2>6, CountedRebuilds, EmitAsks
    <3> QED BY <2>1, <2>2, <2>4, <2>6, <3>1, Zenon DEF LInv, Lead, NothingLost
  <2>7. CASE ~Counted(d, toml)
    <3>1. version \in [Dir -> Nat]
      BY DEF LInv, TInv, WatchTypeOK
    <3>2. Sources(toml)' = Sources(toml)
      BY <2>1, <2>7, <3>1 DEF Sources, Counted, Nested, Nothing
    <3>3. UpToDate' = UpToDate
      BY <2>1, <3>2 DEF UpToDate
    <3>4. Lead'
      BY <2>1, <2>2, <2>3, <3>3 DEF LInv, Lead
    <3>5. NothingLost'
      BY <2>1, <2>2, <2>3, <3>3 DEF LInv, NothingLost
    <3> QED BY <3>4, <3>5 DEF LInv
  <2> QED BY <2>5, <2>6, <2>7
<1>2. ASSUME NEW d \in Dir, EditOther(d) PROVE LInv'
  <2>1. /\ UNCHANGED <<toml, version, loaded, read, watched, cfg, pc, queue>>
        /\ Emit([what |-> "other", dir |-> d])
    BY <1>2 DEF EditOther
  <2>2. Asked => Asked'
    BY <2>1, EmitGrows, AskedGrows
  <2>3. Lead'
    BY <2>1, <2>2, Still DEF LInv, Lead
  <2>4. NothingLost'
    BY <2>1, <2>2, Still DEF LInv, NothingLost
  <2> QED BY <2>3, <2>4 DEF LInv
<1>3. ASSUME NEW c \in Changes, EditToml(c) PROVE LInv'
  <2>1. /\ UNCHANGED <<version, loaded, read, watched, cfg, pc, queue>>
        /\ toml' = c /\ Emit(TomlEvent) /\ Watching
    BY <1>3 DEF EditToml, MayEdit, Settled
  <2>2. /\ Watching' /\ Clear(loaded)' = Clear(loaded)
        /\ toml' \in Known /\ loaded' \in Known
    BY <2>1 DEF Watching, Clear, Nested, LInv, Lead, Known
  <2>3. Delivered(TomlEvent) /\ ShouldRebuild(TomlEvent)
    BY <2>1 DEF Delivered, ShouldRebuild, Watching
  <2>4. Asked'
    BY <2>1, <2>3, EmitAsks
  <2>5. Lead'
    BY <2>1, <2>2, <2>4, Zenon DEF LInv, Lead
  <2> QED BY <2>4, <2>5, Zenon DEF LInv, NothingLost
<1> QED BY <1>1, <1>2, <1>3

LEMMA LeadStep == Settled /\ LInv /\ [WatchNext]_watchVars => LInv'
<1> SUFFICES ASSUME Settled, LInv, [WatchNext]_watchVars PROVE LInv'
  OBVIOUS
<1>1. TInv'
  BY WatchTypeStep DEF LInv
<1>2. CASE UNCHANGED watchVars
  <2>1. UNCHANGED <<toml, version, loaded, read, watched, cfg, pc, pending, queue>>
    BY <1>2 DEF watchVars
  <2>2. Asked' = Asked
    BY <2>1 DEF Asked, ShouldRebuild
  <2>3. Lead'
    BY <2>1, <2>2, Still DEF LInv, Lead
  <2>4. NothingLost'
    BY <2>1, <2>2, Still DEF LInv, NothingLost
  <2> QED BY <1>1, <2>3, <2>4 DEF LInv
<1>3. CASE WatchNext
  BY <1>1, <1>3, LeadRun, LeadLoop, LeadSent, LeadEdits DEF WatchNext, Process
<1> QED BY <1>2, <1>3

\* For every number of saves, errors and queued batches, every tree and every
\* fhec.toml that keeps its directories: an edit that no run has read has a
\* batch waiting that asks for one, or a run about to read it.
THEOREM NoEditLost == Settled => (WatchSpec => []NothingLost)
<1>1. Settled /\ WatchInit => LInv
  BY LeadInit
<1>2. Settled /\ LInv /\ [WatchNext]_watchVars => LInv'
  BY LeadStep
<1>3. LInv => NothingLost
  BY DEF LInv
<1>4. ASSUME Settled PROVE WatchSpec => []NothingLost
  <2>1. WatchInit => LInv
    BY <1>1, <1>4
  <2>2. LInv /\ [WatchNext]_watchVars => LInv'
    BY <1>2, <1>4
  <2> QED BY <1>3, <2>1, <2>2, PTL DEF WatchSpec
<1> QED BY <1>4
===============================================================================
