---------------------------- MODULE Branch_proofs -----------------------------
(***************************************************************************)
(* Proofs about Branch: the visit of callees with its shared cache of      *)
(* verdicts finds exactly the functions from which nothing refused and no  *)
(* cycle can be reached, for every unit and every graph of calls, and an   *)
(* accepted branch is clean in every contract.  The hypotheses are the     *)
(* places where the code is known to depart from that.                     *)
(***************************************************************************)
EXTENDS Branch, SequenceTheorems, WellFoundedInduction, TLAPS

-----------------------------------------------------------------------------
(* Sequences and numbers.                                                  *)

\* The library states this with an operator for "<", which no prover takes.
NatLess == {ss \in Nat \X Nat : ss[1] < ss[2]}

LEMMA Least ==
    ASSUME NEW T \in SUBSET Nat, T # {}
    PROVE  \E x \in T : \A y \in T : x <= y
<1>1. IsWellFoundedOn(NatLess, Nat)
  BY NatLessThanWellFounded DEF OpToRel, NatLess
<1>2. PICK x \in T : \A y \in T : ~(<<y, x>> \in NatLess)
  BY <1>1, WFMin
<1>3. ASSUME NEW y \in T PROVE x <= y
  <2>1. x \in Nat /\ y \in Nat /\ <<y, x>> \in Nat \X Nat
    OBVIOUS
  <2>2. ~(y < x)
    BY <1>2, <2>1 DEF NatLess
  <2> QED BY <2>1, <2>2
<1> QED BY <1>3

LEMMA RangeEmpty == Range(<< >>) = {}
<1>1. DOMAIN << >> = {}
  OBVIOUS
<1> QED BY <1>1 DEF Range

LEMMA RangeHeadTail ==
    ASSUME NEW S, NEW s \in Seq(S), s # << >>
    PROVE  /\ Head(s) \in S /\ Tail(s) \in Seq(S)
           /\ Range(s) = {Head(s)} \cup Range(Tail(s))
<1>1. Tail(s) \in Seq(S) /\ Len(Tail(s)) = Len(s) - 1 /\ Head(s) \in S
      /\ \A i \in 1..Len(Tail(s)) : Tail(s)[i] = s[i + 1]
  BY HeadTailProperties
<1>2. Range(Tail(s)) = {Tail(s)[i] : i \in 1..Len(Tail(s))} /\ Range(s) = {s[i] : i \in 1..Len(s)}
  BY <1>1, RangeEquality
<1>3. Len(s) \in Nat /\ Len(s) >= 1 /\ Head(s) = s[1]
  BY EmptySeq
<1>4. {s[i] : i \in 1..Len(s)} = {s[1]} \cup {s[i + 1] : i \in 1..Len(s) - 1}
  <2>1. \A i \in 1..Len(s) : i = 1 \/ (i - 1 \in 1..Len(s) - 1 /\ s[i] = s[(i - 1) + 1])
    BY <1>3
  <2>2. \A i \in 1..Len(s) - 1 : i + 1 \in 1..Len(s)
    BY <1>3
  <2> QED BY <1>3, <2>1, <2>2
<1> QED BY <1>1, <1>2, <1>3, <1>4

-----------------------------------------------------------------------------
Fn    == [of : Contracts, base : Nat, plain : Seq(Statements),
          branch : Seq(Statements), modified : BOOLEAN]
Frame == [f : Functions, rest : Seq(Statements)]

\* The linearization of a contract starts with it and holds those of its bases.
Hierarchy ==
    \A c \in Contracts :
        /\ Inherits(c, c)
        /\ \A d, e \in Contracts : Inherits(c, d) /\ Inherits(d, e) => Inherits(c, e)

\* A function calls those of its own contract and of its bases, none of a library.
OwnCallsOnly ==
    \A u \in Units : \A f \in DOMAIN u : \A i \in DOMAIN (u[f].plain \o u[f].branch) :
        LET s == (u[f].plain \o u[f].branch)[i] IN IsCall(s) => Inherits(u[f].of, u[s.f].of)

\* No function is overridden.
NothingVirtual == \A u \in Units : \A f \in DOMAIN u : u[f].base = 0

\* No encrypted branch calls a member of super.
NoSuper ==
    \A u \in Units : \A f \in DOMAIN u : \A i \in DOMAIN u[f].branch : u[f].branch[i].op # "super"

\* The statements on which both reject lists and the table of spec 7.1 agree;
\* what is verified for a call is what it names.
Recognized ==
    \A s \in Statements :
        /\ s.op # "named"
        /\ IsCall(s) => s.names = s.f
        /\ s.op \in Writes => s.root \notin {"pointer", "tuple"}
        /\ s.op = "step" => s.root = "fresh"

-----------------------------------------------------------------------------
(* The inductive invariant.                                                *)

TypeOK ==
    /\ unit \in Units
    /\ at \in 1 .. Len(unit) + 1
    /\ left \in Seq(Statements)
    /\ frames \in Seq(Frame)
    /\ DOMAIN cache \subseteq Functions /\ cache \in [DOMAIN cache -> BOOLEAN]
    /\ answers \subseteq [on : Contracts, f : Functions, safe : BOOLEAN]
    /\ errors \subseteq Functions

\* What SafeAlone rules out, but for the contract that asks.
Flawed(g) == \/ unit[g].modified
             \/ \E s \in Range(Whole(g)) : RefusedThere(s)
             \/ g \in Called(Calls(Whole(g)))
Bad(f)    == \E g \in Called({f}) : Flawed(g)

InProgress == {frames[i].f : i \in DOMAIN frames}
Verified   == {f \in DOMAIN cache : cache[f]}
Passed(s)  == ~RefusedThere(s) /\ (IsCall(s) => s.f \in Verified)
Allowed(s) == ~RefusedHere(s) /\ (IsCall(s) => s.f \in Verified)

\* A verdict is about the function alone, except while it is in progress.
CacheOK ==
    /\ \A f \in Verified : ~Flawed(f) /\ \A s \in Range(Whole(f)) : Passed(s)
    /\ \A f \in DOMAIN cache : f \in Verified \/ f \in InProgress \/ Bad(f)

\* What a call in progress is past is fine.
FrameOK(r) ==
    /\ r.f \in DOMAIN cache \ Verified /\ ~unit[r.f].modified
    /\ Range(r.rest) \subseteq Range(Whole(r.f))
    /\ \A s \in Range(Whole(r.f)) : s \in Range(r.rest) \/ Passed(s)

\* Each call in progress was made by the one below it, none twice.
Chained  == \A i, j \in DOMAIN frames : i <= j => frames[i].f \in Called({frames[j].f})
Distinct == \A i, j \in DOMAIN frames : i # j => frames[i].f # frames[j].f
Asked    == frames # << >> => at <= Len(unit) /\ \A g \in InProgress : Inherits(On, unit[g].of)

FramesOK == (\A i \in DOMAIN frames : FrameOK(frames[i])) /\ Chained /\ Distinct /\ Asked

\* What the walk is past is allowed, or its function has an error.
WalkOK ==
    /\ at <= Len(unit) => Range(left) \subseteq Range(unit[at].branch)
    /\ \A f \in Functions : f <= at =>
          \/ f \in errors
          \/ \A s \in Range(unit[f].branch) : (f = at /\ s \in Range(left)) \/ Allowed(s)

AnswersOK == \A a \in answers : Inherits(a.on, unit[a.f].of) /\ (a.safe <=> ~Bad(a.f))

IInv == TypeOK /\ CacheOK /\ FramesOK /\ WalkOK /\ AnswersOK

-----------------------------------------------------------------------------
(* What is reached.                                                        *)

LEMMA ClosureFacts ==
    ASSUME NEW to, NEW fs, \A f \in Functions : to[f] \subseteq Functions
    PROVE  /\ Closure(fs, to) \subseteq Functions
           /\ fs \subseteq Functions => fs \subseteq Closure(fs, to)
           /\ Closed(Closure(fs, to), to)
           /\ \A C \in SUBSET Functions :
                 fs \subseteq C /\ Closed(C, to) => Closure(fs, to) \subseteq C
<1>1. ASSUME NEW f \in Closure(fs, to), NEW g \in to[f] PROVE g \in Closure(fs, to)
  <2>1. f \in Functions /\ g \in Functions
    BY <1>1 DEF Closure
  <2>2. ASSUME NEW C \in SUBSET Functions, fs \subseteq C /\ Closed(C, to) PROVE g \in C
    <3>1. f \in C
      BY <1>1, <2>2 DEF Closure
    <3> QED BY <1>1, <2>2, <3>1 DEF Closed
  <2> QED BY <2>1, <2>2 DEF Closure
<1>2. Closed(Closure(fs, to), to)
  BY <1>1 DEF Closed
<1> QED BY <1>2 DEF Closure

\* The functions a body calls are those of its call statements.
LEMMA CallsFacts ==
    ASSUME NEW ss \in Seq(Statements)
    PROVE  /\ \A s \in Range(ss) : IsCall(s) => s.f \in Calls(ss)
           /\ \A g \in Calls(ss) : \E s \in Range(ss) : IsCall(s) /\ s.f = g
BY DEF Calls, Range

LEMMA BodyFacts ==
    ASSUME unit \in Units, NEW f \in Functions
    PROVE  /\ unit \in Seq(Fn) /\ unit # << >> /\ Functions = 1 .. Len(unit) /\ Len(unit) \in Nat
           /\ unit[f] \in Fn /\ Whole(f) \in Seq(Statements)
           /\ Range(unit[f].branch) \subseteq Range(Whole(f))
           /\ Calls(Whole(f)) \subseteq Functions
           /\ Calls(unit[f].branch) \subseteq Calls(Whole(f))
<1>1. unit \in Seq(Fn) /\ unit # << >>
  BY UnitAssumption DEF Fn
<1>2. Functions = 1 .. Len(unit) /\ Len(unit) \in Nat /\ unit[f] \in Fn
  BY <1>1, LenProperties, ElementOfSeq DEF Functions
<1>3. /\ unit[f].plain \in Seq(Statements) /\ unit[f].branch \in Seq(Statements)
      /\ unit[f].of \in Contracts
  BY <1>2 DEF Fn
<1>4. /\ Whole(f) \in Seq(Statements)
      /\ Len(Whole(f)) = Len(unit[f].plain) + Len(unit[f].branch)
      /\ \A i \in 1 .. Len(unit[f].branch) :
            Whole(f)[Len(unit[f].plain) + i] = unit[f].branch[i]
  <2> DEFINE p == unit[f].plain
             b == unit[f].branch
  <2>1. p \in Seq(Statements) /\ b \in Seq(Statements)
    BY <1>3
  <2> HIDE DEF p, b
  <2>2. /\ p \o b \in Seq(Statements) /\ Len(p \o b) = Len(p) + Len(b)
        /\ \A i \in 1 .. Len(p) + Len(b) : (p \o b)[i] = IF i <= Len(p) THEN p[i] ELSE b[i - Len(p)]
    BY <2>1, ConcatProperties
  <2>3. Len(p) \in Nat /\ Len(b) \in Nat
    BY <2>1, LenProperties
  <2>4. ASSUME NEW i \in 1 .. Len(b) PROVE (p \o b)[Len(p) + i] = b[i]
    <3>1. Len(p) + i \in 1 .. Len(p) + Len(b) /\ ~(Len(p) + i <= Len(p)) /\ (Len(p) + i) - Len(p) = i
      BY <2>3
    <3> QED BY <2>2, <3>1
  <2> QED BY <2>2, <2>4 DEF p, b, Whole
<1>5. Range(unit[f].branch) \subseteq Range(Whole(f))
  <2>1. /\ Range(unit[f].branch) = {unit[f].branch[i] : i \in 1 .. Len(unit[f].branch)}
        /\ Range(Whole(f)) = {Whole(f)[i] : i \in 1 .. Len(Whole(f))}
    BY <1>3, <1>4, RangeEquality
  <2>2. Len(unit[f].plain) \in Nat /\ Len(unit[f].branch) \in Nat
    BY <1>3, LenProperties
  <2>3. \A i \in 1 .. Len(unit[f].branch) : Len(unit[f].plain) + i \in 1 .. Len(Whole(f))
    <3>1. \A p, b \in Nat : \A i \in 1 .. b : p + i \in 1 .. p + b
      OBVIOUS
    <3> QED BY <1>4, <2>2, <3>1
  <2> QED BY <1>4, <2>1, <2>3
<1>6. Calls(Whole(f)) \subseteq Functions
  <2>1. \A i \in DOMAIN Whole(f) : IsCall(Whole(f)[i]) => Whole(f)[i].f \in Functions
    BY UnitAssumption DEF Whole, Functions, IsCall
  <2> QED BY <2>1 DEF Calls
<1>7. Calls(unit[f].branch) \subseteq Calls(Whole(f))
  <2> SUFFICES ASSUME NEW g \in Calls(unit[f].branch) PROVE g \in Calls(Whole(f))
    OBVIOUS
  <2>1. PICK s \in Range(unit[f].branch) : IsCall(s) /\ s.f = g
    BY <1>3, CallsFacts
  <2>2. s \in Range(Whole(f))
    BY <1>5
  <2> QED BY <1>4, <2>1, <2>2, CallsFacts
<1> QED BY <1>1, <1>2, <1>4, <1>5, <1>6, <1>7

LEMMA CalledFacts ==
    ASSUME unit \in Units
    PROVE  /\ \A fs : Called(fs) \subseteq Functions
           /\ \A fs \in SUBSET Functions : fs \subseteq Called(fs)
           /\ \A fs : \A f \in Called(fs) : Calls(Whole(f)) \subseteq Called(fs)
           /\ \A fs : \A C \in SUBSET Functions :
                 fs \subseteq C /\ (\A f \in C : Calls(Whole(f)) \subseteq C) => Called(fs) \subseteq C
<1> DEFINE to == [f \in Functions |-> Calls(Whole(f))]
<1>1. \A f \in Functions : to[f] = Calls(Whole(f)) /\ to[f] \subseteq Functions
  BY BodyFacts
<1>2. \A fs : Called(fs) = Closure(fs, to)
  BY DEF Called
<1> HIDE DEF to
<1> SUFFICES ASSUME NEW fs
             PROVE /\ Called(fs) \subseteq Functions
                   /\ fs \subseteq Functions => fs \subseteq Called(fs)
                   /\ \A f \in Called(fs) : Calls(Whole(f)) \subseteq Called(fs)
                   /\ \A C \in SUBSET Functions :
                        fs \subseteq C /\ (\A f \in C : Calls(Whole(f)) \subseteq C)
                          => Called(fs) \subseteq C
  OBVIOUS
<1>3. /\ Called(fs) \subseteq Functions
      /\ fs \subseteq Functions => fs \subseteq Called(fs)
      /\ Closed(Called(fs), to)
      /\ \A C \in SUBSET Functions : fs \subseteq C /\ Closed(C, to) => Called(fs) \subseteq C
  BY <1>1, <1>2, ClosureFacts
<1>4. \A C \in SUBSET Functions : Closed(C, to) <=> \A f \in C : Calls(Whole(f)) \subseteq C
  BY <1>1 DEF Closed
<1> QED BY <1>3, <1>4

\* Whoever is reached, all it reaches is.
LEMMA CalledMonotone ==
    ASSUME unit \in Units, NEW fs, NEW gs \in SUBSET Called(fs)
    PROVE  Called(gs) \subseteq Called(fs)
BY CalledFacts

\* A function is as bad as what it calls.
LEMMA BadCallee ==
    ASSUME unit \in Units, NEW f \in Functions, NEW g \in Calls(Whole(f)), Bad(g)
    PROVE  Bad(f)
<1>1. f \in Called({f}) /\ g \in Called({f})
  BY CalledFacts
<1>2. Called({g}) \subseteq Called({f})
  BY <1>1, CalledMonotone
<1> QED BY <1>2 DEF Bad

LEMMA BadItself ==
    ASSUME unit \in Units, NEW f \in Functions, Flawed(f) PROVE Bad(f)
BY CalledFacts DEF Bad

\* A function that one of its callees reaches lies on a cycle.
LEMMA OnACycle ==
    ASSUME unit \in Units, NEW f \in Functions, NEW g \in Calls(Whole(f)), f \in Called({g})
    PROVE  Bad(f)
<1>1. g \in Called(Calls(Whole(f)))
  BY BodyFacts, CalledFacts
<1>2. Called({g}) \subseteq Called(Calls(Whole(f)))
  BY <1>1, CalledMonotone
<1> QED BY <1>2, BadItself DEF Flawed

\* The verified functions call verified ones only.
LEMMA VerifiedCalls ==
    ASSUME TypeOK, CacheOK, NEW f \in Verified
    PROVE  Calls(Whole(f)) \subseteq Verified
<1>1. f \in Functions /\ \A s \in Range(Whole(f)) : IsCall(s) => s.f \in Verified
  BY DEF TypeOK, Verified, CacheOK, Passed
<1>2. Whole(f) \in Seq(Statements)
  BY <1>1, BodyFacts DEF TypeOK
<1>3. \A g \in Calls(Whole(f)) : \E s \in Range(Whole(f)) : IsCall(s) /\ s.f = g
  BY <1>2, CallsFacts
<1> QED BY <1>1, <1>3

LEMMA VerifiedClosed ==
    ASSUME TypeOK, CacheOK, NEW fs \in SUBSET Verified
    PROVE  Called(fs) \subseteq Verified
<1>1. Verified \in SUBSET Functions
  BY DEF TypeOK, Verified
<1> QED BY <1>1, VerifiedCalls, CalledFacts DEF TypeOK

LEMMA VerifiedGood ==
    ASSUME TypeOK, CacheOK, NEW f \in Verified PROVE ~Bad(f)
<1>1. Called({f}) \subseteq Verified
  BY VerifiedClosed
<1> QED BY <1>1 DEF Bad, CacheOK

\* A function whose callees are all verified is on no cycle.
LEMMA NewlyVerified ==
    ASSUME TypeOK, CacheOK, NEW f \in Functions \ Verified,
           \A s \in Range(Whole(f)) : Passed(s)
    PROVE  f \notin Called(Calls(Whole(f)))
<1>1. Calls(Whole(f)) \subseteq Verified
  <2>1. \A s \in Range(Whole(f)) : IsCall(s) => s.f \in Verified
    BY DEF Passed
  <2>2. Whole(f) \in Seq(Statements)
    BY BodyFacts DEF TypeOK
  <2>3. \A g \in Calls(Whole(f)) : \E s \in Range(Whole(f)) : IsCall(s) /\ s.f = g
    BY <2>2, CallsFacts
  <2> QED BY <2>1, <2>3
<1> QED BY <1>1, VerifiedClosed

\* Steps leave the unit alone, and with it all that is said of functions.
LEMMA UnitKept ==
    ASSUME unit' = unit
    PROVE  /\ Functions' = Functions
           /\ \A f : Whole(f)' = Whole(f)
           /\ \A f : Flawed(f)' <=> Flawed(f)
           /\ \A fs : Called(fs)' = Called(fs)
           /\ \A f : Bad(f)' <=> Bad(f)
BY DEF Functions, Whole, Flawed, Called, Closure, Closed, Bad

-----------------------------------------------------------------------------
(* The stack and the cache.                                                *)

LEMMA OnTop ==
    ASSUME NEW S, NEW s \in Seq(S), NEW e \in S
    PROVE  /\ <<e>> \o s \in Seq(S) /\ <<e>> \o s # << >>
           /\ DOMAIN (<<e>> \o s) = 1 .. Len(s) + 1 /\ Len(s) \in Nat
           /\ (<<e>> \o s)[1] = e
           /\ \A i \in 2 .. Len(s) + 1 : i - 1 \in DOMAIN s /\ (<<e>> \o s)[i] = s[i - 1]
<1>1. <<e>> \in Seq(S) /\ Len(<<e>>) = 1 /\ <<e>>[1] = e
  OBVIOUS
<1>2. Len(s) \in Nat /\ DOMAIN s = 1 .. Len(s)
  BY LenProperties
<1> DEFINE t == <<e>> \o s
<1>3. /\ t \in Seq(S) /\ Len(t) = 1 + Len(s)
      /\ \A i \in 1 .. 1 + Len(s) : t[i] = IF i <= 1 THEN <<e>>[i] ELSE s[i - 1]
  BY <1>1, ConcatProperties
<1> HIDE DEF t
<1>4. Len(t) = Len(s) + 1 /\ DOMAIN t = 1 .. Len(s) + 1 /\ t # << >>
  <2>1. Len(t) = Len(s) + 1 /\ DOMAIN t = 1 .. Len(t) /\ Len(s) + 1 # 0
    BY <1>2, <1>3, LenProperties
  <2> QED BY <1>3, <2>1, EmptySeq
<1>5. t[1] = e
  BY <1>1, <1>2, <1>3
<1>6. ASSUME NEW i \in 2 .. Len(s) + 1 PROVE i - 1 \in DOMAIN s /\ t[i] = s[i - 1]
  <2>1. i \in 1 .. 1 + Len(s) /\ ~(i <= 1) /\ i - 1 \in 1 .. Len(s)
    BY <1>2
  <2> QED BY <1>2, <1>3, <2>1
<1> QED BY <1>2, <1>3, <1>4, <1>5, <1>6 DEF t

LEMMA TopOff ==
    ASSUME NEW S, NEW s \in Seq(S), s # << >>
    PROVE  /\ Head(s) \in S /\ Tail(s) \in Seq(S) /\ Len(s) \in Nat /\ 1 \in DOMAIN s
           /\ Head(s) = s[1] /\ DOMAIN s = 1 .. Len(s)
           /\ Len(Tail(s)) \in Nat /\ Len(Tail(s)) + 1 = Len(s)
           /\ DOMAIN Tail(s) = 1 .. Len(s) - 1
           /\ \A i \in DOMAIN Tail(s) : i + 1 \in DOMAIN s /\ i + 1 # 1 /\ Tail(s)[i] = s[i + 1]
<1>1. Tail(s) \in Seq(S) /\ Len(Tail(s)) = Len(s) - 1 /\ Head(s) \in S
      /\ \A i \in 1 .. Len(Tail(s)) : Tail(s)[i] = s[i + 1]
  BY HeadTailProperties
<1>2. Len(s) \in Nat /\ Len(s) >= 1 /\ Head(s) = s[1] /\ DOMAIN s = 1 .. Len(s)
  BY EmptySeq, LenProperties
<1>3. DOMAIN Tail(s) = 1 .. Len(s) - 1 /\ Len(Tail(s)) \in Nat
  BY <1>1, LenProperties
<1> HIDE DEF Range
<1> QED BY <1>1, <1>2, <1>3

LEMMA Remembered ==
    ASSUME TypeOK, NEW f \in Functions, NEW safe \in BOOLEAN, Remember(f, safe), unit' = unit
    PROVE  /\ DOMAIN cache' = DOMAIN cache \cup {f}
           /\ DOMAIN cache' \subseteq Functions' /\ cache' \in [DOMAIN cache' -> BOOLEAN]
           /\ safe => Verified' = Verified \cup {f}
           /\ ~safe => Verified' = Verified \ {f}
<1>1. cache' = [g \in DOMAIN cache \cup {f} |-> IF g = f THEN safe ELSE cache[g]]
  BY DEF Remember
<1>2. \A g \in DOMAIN cache : cache[g] \in BOOLEAN
  BY DEF TypeOK
<1>3. DOMAIN cache' = DOMAIN cache \cup {f} /\ cache'[f] = safe
      /\ \A g \in DOMAIN cache \ {f} : cache'[g] = cache[g]
  BY <1>1
<1>4. cache' \in [DOMAIN cache' -> BOOLEAN]
  BY <1>1, <1>2
<1>5. DOMAIN cache' \subseteq Functions'
  BY <1>3 DEF TypeOK, Functions
<1> QED BY <1>3, <1>4, <1>5 DEF Verified

\* More verdicts in favour, and what was passed or allowed still is.
LEMMA FavourKept ==
    ASSUME Verified \subseteq Verified'
    PROVE  \A s : (Passed(s) => Passed(s)') /\ (Allowed(s) => Allowed(s)')
BY DEF Passed, Allowed, RefusedThere, RefusedHere, IsCall, Abrupt, Flow, Writes

\* A new function is entered: it counts as unsafe from here on.
LEMMA EnterKeeps ==
    ASSUME IInv, NEW f \in Functions, ~Cached(f), Enter(f), at <= Len(unit),
           Inherits(On, unit[f].of), frames # << >> => f \in Calls(Whole(Head(frames).f))
    PROVE  IInv'
<1> USE DEF IInv
<1>1. unit' = unit /\ at' = at /\ left' = left /\ answers' = answers /\ errors' = errors
  BY DEF Enter
<1>2. Remember(f, FALSE)
  BY DEF Enter
<1>3. /\ DOMAIN cache' = DOMAIN cache \cup {f} /\ f \notin DOMAIN cache
      /\ DOMAIN cache' \subseteq Functions' /\ cache' \in [DOMAIN cache' -> BOOLEAN]
      /\ Verified' = Verified /\ f \notin Verified
  <2>1. f \notin DOMAIN cache /\ f \notin Verified
    BY DEF Cached, Verified
  <2>2. /\ DOMAIN cache' = DOMAIN cache \cup {f}
        /\ DOMAIN cache' \subseteq Functions' /\ cache' \in [DOMAIN cache' -> BOOLEAN]
        /\ Verified' = Verified \ {f}
    <3>1. TypeOK /\ FALSE \in BOOLEAN
      OBVIOUS
    <3> QED BY <1>1, <1>2, <3>1, Remembered
  <2> QED BY <2>1, <2>2
<1>4. /\ Functions' = Functions /\ \A g : Whole(g)' = Whole(g)
      /\ \A g : (Flawed(g)' <=> Flawed(g)) /\ (Bad(g)' <=> Bad(g))
      /\ \A fs : Called(fs)' = Called(fs)
  BY <1>1, UnitKept
<1>5. \A s : (Passed(s) => Passed(s)') /\ (Allowed(s) => Allowed(s)')
  BY <1>3, FavourKept
<1>6. \A r : FrameOK(r) => FrameOK(r)'
  BY <1>1, <1>3, <1>4, <1>5 DEF FrameOK
<1>7. WalkOK' /\ AnswersOK'
  <2>1. WalkOK'
    BY <1>1, <1>4, <1>5 DEF WalkOK
  <2>2. AnswersOK'
    BY <1>1, <1>4 DEF AnswersOK, Inherits
  <2> QED BY <2>1, <2>2
<1>8. \A c, d : Inherits(c, d)' <=> Inherits(c, d)
  BY DEF Inherits
<1>9. CASE Sealed(f)
  <2>1. frames' = frames
    BY <1>9 DEF Enter
  <2>2. Bad(f)
    <3>1. unit[f].modified
      BY <1>9 DEF Sealed
    <3> QED BY <3>1, BadItself DEF Flawed, TypeOK
  <2>3. TypeOK'
    BY <1>1, <1>3, <1>4, <2>1 DEF TypeOK, Frame
  <2>4. CacheOK'
    BY <1>3, <1>4, <1>5, <2>1, <2>2 DEF CacheOK, InProgress
  <2>5. FramesOK'
    BY <1>1, <1>4, <1>6, <1>8, <2>1 DEF FramesOK, Chained, Distinct, Asked, InProgress, On
  <2> QED BY <1>7, <2>3, <2>4, <2>5
<1>10. CASE ~Sealed(f)
  <2> DEFINE e == [f |-> f, rest |-> Whole(f)]
  <2>1. frames' = <<e>> \o frames
    BY <1>10 DEF Enter
  <2>2. e \in Frame /\ e.f = f /\ e.rest = Whole(f)
    BY BodyFacts DEF Frame, TypeOK
  <2> HIDE DEF e
  <2>3. /\ frames' \in Seq(Frame) /\ frames' # << >>
        /\ DOMAIN frames' = 1 .. Len(frames) + 1 /\ Len(frames) \in Nat /\ frames'[1] = e
        /\ \A i \in 2 .. Len(frames) + 1 : i - 1 \in DOMAIN frames /\ frames'[i] = frames[i - 1]
    BY <2>1, <2>2, OnTop DEF TypeOK
  <2>4. \A i \in DOMAIN frames' : i = 1 \/ i \in 2 .. Len(frames) + 1
    BY <2>3
  <2>5. InProgress' \subseteq InProgress \cup {f}
    BY <2>2, <2>3, <2>4 DEF InProgress
  <2>6. InProgress \cup {f} \subseteq InProgress'
    <3>1. f \in InProgress'
      <4>1. 1 \in DOMAIN frames'
        BY <2>3
      <4> QED BY <2>2, <2>3, <4>1 DEF InProgress
    <3>2. ASSUME NEW i \in DOMAIN frames PROVE frames[i].f \in InProgress'
      <4>1. DOMAIN frames = 1 .. Len(frames)
        BY LenProperties DEF TypeOK
      <4>2. i + 1 \in 2 .. Len(frames) + 1 /\ i + 1 \in DOMAIN frames' /\ (i + 1) - 1 = i
        BY <2>3, <4>1
      <4> QED BY <2>3, <4>2 DEF InProgress
    <3> QED BY <3>1, <3>2 DEF InProgress
  <2>7. TypeOK'
    <3>1. Frame' = Frame
      BY <1>4 DEF Frame
    <3> QED BY <1>1, <1>3, <1>4, <2>3, <3>1 DEF TypeOK
  <2>8. CacheOK'
    BY <1>3, <1>4, <1>5, <2>5, <2>6 DEF CacheOK
  <2>9. (\A i \in DOMAIN frames : FrameOK(frames[i]))'
    <3>1. ASSUME NEW r, r = e PROVE FrameOK(r)'
      <4>1. f \in DOMAIN cache' \ Verified' /\ ~unit'[f].modified
        BY <1>1, <1>3, <1>10 DEF Sealed
      <4> QED BY <1>4, <2>2, <3>1, <4>1 DEF FrameOK
    <3>2. ASSUME NEW r, NEW i \in DOMAIN frames', r = frames'[i] PROVE FrameOK(r)'
      <4>1. CASE i = 1
        BY <2>3, <3>1, <3>2, <4>1
      <4>2. CASE i # 1
        <5>1. i - 1 \in DOMAIN frames /\ r = frames[i - 1]
          BY <2>3, <2>4, <3>2, <4>2
        <5>2. FrameOK(r)
          BY <5>1 DEF FramesOK
        <5> QED BY <1>6, <5>2
      <4> QED BY <4>1, <4>2
    <3> QED BY <3>2 DEF FrameOK
  <2>10. Chained'
    <3>1. ASSUME NEW j \in DOMAIN frames' PROVE f \in Called({frames'[j].f})
      <4>1. CASE j = 1
        BY <2>2, <2>3, <4>1, CalledFacts DEF TypeOK
      <4>2. CASE j # 1
        <5>1. j - 1 \in DOMAIN frames /\ frames'[j] = frames[j - 1]
          BY <2>3, <2>4, <4>2
        <5>2. DOMAIN frames = 1 .. Len(frames) /\ frames # << >>
          BY <5>1, EmptySeq, LenProperties DEF TypeOK
        <5>3. 1 \in DOMAIN frames /\ 1 <= j - 1 /\ Head(frames) = frames[1]
          BY <5>1, <5>2, TopOff DEF TypeOK
        <5>4. frames[1].f \in Called({frames[j - 1].f})
          BY <5>1, <5>3 DEF FramesOK, Chained
        <5> QED BY <5>1, <5>2, <5>3, <5>4, CalledFacts DEF TypeOK
      <4> QED BY <4>1, <4>2
    <3>2. ASSUME NEW i \in DOMAIN frames', NEW j \in DOMAIN frames', i <= j, i # 1
          PROVE  frames'[i].f \in Called({frames'[j].f})
      <4>1. i \in 2 .. Len(frames) + 1 /\ j \in 2 .. Len(frames) + 1
        BY <2>3, <3>2
      <4>2. i - 1 \in DOMAIN frames /\ j - 1 \in DOMAIN frames /\ i - 1 <= j - 1
        BY <2>3, <3>2, <4>1
      <4>3. frames[i - 1].f \in Called({frames[j - 1].f})
        BY <4>2 DEF FramesOK, Chained
      <4> QED BY <2>3, <4>1, <4>3
    <3> QED BY <1>4, <2>2, <2>3, <3>1, <3>2 DEF Chained
  <2>11. Distinct'
    <3>1. \A i \in DOMAIN frames : frames[i].f # f
      BY <1>3 DEF FramesOK, FrameOK
    <3>2. ASSUME NEW i \in DOMAIN frames', NEW j \in DOMAIN frames', i # j, i # 1, j # 1
          PROVE  frames'[i].f # frames'[j].f
      <4>1. i \in 2 .. Len(frames) + 1 /\ j \in 2 .. Len(frames) + 1
        BY <2>3, <3>2
      <4>2. i - 1 \in DOMAIN frames /\ j - 1 \in DOMAIN frames /\ i - 1 # j - 1
        BY <2>3, <3>2, <4>1
      <4> QED BY <2>3, <4>1, <4>2 DEF FramesOK, Distinct
    <3>3. \A i \in DOMAIN frames' : i # 1 => frames'[i].f # f
      BY <2>3, <2>4, <3>1
    <3> QED BY <2>2, <2>3, <3>2, <3>3 DEF Distinct
  <2>12. Asked'
    <3>1. \A g \in InProgress : Inherits(On, unit[g].of)
      <4>1. InProgress # {} => frames # << >>
        BY EmptySeq DEF InProgress
      <4> QED BY <4>1 DEF FramesOK, Asked
    <3> QED BY <1>1, <1>8, <2>5, <3>1 DEF Asked, On
  <2>13. FramesOK'
    BY <2>9, <2>10, <2>11, <2>12 DEF FramesOK
  <2> QED BY <1>7, <2>7, <2>8, <2>13
<1> QED BY <1>9, <1>10

\* The innermost call ends, with the verdict it deserves.
LEMMA VerdictKeeps ==
    ASSUME IInv, frames # << >>, NEW safe \in BOOLEAN, Verdict(safe),
           safe => \A s \in Range(Whole(Head(frames).f)) : Passed(s),
           ~safe => Bad(Head(frames).f)
    PROVE  IInv'
<1> USE DEF IInv
<1> DEFINE top == Head(frames).f
<1>1. /\ unit' = unit /\ at' = at /\ left' = left /\ answers' = answers /\ errors' = errors
      /\ frames' = Tail(frames)
  BY DEF Verdict
<1>2. /\ Head(frames) \in Frame /\ Tail(frames) \in Seq(Frame) /\ 1 \in DOMAIN frames
      /\ Head(frames) = frames[1] /\ DOMAIN Tail(frames) = 1 .. Len(frames) - 1
      /\ \A i \in DOMAIN Tail(frames) :
            i + 1 \in DOMAIN frames /\ i + 1 # 1 /\ Tail(frames)[i] = frames[i + 1]
      /\ Len(frames) \in Nat /\ DOMAIN frames = 1 .. Len(frames)
  BY TopOff DEF TypeOK
<1>3. /\ top \in Functions /\ top \in DOMAIN cache \ Verified /\ ~unit[top].modified
      /\ frames[1].f = top
  BY <1>2 DEF Frame, FramesOK, FrameOK
<1> HIDE DEF top
<1>4. /\ DOMAIN cache' = DOMAIN cache
      /\ DOMAIN cache' \subseteq Functions' /\ cache' \in [DOMAIN cache' -> BOOLEAN]
      /\ safe => Verified' = Verified \cup {top}
      /\ ~safe => Verified' = Verified
  <2>1. TypeOK /\ Remember(top, safe)
    BY DEF Verdict, top
  <2>2. /\ DOMAIN cache' = DOMAIN cache \cup {top}
        /\ DOMAIN cache' \subseteq Functions' /\ cache' \in [DOMAIN cache' -> BOOLEAN]
        /\ safe => Verified' = Verified \cup {top}
        /\ ~safe => Verified' = Verified \ {top}
    BY <1>1, <1>3, <2>1, Remembered
  <2> QED BY <1>3, <2>2
<1>5. /\ Functions' = Functions /\ \A g : Whole(g)' = Whole(g)
      /\ \A g : (Flawed(g)' <=> Flawed(g)) /\ (Bad(g)' <=> Bad(g))
      /\ \A fs : Called(fs)' = Called(fs)
  BY <1>1, UnitKept
<1>6. Verified \subseteq Verified'
  BY <1>4
<1>7. \A s : (Passed(s) => Passed(s)') /\ (Allowed(s) => Allowed(s)')
  BY <1>6, FavourKept
<1>8. \A c, d : Inherits(c, d)' <=> Inherits(c, d)
  BY DEF Inherits
<1>9. WalkOK' /\ AnswersOK'
  <2>1. WalkOK'
    BY <1>1, <1>5, <1>7 DEF WalkOK
  <2>2. AnswersOK'
    BY <1>1, <1>5 DEF AnswersOK, Inherits
  <2> QED BY <2>1, <2>2
<1>10. TypeOK'
  <2>1. Frame' = Frame
    BY <1>5 DEF Frame
  <2> QED BY <1>1, <1>2, <1>4, <1>5, <2>1 DEF TypeOK
<1>11. InProgress' \subseteq InProgress /\ InProgress \subseteq InProgress' \cup {top} /\ top \notin InProgress'
  <2>1. ASSUME NEW i \in DOMAIN frames'
        PROVE  i + 1 \in DOMAIN frames /\ frames'[i] = frames[i + 1] /\ frames'[i].f # top
    BY <1>1, <1>2, <1>3 DEF FramesOK, Distinct
  <2>2. ASSUME NEW i \in DOMAIN frames, i # 1 PROVE frames[i].f \in InProgress'
    <3>1. i - 1 \in 1 .. Len(frames) - 1 /\ (i - 1) + 1 = i
      BY <1>2, <2>2
    <3>2. i - 1 \in DOMAIN frames' /\ frames'[i - 1] = frames[i]
      BY <1>1, <1>2, <3>1
    <3> QED BY <3>2 DEF InProgress
  <2> QED BY <1>3, <2>1, <2>2 DEF InProgress
<1>12. CacheOK'
  <2>1. ASSUME safe PROVE ~Flawed(top) /\ \A s \in Range(Whole(top)) : Passed(s)
    <3>1. \A s \in Range(Whole(top)) : Passed(s)
      BY <2>1 DEF top
    <3>2. top \notin Called(Calls(Whole(top)))
      BY <1>3, <3>1, NewlyVerified
    <3> QED BY <1>3, <3>1, <3>2 DEF Flawed, Passed
  <2>2. ASSUME ~safe PROVE Bad(top)
    BY <2>2 DEF top
  <2>3. \A f \in Verified' : ~Flawed(f) /\ \A s \in Range(Whole(f)) : Passed(s)
    <3>1. CASE safe
      BY <1>4, <2>1, <3>1 DEF CacheOK
    <3>2. CASE ~safe
      BY <1>4, <3>2 DEF CacheOK
    <3> QED BY <3>1, <3>2
  <2>4. \A f \in DOMAIN cache' : f \in Verified' \/ f \in InProgress' \/ Bad(f)
    <3>1. CASE safe
      BY <1>4, <1>11, <3>1 DEF CacheOK
    <3>2. CASE ~safe
      BY <1>4, <1>11, <2>2, <3>2 DEF CacheOK
    <3> QED BY <3>1, <3>2
  <2> QED BY <1>5, <1>7, <2>3, <2>4 DEF CacheOK
<1>13. FramesOK'
  <2>1. (\A i \in DOMAIN frames : FrameOK(frames[i]))'
    <3>1. ASSUME NEW i \in DOMAIN frames', NEW r, r = frames'[i] PROVE FrameOK(r)'
      <4>1. i + 1 \in DOMAIN frames /\ r = frames[i + 1] /\ i + 1 # 1
        BY <1>1, <1>2, <3>1
      <4>2. FrameOK(r) /\ r.f # top
        BY <1>2, <1>3, <4>1 DEF FramesOK, Distinct
      <4>3. r.f \in DOMAIN cache' \ Verified'
        BY <1>4, <4>2 DEF FrameOK
      <4> QED BY <1>1, <1>5, <1>7, <4>2, <4>3 DEF FrameOK
    <3> QED BY <3>1 DEF FrameOK
  <2>2. Chained'
    <3>1. ASSUME NEW i \in DOMAIN frames', NEW j \in DOMAIN frames', i <= j
          PROVE  frames'[i].f \in Called({frames'[j].f})
      <4>1. /\ i + 1 \in DOMAIN frames /\ frames'[i] = frames[i + 1]
            /\ j + 1 \in DOMAIN frames /\ frames'[j] = frames[j + 1]
        BY <1>1, <1>2
      <4>2. i + 1 <= j + 1
        <5>1. i \in Nat /\ j \in Nat
          BY <1>1, <1>2
        <5> QED BY <3>1, <5>1
      <4> QED BY <4>1, <4>2 DEF FramesOK, Chained
    <3> QED BY <1>5, <3>1 DEF Chained
  <2>3. Distinct'
    <3>1. ASSUME NEW i \in DOMAIN frames', NEW j \in DOMAIN frames', i # j
          PROVE  frames'[i].f # frames'[j].f
      <4>1. /\ i + 1 \in DOMAIN frames /\ frames'[i] = frames[i + 1]
            /\ j + 1 \in DOMAIN frames /\ frames'[j] = frames[j + 1]
        BY <1>1, <1>2
      <4>2. i + 1 # j + 1
        <5>1. i \in Nat /\ j \in Nat
          BY <1>1, <1>2
        <5> QED BY <3>1, <5>1
      <4> QED BY <4>1, <4>2 DEF FramesOK, Distinct
    <3> QED BY <3>1 DEF Distinct
  <2>4. Asked'
    BY <1>1, <1>8, <1>11 DEF FramesOK, Asked, On
  <2> QED BY <2>1, <2>2, <2>3, <2>4 DEF FramesOK
<1> QED BY <1>9, <1>10, <1>12, <1>13

-----------------------------------------------------------------------------
(* The steps.                                                              *)

LEMMA CallsInherit ==
    ASSUME Hierarchy, OwnCallsOnly, unit \in Units, NEW f \in Functions,
           NEW g \in Calls(Whole(f)), NEW c \in Contracts, Inherits(c, unit[f].of)
    PROVE  g \in Functions /\ Inherits(c, unit[g].of)
<1>1. g \in Functions /\ unit[f].of \in Contracts /\ unit[g].of \in Contracts
  <2>1. g \in Functions
    BY BodyFacts
  <2> QED BY <2>1, BodyFacts DEF Fn
<1>2. PICK i \in DOMAIN Whole(f) : IsCall(Whole(f)[i]) /\ Whole(f)[i].f = g
  BY DEF Calls
<1>3. Inherits(unit[f].of, unit[g].of)
  BY <1>2 DEF OwnCallsOnly, Whole, Functions
<1> QED BY <1>1, <1>3 DEF Hierarchy

\* The statement branch_safe looks at.
LEMMA NowFacts ==
    ASSUME IInv, frames # << >>, Head(frames).rest # << >>
    PROVE  LET r == Head(frames)
           IN /\ r \in Frame /\ r = frames[1] /\ 1 \in DOMAIN frames /\ FrameOK(r)
              /\ r.f \in Functions /\ Now \in Statements /\ Now \in Range(Whole(r.f))
              /\ Tail(r.rest) \in Seq(Statements)
              /\ Range(r.rest) = {Now} \cup Range(Tail(r.rest))
              /\ IsCall(Now) => Now.f \in Calls(Whole(r.f)) /\ Now.f \in Functions
<1> DEFINE r == Head(frames)
<1>1. r \in Frame /\ r = frames[1] /\ 1 \in DOMAIN frames
  BY TopOff DEF IInv, TypeOK
<1>2. FrameOK(r)
  BY <1>1 DEF IInv, FramesOK
<1>3. r.f \in Functions /\ r.rest \in Seq(Statements) /\ Now = Head(r.rest)
  BY <1>1 DEF Frame, Now
<1>4. /\ Now \in Statements /\ Tail(r.rest) \in Seq(Statements)
      /\ Range(r.rest) = {Now} \cup Range(Tail(r.rest))
  BY <1>3, RangeHeadTail
<1>5. Now \in Range(Whole(r.f))
  BY <1>2, <1>4 DEF FrameOK
<1>6. Whole(r.f) \in Seq(Statements) /\ Calls(Whole(r.f)) \subseteq Functions
  BY <1>3, BodyFacts DEF IInv, TypeOK
<1>7. IsCall(Now) => Now.f \in Calls(Whole(r.f))
  BY <1>5, <1>6, CallsFacts
<1> QED BY <1>1, <1>2, <1>3, <1>4, <1>5, <1>6, <1>7

LEMMA FinishKeeps == ASSUME IInv, Finish PROVE IInv'
<1>1. frames # << >> /\ Head(frames).rest = << >> /\ Verdict(TRUE)
  BY DEF Finish
<1>2. Head(frames) = frames[1] /\ 1 \in DOMAIN frames
  BY <1>1, TopOff DEF IInv, TypeOK
<1>3. FrameOK(Head(frames))
  BY <1>2 DEF IInv, FramesOK
<1>4. \A s \in Range(Whole(Head(frames).f)) : Passed(s)
  BY <1>1, <1>3, RangeEmpty DEF FrameOK
<1> QED BY <1>1, <1>4, VerdictKeeps

LEMMA RejectKeeps == ASSUME IInv, Reject PROVE IInv'
<1> DEFINE top == Head(frames).f
<1>1. frames # << >> /\ Head(frames).rest # << >> /\ Verdict(FALSE)
      /\ (RefusedThere(Now) \/ (IsCall(Now) /\ Cached(Now.f) /\ ~cache[Now.f]))
  BY DEF Reject
<1>2. /\ top \in Functions /\ Now \in Range(Whole(top)) /\ unit \in Units
      /\ top = frames[1].f /\ 1 \in DOMAIN frames
      /\ IsCall(Now) => Now.f \in Calls(Whole(top)) /\ Now.f \in Functions
  BY <1>1, NowFacts DEF IInv, TypeOK
<1> HIDE DEF top
<1>3. CASE RefusedThere(Now)
  <2>1. Bad(top)
    BY <1>2, <1>3, BadItself DEF Flawed
  <2> QED BY <1>1, <2>1, VerdictKeeps DEF top
<1>4. CASE IsCall(Now) /\ Cached(Now.f) /\ ~cache[Now.f]
  <2>1. Now.f \in DOMAIN cache /\ Now.f \notin Verified
    BY <1>4 DEF Cached, Verified
  <2>2. CASE Now.f \in InProgress
    <3>1. PICK j \in DOMAIN frames : frames[j].f = Now.f
      BY <2>2 DEF InProgress
    <3>2. 1 <= j
      BY LenProperties DEF IInv, TypeOK
    <3>3. top \in Called({Now.f})
      BY <1>2, <3>1, <3>2 DEF IInv, FramesOK, Chained
    <3>4. Bad(top)
      BY <1>2, <1>4, <3>3, OnACycle
    <3> QED BY <1>1, <3>4, VerdictKeeps DEF top
  <2>3. CASE Now.f \notin InProgress
    <3>1. Bad(Now.f)
      BY <2>1, <2>3 DEF IInv, CacheOK
    <3>2. Bad(top)
      BY <1>2, <1>4, <3>1, BadCallee
    <3> QED BY <1>1, <3>2, VerdictKeeps DEF top
  <2> QED BY <2>2, <2>3
<1> QED BY <1>1, <1>3, <1>4

LEMMA DescendKeeps == ASSUME Hierarchy, OwnCallsOnly, IInv, Descend PROVE IInv'
<1>1. frames # << >> /\ Head(frames).rest # << >> /\ IsCall(Now) /\ ~Cached(Now.f) /\ Enter(Now.f)
  BY DEF Descend
<1>2. /\ Head(frames).f \in Functions /\ Head(frames) = frames[1] /\ 1 \in DOMAIN frames
      /\ Now.f \in Calls(Whole(Head(frames).f)) /\ Now.f \in Functions
  BY <1>1, NowFacts
<1>3. at <= Len(unit) /\ Inherits(On, unit[Head(frames).f].of)
  <2>1. Head(frames).f \in InProgress
    BY <1>2 DEF InProgress
  <2> QED BY <1>1, <2>1 DEF IInv, FramesOK, Asked
<1>4. at \in Functions /\ On \in Contracts
  <2>1. at \in Functions
    BY <1>2, <1>3, BodyFacts DEF IInv, TypeOK
  <2> QED BY <2>1, BodyFacts DEF IInv, TypeOK, Fn, On
<1>5. Inherits(On, unit[Now.f].of)
  BY <1>2, <1>3, <1>4, CallsInherit DEF IInv, TypeOK
<1> QED BY <1>1, <1>2, <1>3, <1>5, EnterKeeps

LEMMA PassKeeps == ASSUME IInv, Pass PROVE IInv'
<1> DEFINE r == Head(frames)
           e == [r EXCEPT !.rest = Tail(r.rest)]
<1>1. /\ frames # << >> /\ r.rest # << >> /\ ~RefusedThere(Now)
      /\ IsCall(Now) => Cached(Now.f) /\ cache[Now.f]
      /\ frames' = <<e>> \o Tail(frames)
      /\ UNCHANGED <<unit, at, left, cache, answers, errors>>
  BY DEF Pass
<1>2. /\ r \in Frame /\ r = frames[1] /\ 1 \in DOMAIN frames /\ FrameOK(r)
      /\ Tail(r.rest) \in Seq(Statements) /\ Range(r.rest) = {Now} \cup Range(Tail(r.rest))
  BY <1>1, NowFacts
<1>3. e \in Frame /\ e.f = r.f /\ e.rest = Tail(r.rest)
  BY <1>2 DEF Frame
<1>4. Passed(Now)
  BY <1>1 DEF Passed, Verified, Cached
<1>5. FrameOK(e)
  BY <1>2, <1>3, <1>4 DEF FrameOK
<1> HIDE DEF r, e
<1>6. /\ Tail(frames) \in Seq(Frame) /\ Len(frames) \in Nat /\ DOMAIN frames = 1 .. Len(frames)
      /\ Len(Tail(frames)) \in Nat /\ Len(Tail(frames)) + 1 = Len(frames)
      /\ \A i \in DOMAIN Tail(frames) : i + 1 \in DOMAIN frames /\ Tail(frames)[i] = frames[i + 1]
  BY <1>1, TopOff DEF IInv, TypeOK
<1>7. /\ frames' \in Seq(Frame) /\ frames' # << >>
      /\ DOMAIN frames' = DOMAIN frames /\ frames'[1] = e
      /\ \A i \in DOMAIN frames : i # 1 => frames'[i] = frames[i]
  <2>1. /\ frames' \in Seq(Frame) /\ frames' # << >>
        /\ DOMAIN frames' = 1 .. Len(Tail(frames)) + 1 /\ frames'[1] = e
        /\ \A i \in 2 .. Len(Tail(frames)) + 1 :
              i - 1 \in DOMAIN Tail(frames) /\ frames'[i] = Tail(frames)[i - 1]
    BY <1>1, <1>3, <1>6, OnTop
  <2>2. ASSUME NEW i \in DOMAIN frames, i # 1 PROVE frames'[i] = frames[i]
    <3>1. i \in 2 .. Len(Tail(frames)) + 1 /\ (i - 1) + 1 = i
      BY <1>6, <2>2
    <3> QED BY <1>6, <2>1, <3>1
  <2> QED BY <1>6, <2>1, <2>2
<1>8. \A i \in DOMAIN frames : frames'[i].f = frames[i].f
  BY <1>2, <1>3, <1>7
<1>9. /\ Functions' = Functions /\ \A g : Whole(g)' = Whole(g) /\ (Bad(g)' <=> Bad(g))
      /\ \A g : (Flawed(g)' <=> Flawed(g)) /\ \A fs : Called(fs)' = Called(fs)
  BY <1>1, UnitKept
<1>10. Verified' = Verified /\ InProgress' = InProgress
  <2>1. Verified' = Verified
    BY <1>1 DEF Verified
  <2>2. InProgress' = InProgress
    BY <1>7, <1>8 DEF InProgress
  <2> QED BY <2>1, <2>2
<1>11. \A s : (Passed(s) => Passed(s)') /\ (Allowed(s) => Allowed(s)')
  BY <1>10, FavourKept
<1>12. TypeOK'
  <2>1. Frame' = Frame
    BY <1>9 DEF Frame
  <2> QED BY <1>1, <1>7, <1>9, <2>1 DEF IInv, TypeOK
<1>13. CacheOK'
  BY <1>1, <1>9, <1>10, <1>11 DEF IInv, CacheOK
<1>14. WalkOK' /\ AnswersOK'
  <2>1. WalkOK'
    BY <1>1, <1>9, <1>11 DEF IInv, WalkOK
  <2>2. AnswersOK'
    BY <1>1, <1>9 DEF IInv, AnswersOK, Inherits
  <2> QED BY <2>1, <2>2
<1>15. (\A i \in DOMAIN frames : FrameOK(frames[i]))'
  <2>1. ASSUME NEW i \in DOMAIN frames', NEW q, q = frames'[i] PROVE FrameOK(q)'
    <3>1. FrameOK(q)
      BY <1>5, <1>7, <2>1 DEF IInv, FramesOK
    <3> QED BY <1>1, <1>9, <1>10, <1>11, <3>1 DEF FrameOK
  <2> QED BY <2>1 DEF FrameOK
<1>16. FramesOK'
  <2>1. Chained' /\ Distinct'
    BY <1>7, <1>8, <1>9 DEF IInv, FramesOK, Chained, Distinct
  <2>2. Asked'
    <3>1. \A c, d : Inherits(c, d)' <=> Inherits(c, d)
      BY DEF Inherits
    <3> QED BY <1>1, <1>10, <3>1 DEF IInv, FramesOK, Asked, On
  <2> QED BY <1>15, <2>1, <2>2 DEF FramesOK
<1> QED BY <1>12, <1>13, <1>14, <1>16 DEF IInv

\* The walk is at a function of the unit, and at a statement of its branch.
LEMMA StmtFacts ==
    ASSUME IInv, Walking, left # << >>
    PROVE  /\ at \in Functions /\ On \in Contracts /\ Tail(left) \in Seq(Statements)
           /\ Range(left) = {Stmt} \cup Range(Tail(left))
           /\ IsCall(Stmt) => Stmt.f \in Calls(Whole(at)) /\ Stmt.f \in Functions
<1>1. at \in Functions
  <2>1. Functions = 1 .. Len(unit) /\ Len(unit) \in Nat
    <3>1. unit \in Seq(Fn)
      BY UnitAssumption DEF IInv, TypeOK, Fn
    <3> QED BY <3>1, LenProperties DEF Functions
  <2> QED BY <2>1 DEF IInv, TypeOK, Walking
<1>2. /\ On \in Contracts /\ unit[at].branch \in Seq(Statements)
      /\ Calls(unit[at].branch) \subseteq Calls(Whole(at)) /\ Calls(Whole(at)) \subseteq Functions
  BY <1>1, BodyFacts DEF IInv, TypeOK, Fn, On
<1>3. Tail(left) \in Seq(Statements) /\ Range(left) = {Stmt} \cup Range(Tail(left))
  BY RangeHeadTail DEF IInv, TypeOK, Stmt
<1>4. Stmt \in Range(unit[at].branch)
  BY <1>3 DEF IInv, WalkOK, Walking
<1>5. IsCall(Stmt) => Stmt.f \in Calls(unit[at].branch)
  BY <1>2, <1>4, CallsFacts
<1> QED BY <1>1, <1>2, <1>3, <1>5

LEMMA AskKeeps == ASSUME Hierarchy, OwnCallsOnly, IInv, Ask PROVE IInv'
<1>1. Walking /\ left # << >> /\ IsCall(Stmt) /\ ~Cached(Stmt.f) /\ Enter(Stmt.f)
      /\ frames = << >> /\ at <= Len(unit)
  BY DEF Ask, Walking
<1>2. at \in Functions /\ On \in Contracts /\ Stmt.f \in Calls(Whole(at)) /\ Stmt.f \in Functions
  BY <1>1, StmtFacts
<1>3. Inherits(On, unit[Stmt.f].of)
  <2>1. Inherits(On, unit[at].of)
    BY <1>2 DEF Hierarchy, On
  <2> QED BY <1>2, <2>1, CallsInherit DEF IInv, TypeOK
<1> QED BY <1>1, <1>2, <1>3, EnterKeeps

\* A step of the walk asks nothing of the stack and changes no verdict.
LEMMA SearchKept ==
    ASSUME IInv, frames = << >>, UNCHANGED <<unit, frames, cache>>
    PROVE  /\ CacheOK' /\ FramesOK' /\ Verified' = Verified /\ Functions' = Functions
           /\ \A s : Allowed(s) => Allowed(s)'
           /\ \A g : Bad(g)' <=> Bad(g)
<1>1. /\ Functions' = Functions /\ \A g : Whole(g)' = Whole(g) /\ (Bad(g)' <=> Bad(g))
      /\ \A g : (Flawed(g)' <=> Flawed(g)) /\ \A fs : Called(fs)' = Called(fs)
  BY UnitKept
<1>2. Verified' = Verified /\ InProgress' = InProgress
  BY DEF Verified, InProgress
<1>3. \A s : (Passed(s) => Passed(s)') /\ (Allowed(s) => Allowed(s)')
  BY <1>2, FavourKept
<1>4. CacheOK'
  BY <1>1, <1>2, <1>3 DEF IInv, CacheOK
<1>5. FramesOK'
  BY DEF FramesOK, Chained, Distinct, Asked
<1> QED BY <1>1, <1>2, <1>3, <1>4, <1>5

LEMMA TakeKeeps == ASSUME IInv, Take PROVE IInv'
<1>1. /\ Walking /\ left # << >> /\ ~IsCall(Stmt) /\ left' = Tail(left) /\ frames = << >>
      /\ errors' = IF RefusedHere(Stmt) THEN errors \cup {at} ELSE errors
      /\ UNCHANGED <<unit, at, frames, cache, answers>>
  BY DEF Take, Walking
<1>2. at \in Functions /\ Tail(left) \in Seq(Statements)
      /\ Range(left) = {Stmt} \cup Range(Tail(left))
  BY <1>1, StmtFacts
<1>3. /\ CacheOK' /\ FramesOK' /\ Functions' = Functions
      /\ \A s : Allowed(s) => Allowed(s)'
      /\ \A g : Bad(g)' <=> Bad(g)
  BY <1>1, SearchKept
<1>4. TypeOK'
  <2>1. Frame' = Frame
    BY <1>3 DEF Frame
  <2> QED BY <1>1, <1>2, <1>3, <2>1 DEF IInv, TypeOK
<1>5. WalkOK'
  <2>1. at \in errors' \/ Allowed(Stmt)
    BY <1>1 DEF Allowed
  <2> QED BY <1>1, <1>2, <1>3, <2>1 DEF IInv, WalkOK
<1>6. AnswersOK'
  BY <1>1, <1>3 DEF IInv, AnswersOK, Inherits
<1> QED BY <1>3, <1>4, <1>5, <1>6 DEF IInv

LEMMA AnswerKeeps == ASSUME Hierarchy, OwnCallsOnly, IInv, Answer PROVE IInv'
<1>1. /\ Walking /\ left # << >> /\ IsCall(Stmt) /\ Cached(Stmt.f)
      /\ left' = Tail(left) /\ frames = << >>
      /\ answers' = answers \cup {[on |-> On, f |-> Stmt.f, safe |-> cache[Stmt.f]]}
      /\ errors' = IF cache[Stmt.f] THEN errors ELSE errors \cup {at}
      /\ UNCHANGED <<unit, at, frames, cache>>
  BY DEF Answer, Walking
<1>2. /\ at \in Functions /\ On \in Contracts /\ Tail(left) \in Seq(Statements)
      /\ Range(left) = {Stmt} \cup Range(Tail(left))
      /\ Stmt.f \in Calls(Whole(at)) /\ Stmt.f \in Functions
  BY <1>1, StmtFacts
<1>3. /\ CacheOK' /\ FramesOK' /\ Functions' = Functions
      /\ \A s : Allowed(s) => Allowed(s)'
      /\ \A g : Bad(g)' <=> Bad(g)
  BY <1>1, SearchKept
<1>4. /\ cache[Stmt.f] \in BOOLEAN /\ Stmt.f \in DOMAIN cache
      /\ cache[Stmt.f] <=> Stmt.f \in Verified
  BY <1>1 DEF IInv, TypeOK, Cached, Verified
<1>5. cache[Stmt.f] <=> ~Bad(Stmt.f)
  <2>1. Stmt.f \in Verified => ~Bad(Stmt.f)
    BY VerifiedGood DEF IInv
  <2>2. InProgress = {}
    BY <1>1, EmptySeq DEF InProgress
  <2>3. Stmt.f \in Verified \/ Bad(Stmt.f)
    BY <1>4, <2>2 DEF IInv, CacheOK
  <2> QED BY <1>4, <2>1, <2>3
<1>6. TypeOK'
  <2>1. Frame' = Frame
    BY <1>3 DEF Frame
  <2>2. answers' \subseteq [on : Contracts, f : Functions, safe : BOOLEAN]
    BY <1>1, <1>2, <1>4 DEF IInv, TypeOK
  <2> QED BY <1>1, <1>2, <1>3, <2>1, <2>2 DEF IInv, TypeOK
<1>7. WalkOK'
  <2>1. ~RefusedHere(Stmt)
    BY <1>1 DEF RefusedHere, IsCall, Abrupt, Flow, Writes
  <2>2. at \in errors' \/ Allowed(Stmt)
    BY <1>1, <1>4, <2>1 DEF Allowed
  <2>3. errors \subseteq errors'
    BY <1>1
  <2> QED BY <1>1, <1>2, <1>3, <2>2, <2>3 DEF IInv, WalkOK
<1>8. AnswersOK'
  <2>1. Inherits(On, unit[Stmt.f].of)
    <3>1. Inherits(On, unit[at].of)
      BY <1>2 DEF Hierarchy, On
    <3> QED BY <1>2, <3>1, CallsInherit DEF IInv, TypeOK
  <2>2. \A a \in answers' : Inherits(a.on, unit[a.f].of) /\ (a.safe <=> ~Bad(a.f))
    BY <1>1, <1>5, <2>1 DEF IInv, AnswersOK
  <2> QED BY <1>1, <1>3, <2>2 DEF AnswersOK, Inherits
<1> QED BY <1>3, <1>6, <1>7, <1>8 DEF IInv

LEMMA NextFunctionKeeps == ASSUME IInv, NextFunction PROVE IInv'
<1>1. /\ at <= Len(unit) /\ left = << >> /\ frames = << >> /\ at' = at + 1
      /\ left' = IF at < Len(unit) THEN unit[at + 1].branch ELSE << >>
      /\ UNCHANGED <<unit, frames, cache, answers, errors>>
  BY DEF NextFunction, Walking
<1>2. /\ CacheOK' /\ FramesOK' /\ Functions' = Functions
      /\ \A s : Allowed(s) => Allowed(s)'
      /\ \A g : Bad(g)' <=> Bad(g)
  BY <1>1, SearchKept
<1>3. at \in 1 .. Len(unit) /\ Len(unit) \in Nat /\ Functions = 1 .. Len(unit)
  <2>1. unit \in Seq(Fn)
    BY UnitAssumption DEF IInv, TypeOK, Fn
  <2> QED BY <1>1, <2>1, LenProperties DEF IInv, TypeOK, Functions
<1>4. at < Len(unit) => unit[at + 1].branch \in Seq(Statements)
  <2>1. at < Len(unit) => at + 1 \in Functions
    BY <1>3
  <2> QED BY <2>1, BodyFacts DEF IInv, TypeOK, Fn
<1>5. TypeOK'
  <2>1. Frame' = Frame
    BY <1>2 DEF Frame
  <2>2. left' \in Seq(Statements)
    BY <1>1, <1>4, EmptySeq
  <2>3. at' \in 1 .. Len(unit') + 1
    BY <1>1, <1>3
  <2> QED BY <1>1, <1>2, <2>1, <2>2, <2>3 DEF IInv, TypeOK
<1>6. WalkOK'
  <2>1. at' <= Len(unit') => left' = unit'[at'].branch
    BY <1>1, <1>3
  <2>2. ASSUME NEW f \in Functions, f <= at', f \notin errors
        PROVE  \A s \in Range(unit[f].branch) : (f = at' /\ s \in Range(left')) \/ Allowed(s)
    <3>1. CASE f <= at
      BY <1>1, <2>2, <3>1, RangeEmpty DEF IInv, WalkOK
    <3>2. CASE ~(f <= at)
      <4>1. f = at' /\ at' <= Len(unit')
        BY <1>1, <1>3, <2>2, <3>2
      <4> QED BY <1>1, <2>1, <4>1
    <3> QED BY <3>1, <3>2
  <2> QED BY <1>1, <1>2, <2>1, <2>2 DEF WalkOK
<1>7. AnswersOK'
  BY <1>1, <1>2 DEF IInv, AnswersOK, Inherits
<1> QED BY <1>2, <1>5, <1>6, <1>7 DEF IInv

LEMMA InitHolds == ASSUME Init PROVE IInv
<1>1. /\ unit \in Units /\ at = 1 /\ left = unit[1].branch
      /\ frames = << >> /\ cache = [f \in {} |-> FALSE] /\ answers = {} /\ errors = {}
  BY DEF Init
<1>2. 1 \in Functions /\ Functions = 1 .. Len(unit) /\ Len(unit) \in Nat
  <2>1. unit \in Seq(Fn) /\ unit # << >>
    BY <1>1, UnitAssumption DEF Fn
  <2>2. Len(unit) \in Nat /\ DOMAIN unit = 1 .. Len(unit) /\ 1 \in DOMAIN unit
    BY <2>1, TopOff
  <2> QED BY <2>2 DEF Functions
<1>3. DOMAIN cache = {} /\ Verified = {} /\ cache \in [DOMAIN cache -> BOOLEAN]
  BY <1>1 DEF Verified
<1>4. left \in Seq(Statements)
  BY <1>1, <1>2, BodyFacts DEF Fn
<1>5. TypeOK
  BY <1>1, <1>2, <1>3, <1>4, EmptySeq DEF TypeOK
<1>6. CacheOK
  BY <1>3 DEF CacheOK
<1>7. FramesOK
  <2>1. DOMAIN frames = {}
    BY <1>1, EmptySeq
  <2> QED BY <1>1, <2>1 DEF FramesOK, Chained, Distinct, Asked
<1>8. WalkOK
  <2>1. \A f \in Functions : f <= at => f = at
    BY <1>1, <1>2
  <2> QED BY <1>1, <2>1 DEF WalkOK
<1>9. AnswersOK
  BY <1>1 DEF AnswersOK
<1> QED BY <1>5, <1>6, <1>7, <1>8, <1>9 DEF IInv

LEMMA StepKeeps == ASSUME Hierarchy, OwnCallsOnly, IInv, [Next]_vars PROVE IInv'
<1>1. CASE Finish
  BY <1>1, FinishKeeps
<1>2. CASE Reject
  BY <1>2, RejectKeeps
<1>3. CASE Pass
  BY <1>3, PassKeeps
<1>4. CASE Descend
  BY <1>4, DescendKeeps
<1>5. CASE Take
  BY <1>5, TakeKeeps
<1>6. CASE Ask
  BY <1>6, AskKeeps
<1>7. CASE Answer
  BY <1>7, AnswerKeeps
<1>8. CASE NextFunction
  BY <1>8, NextFunctionKeeps
<1>9. CASE UNCHANGED vars
  <2>1. UNCHANGED <<unit, at, left, frames, cache, answers, errors>>
    BY <1>9 DEF vars
  <2>2. /\ Functions' = Functions /\ \A g : Whole(g)' = Whole(g) /\ (Bad(g)' <=> Bad(g))
        /\ \A g : (Flawed(g)' <=> Flawed(g)) /\ \A fs : Called(fs)' = Called(fs)
    BY <2>1, UnitKept
  <2>3. Verified' = Verified /\ InProgress' = InProgress /\ Frame' = Frame
    BY <2>1, <2>2 DEF Verified, InProgress, Frame
  <2>4. \A s : (Passed(s) => Passed(s)') /\ (Allowed(s) => Allowed(s)')
    BY <2>3, FavourKept
  <2>5. TypeOK'
    BY <2>1, <2>2, <2>3 DEF IInv, TypeOK
  <2>6. CacheOK'
    BY <2>1, <2>2, <2>3, <2>4 DEF IInv, CacheOK
  <2>7. FramesOK'
    <3>1. \A r : FrameOK(r) => FrameOK(r)'
      BY <2>1, <2>2, <2>3, <2>4 DEF FrameOK
    <3>2. ASSUME NEW i \in DOMAIN frames', NEW r, r = frames'[i] PROVE FrameOK(r)'
      BY <2>1, <3>1, <3>2 DEF IInv, FramesOK
    <3>3. (\A i \in DOMAIN frames : FrameOK(frames[i]))'
      BY <3>2 DEF FrameOK
    <3>4. Chained' /\ Distinct' /\ Asked'
      BY <2>1, <2>2, <2>3 DEF IInv, FramesOK, Chained, Distinct, Asked, On, Inherits
    <3> QED BY <3>3, <3>4 DEF FramesOK
  <2>8. WalkOK'
    BY <2>1, <2>2, <2>4 DEF IInv, WalkOK
  <2>9. AnswersOK'
    BY <2>1, <2>2 DEF IInv, AnswersOK, Inherits
  <2> QED BY <2>5, <2>6, <2>7, <2>8, <2>9 DEF IInv
<1> QED BY <1>1, <1>2, <1>3, <1>4, <1>5, <1>6, <1>7, <1>8, <1>9 DEF Next

-----------------------------------------------------------------------------
(* What follows.                                                           *)

\* A verdict given to a branch is the one an empty cache would have given, in
\* whatever order the functions of a unit, and of its contracts, have asked:
\* branch_safe, where a function calls those of its own contract and its bases.
THEOREM VerdictsTransparent ==
    ASSUME Hierarchy, OwnCallsOnly PROVE Spec => []CacheTransparent
<1>1. Init => IInv
  BY InitHolds
<1>2. IInv /\ [Next]_vars => IInv'
  BY StepKeeps
<1>3. IInv => CacheTransparent
  <2> SUFFICES ASSUME IInv, NEW a \in answers PROVE a.safe = SafeAlone(a.on, a.f)
    BY DEF CacheTransparent
  <2>1. /\ unit \in Units /\ a.on \in Contracts /\ a.f \in Functions /\ a.safe \in BOOLEAN
        /\ Inherits(a.on, unit[a.f].of) /\ (a.safe <=> ~Bad(a.f))
    BY DEF IInv, TypeOK, AnswersOK
  <2> DEFINE Heirs == {g \in Functions : Inherits(a.on, unit[g].of)}
  <2>2. \A g \in Heirs : Calls(Whole(g)) \subseteq Heirs
    BY <2>1, CallsInherit
  <2>3. {a.f} \subseteq Heirs /\ Heirs \in SUBSET Functions
    BY <2>1
  <2>4. Called({a.f}) \subseteq Heirs
    <3> HIDE DEF Heirs
    <3> QED BY <2>1, <2>2, <2>3, CalledFacts
  <2>5. Called({a.f}) \subseteq Functions
    BY <2>1, CalledFacts
  <2>6. \A g \in Called({a.f}) :
           Flawed(g) <=> ~(/\ ~unit[g].modified
                           /\ \A i \in DOMAIN Whole(g) : ~RefusedThere(Whole(g)[i])
                           /\ g \notin Called(Calls(Whole(g))))
    BY DEF Flawed, Range
  <2>7. SafeAlone(a.on, a.f) <=> ~Bad(a.f)
    BY <2>4, <2>6 DEF SafeAlone, Bad
  <2>8. SafeAlone(a.on, a.f) \in BOOLEAN
    BY DEF SafeAlone
  <2> QED BY <2>1, <2>7, <2>8
<1> QED BY <1>1, <1>2, <1>3, PTL DEF Spec

\* Without overrides a deployed contract runs the functions that are named.
LEMMA RunsNamed ==
    ASSUME NothingVirtual, unit \in Units, NEW c \in Contracts, NEW f \in Functions
    PROVE  Runs(c, f) = f
<1>1. \A g \in Functions : \A h : Overrides(g, h) <=> h = g
  <2> SUFFICES ASSUME NEW g \in Functions PROVE Overridden(g) = {g}
    BY DEF Overrides
  <2> DEFINE to == [h \in Functions |-> {unit[h].base} \ {0}]
  <2>1. \A h \in Functions : to[h] = {}
    BY DEF NothingVirtual, Functions
  <2>2. Overridden(g) = Closure({g}, to)
    BY DEF Overridden
  <2> HIDE DEF to
  <2>3. Closed({g}, to)
    BY <2>1 DEF Closed
  <2> QED BY <2>1, <2>2, <2>3, ClosureFacts
<1> DEFINE gs == {g \in Functions : Overrides(g, f)}
           places(g) == {i \in DOMAIN Order[c] : Order[c][i] = unit[g].of}
           all == {g \in gs : places(g) # {}}
           First(g) == \A h \in all : \E i \in places(g) : \A j \in places(h) : i <= j
<1>2. Runs(c, f) = IF all = {} THEN f ELSE CHOOSE g \in all : First(g)
  BY DEF Runs, FirstOf
<1>3. all \subseteq {f}
  BY <1>1
<1>4. ASSUME f \in all PROVE First(f)
  <2>1. places(f) # {} /\ places(f) \in SUBSET Nat
    <3>1. DOMAIN Order[c] = 1 .. Len(Order[c])
      BY OrderAssumption, LenProperties
    <3> QED BY <1>4, <3>1
  <2> HIDE DEF places
  <2>2. PICK i \in places(f) : \A j \in places(f) : i <= j
    BY <2>1, Least
  <2>3. \A h \in all : h = f
    BY <1>3
  <2> QED BY <2>2, <2>3
<1> HIDE DEF all, First
<1>5. CASE all = {}
  BY <1>2, <1>5
<1>6. CASE all # {}
  <2>1. f \in all /\ First(f)
    BY <1>3, <1>4, <1>6
  <2>2. (CHOOSE g \in all : First(g)) \in all
    BY <2>1
  <2> QED BY <1>2, <1>3, <1>6, <2>2
<1> QED BY <1>5, <1>6

\* Nor does it run others than those that are verified, in a list without super.
LEMMA CallsNamed ==
    ASSUME NothingVirtual, Recognized, unit \in Units, NEW c \in Contracts, NEW d,
           NEW ss \in Seq(Statements), Calls(ss) \subseteq Functions,
           \A i \in DOMAIN ss : ss[i].op # "super"
    PROVE  CallsOf(c, d, ss) = Calls(ss)
<1>1. \A i \in DOMAIN ss : IsCall(ss[i]) => ss[i].names = ss[i].f
  BY DEF Recognized
<1>2. ASSUME NEW i \in DOMAIN ss, IsCall(ss[i]) PROVE Target(c, d, ss[i]) = ss[i].f
  <2>1. ss[i].f \in Functions
    BY <1>2 DEF Calls
  <2>2. Runs(c, ss[i].f) = ss[i].f
    BY <2>1, RunsNamed
  <2> QED BY <1>1, <1>2, <2>2 DEF Target, IsCall
<1> QED BY <1>2 DEF CallsOf, Calls

\* The encrypted branch of an accepted function does nothing, itself or through
\* any call, in any contract that has it, that shows which way the condition
\* went: walk and branch_safe, where no function is overridden, none is called
\* in place of an overload of its, no branch calls a member of super, and the
\* lists of both recognize every statement.
THEOREM BranchesAreClean ==
    ASSUME Hierarchy, OwnCallsOnly, NothingVirtual, NoSuper, Recognized
    PROVE  Spec => []BranchesClean
<1>1. Init => IInv
  BY InitHolds
<1>2. IInv /\ [Next]_vars => IInv'
  BY StepKeeps
<1>3. IInv => BranchesClean
  <2> SUFFICES ASSUME IInv, NEW f \in Functions, NEW c \in Contracts, Done, f \notin errors
               PROVE  CleanIn(c, f)
    BY DEF BranchesClean
  <2>1. unit \in Units /\ unit[f].branch \in Seq(Statements)
    BY BodyFacts DEF IInv, TypeOK, Fn
  <2>2. f <= at /\ f # at
    BY BodyFacts DEF IInv, TypeOK, Done
  <2>3. \A s \in Range(unit[f].branch) : Allowed(s)
    BY <2>2 DEF IInv, WalkOK
  <2>4. Calls(unit[f].branch) \subseteq Verified
    <3>1. \A g \in Calls(unit[f].branch) : \E s \in Range(unit[f].branch) : IsCall(s) /\ s.f = g
      BY <2>1, CallsFacts
    <3> QED BY <2>3, <3>1 DEF Allowed
  <2>5. CallsOf(c, unit[f].of, unit[f].branch) \subseteq Verified
    <3>1. \A i \in DOMAIN unit[f].branch : unit[f].branch[i].op # "super"
      BY <2>1 DEF NoSuper, Functions
    <3>2. Calls(unit[f].branch) \subseteq Functions
      BY <2>1, BodyFacts
    <3> QED BY <2>1, <2>4, <3>1, <3>2, CallsNamed
  <2>6. ASSUME NEW i \in DOMAIN unit[f].branch PROVE ~LeaksHere(unit[f].branch[i])
    <3>1. unit[f].branch[i] \in Range(unit[f].branch) /\ unit[f].branch[i] \in Statements
      BY <2>1 DEF Range
    <3>2. ~RefusedHere(unit[f].branch[i])
      BY <2>3, <3>1 DEF Allowed
    <3> QED BY <3>1, <3>2 DEF Recognized, LeaksHere, Leaks, RefusedHere, Writes
  <2>7. ASSUME NEW g \in Verified PROVE ~Leaky(g)
    <3>1. g \in Functions
      BY DEF IInv, TypeOK, Verified
    <3>2. ASSUME NEW i \in DOMAIN Whole(g) PROVE ~Leaks(Whole(g)[i])
      <4>1. Whole(g)[i] \in Range(Whole(g)) /\ Whole(g)[i] \in Statements
        BY <2>1, <3>1, BodyFacts DEF Range
      <4>2. ~RefusedThere(Whole(g)[i])
        BY <4>1 DEF IInv, CacheOK, Passed
      <4> QED BY <4>1, <4>2 DEF Recognized, Leaks, RefusedThere, Writes
    <3> QED BY <3>2 DEF Leaky
  <2> DEFINE to == [g \in Functions |-> CallsOf(c, unit[g].of, Whole(g))]
  <2>8. ASSUME NEW g \in Verified PROVE CallsOf(c, unit[g].of, Whole(g)) \subseteq Verified
    <3>1. g \in Functions /\ Whole(g) \in Seq(Statements) /\ Calls(Whole(g)) \subseteq Functions
      BY <2>1, BodyFacts DEF IInv, TypeOK, Verified
    <3>2. Calls(Whole(g)) \subseteq Verified
      BY VerifiedCalls DEF IInv
    <3>3. ASSUME NEW i \in DOMAIN Whole(g) PROVE Whole(g)[i].op # "super"
      <4>1. Whole(g)[i] \in Range(Whole(g))
        BY <3>1 DEF Range
      <4> QED BY <4>1 DEF IInv, CacheOK, Passed, RefusedThere
    <3> QED BY <2>1, <3>1, <3>2, <3>3, CallsNamed
  <2>9. Verified \in SUBSET Functions /\ Closed(Verified, to)
    BY <2>8 DEF Closed, IInv, TypeOK, Verified
  <2>10. Reached(c, CallsOf(c, unit[f].of, unit[f].branch)) \subseteq Verified
    <3> HIDE DEF to
    <3>1. Closure(CallsOf(c, unit[f].of, unit[f].branch), to) \subseteq Verified
      BY <2>5, <2>9 DEF Closure
    <3> QED BY <3>1 DEF Reached, to
  <2> QED BY <2>6, <2>7, <2>10 DEF CleanIn
<1> QED BY <1>1, <1>2, <1>3, PTL DEF Spec
=============================================================================
