-------------------------- MODULE IfLowering_proofs ---------------------------
(***************************************************************************)
(* The lowered text does what the source does, for every body, every       *)
(* layout and every value, on the bodies that Supported describes: the     *)
(* types, the walk and the state of one branch first, then the proof that  *)
(* BranchInv is inductive.  Last, what holds whatever the nesting: the     *)
(* grants of the merges, and the pre-values of a flat if.                  *)
(***************************************************************************)
EXTENDS IfLowering, TLAPS, WellFoundedInduction

-----------------------------------------------------------------------------
(* The walk                                                                *)

LEMMA ProgType ==
    ASSUME NEW p \in Seq(Stmt), NEW i \in DOMAIN p
    PROVE  /\ DOMAIN p = 1..Len(p) /\ Len(p) \in Nat
           /\ p[i] \in Stmt
           /\ p[i].op \in {"set", "decl", "if"}
           /\ p[i].lv \in LValue /\ p[i].fn \in Fn
           /\ p[i].args \in [1..Arity -> LValue]
           /\ p[i].els \in Nat /\ p[i].end \in Nat
<1>1. p[i] \in Stmt /\ DOMAIN p = 1..Len(p) /\ Len(p) \in Nat
  OBVIOUS
<1> QED BY <1>1 DEF Stmt

LEMMA HereType ==
    ASSUME ControlOK, InArm
    PROVE  /\ pc \in DOMAIN prog /\ pc \in Nat /\ pc <= Len(prog)
           /\ prog \in Seq(Stmt) /\ Len(prog) \in Nat
           /\ Here.lv \in LValue /\ Here.fn \in Fn
           /\ Here.args \in [1..Arity -> LValue]
           /\ Here.els \in Nat /\ Here.end \in Nat
<1>1. prog \in Seq(Stmt) /\ pc \in 1..Len(prog)+1 /\ pc <= Len(prog)
  BY DEF ControlOK, InArm
<1>2. Len(prog) \in Nat /\ DOMAIN prog = 1..Len(prog)
  BY <1>1
<1>3. pc \in DOMAIN prog /\ pc \in Nat
  BY <1>1, <1>2
<1> QED BY <1>1, <1>2, <1>3, ProgType DEF Here

LEMMA EnclType ==
    ASSUME ControlOK, NEW i \in 1..depth
    PROVE  /\ encl[i].at \in DOMAIN prog /\ encl[i].at \in Nat
           /\ encl[i].arm \in {"then", "else"}
           /\ prog[encl[i].at].els \in Nat /\ prog[encl[i].at].end \in Nat
           /\ encl[i].at + 1 <= prog[encl[i].at].els
           /\ prog[encl[i].at].els <= prog[encl[i].at].end
           /\ prog[encl[i].at].end <= Len(prog) + 1
           /\ ArmFirst(i) \in Nat /\ ArmEnd(i) \in Nat
           /\ encl[i].at < ArmFirst(i) /\ ArmEnd(i) <= prog[encl[i].at].end
           /\ ArmFirst(i) <= pc /\ pc <= ArmEnd(i)
<1>1. /\ encl[i].at \in DOMAIN prog /\ prog[encl[i].at].op = "if"
      /\ encl[i].arm \in {"then", "else"} /\ encl[i].at \in Nat
      /\ prog \in Seq(Stmt) /\ WellNested(prog) /\ pc \in ArmSpan(i)
  BY DEF ControlOK
<1>2. prog[encl[i].at].els \in Nat /\ prog[encl[i].at].end \in Nat
  BY <1>1, ProgType
<1>3. /\ encl[i].at + 1 <= prog[encl[i].at].els
      /\ prog[encl[i].at].els <= prog[encl[i].at].end
      /\ prog[encl[i].at].end <= Len(prog) + 1
  BY <1>1 DEF WellNested
<1> QED BY <1>1, <1>2, <1>3 DEF ArmFirst, ArmEnd, ArmSpan

LEMMA EnclNested ==
    ASSUME ControlOK, NEW i \in 1..depth, NEW j \in 1..depth, i < j
    PROVE  /\ ArmFirst(i) <= encl[j].at
           /\ prog[encl[j].at].end <= ArmEnd(i)
<1>1. encl[j].at \in ArmSpan(i) /\ prog[encl[j].at].end \in ArmSpan(i)
  BY DEF ControlOK
<1> QED BY <1>1, EnclType DEF ArmSpan

LEMMA ArmsShrink ==
    ASSUME ControlOK, NEW i \in 1..depth
    PROVE  /\ depth \in 1..depth
           /\ ArmFirst(i) <= ArmFirst(depth) /\ ArmEnd(depth) <= ArmEnd(i)
<1>1. depth \in Nat /\ depth \in 1..depth
  BY DEF ControlOK
<1>2. ArmFirst(i) \in Nat /\ ArmEnd(i) \in Nat
  BY EnclType
<1>3. /\ encl[depth].at \in Nat /\ ArmEnd(depth) \in Nat /\ ArmFirst(depth) \in Nat
      /\ encl[depth].at < ArmFirst(depth)
      /\ ArmEnd(depth) <= prog[encl[depth].at].end
      /\ prog[encl[depth].at].end \in Nat
  BY <1>1, EnclType
<1>4. CASE i = depth
  BY <1>2, <1>4
<1>5. CASE i < depth
  <2>1. ArmFirst(i) <= encl[depth].at /\ prog[encl[depth].at].end <= ArmEnd(i)
    BY <1>1, <1>5, EnclNested
  <2> QED BY <1>1, <1>2, <1>3, <2>1
<1> QED BY <1>1, <1>4, <1>5

LEMMA AdvanceOK == ASSUME ControlOK, InArm, Advance PROVE ControlOK'
<1>1. pc' \in 1..Len(prog)+1
  BY HereType DEF ControlOK, Advance
<1>2. \A i \in 1..depth : pc' \in ArmSpan(i)
  <2> SUFFICES ASSUME NEW i \in 1..depth PROVE pc + 1 \in ArmSpan(i)
    BY DEF Advance
  <2>1. depth \in Nat /\ depth \in 1..depth /\ pc < ArmEnd(depth) /\ pc \in Nat
    BY HereType DEF ControlOK, InArm, Limit
  <2> QED BY <2>1, ArmsShrink, EnclType DEF ArmSpan
<1> QED BY <1>1, <1>2 DEF ControlOK, Advance, ArmSpan, ArmFirst, ArmEnd

LEMMA TurnOK == ASSUME ControlOK, Turn PROVE ControlOK'
<1>1. /\ depth \in Nat /\ depth \in 1..depth
      /\ encl[depth].arm = "then" /\ pc = ArmEnd(depth)
  BY DEF ControlOK, Turn, AtElse, Limit
<1>2. /\ encl' \in [1..depth -> [at : Nat, arm : {"then", "else"}]]
      /\ encl'[depth] = [at |-> encl[depth].at, arm |-> "else"]
      /\ \A i \in 1..depth : i # depth => encl'[i] = encl[i]
  BY <1>1 DEF ControlOK, Turn
<1>3. /\ prog' = prog /\ cell' = cell /\ pc' = pc /\ depth' = depth
  BY DEF Turn
<1>4. \A i \in 1..depth : encl'[i].at = encl[i].at
  BY <1>1, <1>2
<1>5. \A i \in 1..depth : i # depth => ArmSpan(i)' = ArmSpan(i)
  BY <1>2, <1>3 DEF ArmSpan, ArmFirst, ArmEnd
<1>6. ArmSpan(depth)' = prog[encl[depth].at].els .. prog[encl[depth].at].end
  BY <1>1, <1>2, <1>3 DEF ArmSpan, ArmFirst, ArmEnd
<1>7. pc \in ArmSpan(depth)'
  BY <1>1, <1>6, EnclType DEF ArmEnd
<1>8. \A i \in 1..depth : pc' \in ArmSpan(i)'
  BY <1>1, <1>3, <1>5, <1>7 DEF ControlOK
<1>9. \A i, j \in 1..depth : i < j => i # depth
  BY <1>1
<1>10. \A i, j \in 1..depth : i < j =>
          /\ encl'[j].at \in ArmSpan(i)'
          /\ prog[encl'[j].at].end \in ArmSpan(i)'
  <2> SUFFICES ASSUME NEW i \in 1..depth, NEW j \in 1..depth, i < j
               PROVE  encl[j].at \in ArmSpan(i) /\ prog[encl[j].at].end \in ArmSpan(i)
    BY <1>4, <1>5, <1>9
  <2> QED BY DEF ControlOK
<1>11. \A i \in 1..depth : encl'[i].at \in DOMAIN prog /\ prog[encl'[i].at].op = "if"
  BY <1>4 DEF ControlOK
<1>12. /\ prog \in Seq(Stmt) /\ WellNested(prog) /\ cell \in [LValue -> Cell]
       /\ pc \in 1..Len(prog) + 1 /\ depth \in Nat
  BY DEF ControlOK
<1> QED BY <1>2, <1>3, <1>8, <1>10, <1>11, <1>12, Zenon DEF ControlOK

LEMMA LeaveOK == ASSUME ControlOK, Leave PROVE ControlOK'
<1>1. /\ depth \in Nat /\ depth - 1 \in Nat /\ 1..depth-1 \subseteq 1..depth
      /\ depth' = depth - 1
  BY DEF ControlOK, Leave, AtEnd
<1>2. /\ encl' \in [1..depth-1 -> [at : Nat, arm : {"then", "else"}]]
      /\ \A i \in 1..depth-1 : encl'[i] = encl[i]
  BY <1>1 DEF ControlOK, Leave
<1>3. /\ prog' = prog /\ cell' = cell /\ pc' = pc
  BY DEF Leave
<1>4. \A i \in 1..depth-1 : ArmSpan(i)' = ArmSpan(i)
  BY <1>2, <1>3 DEF ArmSpan, ArmFirst, ArmEnd
<1>5. \A i \in 1..depth-1 : /\ encl'[i].at \in DOMAIN prog'
                            /\ prog'[encl'[i].at].op = "if"
                            /\ pc' \in ArmSpan(i)'
  BY <1>1, <1>2, <1>3, <1>4 DEF ControlOK
<1>6. \A i, j \in 1..depth-1 : i < j =>
         /\ encl'[j].at \in ArmSpan(i)' /\ prog'[encl'[j].at].end \in ArmSpan(i)'
  BY <1>1, <1>2, <1>3, <1>4 DEF ControlOK
<1>7. prog' \in Seq(Stmt) /\ WellNested(prog') /\ cell' \in [LValue -> Cell]
      /\ pc' \in 1..Len(prog')+1
  BY <1>3 DEF ControlOK
<1> QED BY <1>1, <1>2, <1>5, <1>6, <1>7 DEF ControlOK

\* an if met inside an arm ends inside that arm
LEMMA InnerIf ==
    ASSUME ControlOK, InArm, Here.op = "if", depth > 0
    PROVE  prog[pc].end <= ArmEnd(depth)
<1>1. /\ depth \in 1..depth /\ pc \in DOMAIN prog /\ prog[pc].op = "if"
      /\ WellNested(prog) /\ pc < ArmEnd(depth) /\ pc \in Nat
      /\ prog[encl[depth].at].op = "if"
  BY HereType DEF ControlOK, InArm, Limit, Here
<1>2. /\ encl[depth].at \in DOMAIN prog /\ encl[depth].at \in Nat
      /\ encl[depth].arm \in {"then", "else"}
      /\ ArmFirst(depth) <= pc /\ encl[depth].at < ArmFirst(depth)
      /\ prog[encl[depth].at].els \in Nat /\ prog[encl[depth].at].end \in Nat
  BY <1>1, EnclType
<1>3. /\ encl[depth].at < pc /\ pc < prog[encl[depth].at].els =>
            prog[pc].end <= prog[encl[depth].at].els
      /\ prog[encl[depth].at].els <= pc /\ pc < prog[encl[depth].at].end =>
            prog[pc].end <= prog[encl[depth].at].end
  BY <1>1, <1>2 DEF WellNested
<1>4. CASE encl[depth].arm = "then"
  BY <1>1, <1>2, <1>3, <1>4 DEF ArmFirst, ArmEnd
<1>5. CASE encl[depth].arm = "else"
  BY <1>1, <1>2, <1>3, <1>5 DEF ArmFirst, ArmEnd
<1> QED BY <1>2, <1>4, <1>5

LEMMA EnterOK == ASSUME ControlOK, InArm, Here.op = "if", Enter PROVE ControlOK'
<1>1. /\ depth \in Nat /\ depth' = depth + 1 /\ depth' \in Nat
      /\ pc \in Nat /\ pc' = pc + 1 /\ pc \in DOMAIN prog /\ prog[pc].op = "if"
      /\ prog' = prog /\ cell' = cell
  BY HereType DEF ControlOK, Enter, Here
<1>2. /\ encl' \in [1..depth+1 -> [at : Nat, arm : {"then", "else"}]]
      /\ \A i \in 1..depth : encl'[i] = encl[i]
      /\ encl'[depth+1] = [at |-> pc, arm |-> "then"]
  BY <1>1 DEF ControlOK, Enter
<1>3. /\ pc + 1 <= prog[pc].els /\ prog[pc].els <= prog[pc].end
      /\ prog[pc].end <= Len(prog) + 1
      /\ prog[pc].els \in Nat /\ prog[pc].end \in Nat /\ Len(prog) \in Nat
  BY <1>1, HereType DEF ControlOK, WellNested, Here
<1>4. \A i \in 1..depth : ArmSpan(i)' = ArmSpan(i)
  BY <1>1, <1>2 DEF ArmSpan, ArmFirst, ArmEnd
<1>5. \A i \in {depth+1} : ArmSpan(i)' = pc+1 .. prog[pc].els
  BY <1>1, <1>2 DEF ArmSpan, ArmFirst, ArmEnd
<1>6. \A i \in 1..depth : pc \in ArmSpan(i) /\ prog[pc].end \in ArmSpan(i)
  <2> SUFFICES ASSUME NEW i \in 1..depth
               PROVE  pc \in ArmSpan(i) /\ prog[pc].end \in ArmSpan(i)
    OBVIOUS
  <2>1. pc \in ArmSpan(i)
    BY DEF ControlOK
  <2>2. depth \in 1..depth /\ pc < ArmEnd(depth)
    BY <1>1 DEF InArm, Limit
  <2>3. prog[pc].end <= ArmEnd(depth)
    BY <1>1, <2>2, InnerIf
  <2>4. ArmEnd(depth) <= ArmEnd(i)
    BY ArmsShrink
  <2>5. ArmFirst(i) <= pc /\ ArmFirst(i) \in Nat /\ ArmEnd(i) \in Nat
    BY EnclType
  <2>6. ArmEnd(depth) \in Nat
    BY <2>2, EnclType
  <2> QED BY <1>1, <1>3, <2>1, <2>3, <2>4, <2>5, <2>6 DEF ArmSpan
<1>7. \A i \in 1..depth : pc + 1 \in ArmSpan(i)
  BY <1>1, <1>3, <1>6, EnclType DEF ArmSpan
<1>8. \A i \in 1..depth+1 : i \in 1..depth \/ i = depth+1
  BY <1>1
<1>9. \A i \in 1..depth+1 :
         /\ encl'[i].at \in DOMAIN prog /\ prog[encl'[i].at].op = "if"
         /\ pc + 1 \in ArmSpan(i)'
  <2> SUFFICES ASSUME NEW i \in 1..depth+1
               PROVE  /\ encl'[i].at \in DOMAIN prog /\ prog[encl'[i].at].op = "if"
                      /\ pc + 1 \in ArmSpan(i)'
    OBVIOUS
  <2>1. CASE i \in 1..depth
    BY <1>2, <1>4, <1>7, <2>1 DEF ControlOK
  <2>2. CASE i = depth+1
    BY <1>1, <1>2, <1>3, <1>5, <2>2
  <2> QED BY <1>8, <2>1, <2>2
<1>10. \A i, j \in 1..depth+1 : i < j =>
         /\ encl'[j].at \in ArmSpan(i)' /\ prog[encl'[j].at].end \in ArmSpan(i)'
  <2> SUFFICES ASSUME NEW i \in 1..depth+1, NEW j \in 1..depth+1, i < j
               PROVE  /\ encl'[j].at \in ArmSpan(i)'
                      /\ prog[encl'[j].at].end \in ArmSpan(i)'
    OBVIOUS
  <2>1. i \in 1..depth
    BY <1>1
  <2>2. CASE j \in 1..depth
    BY <1>2, <1>4, <2>1, <2>2 DEF ControlOK
  <2>3. CASE j = depth+1
    BY <1>1, <1>2, <1>4, <1>6, <2>1, <2>3
  <2> QED BY <1>8, <2>2, <2>3
<1>11. pc' \in 1..Len(prog)+1
  BY <1>1, <1>3
<1> QED BY <1>1, <1>2, <1>9, <1>10, <1>11 DEF ControlOK

LEMMA JumpOK == ASSUME ControlOK, InArm, Here.op = "if", JumpOver PROVE ControlOK'
<1>1. /\ depth \in Nat /\ pc \in Nat /\ pc' = prog[pc].end /\ pc \in DOMAIN prog
      /\ prog[pc].op = "if" /\ UNCHANGED <<prog, cell, depth, encl>>
  BY HereType DEF ControlOK, JumpOver, Here
<1>2. /\ pc + 1 <= prog[pc].els /\ prog[pc].els <= prog[pc].end
      /\ prog[pc].end <= Len(prog) + 1
      /\ prog[pc].els \in Nat /\ prog[pc].end \in Nat /\ Len(prog) \in Nat
  BY <1>1, HereType DEF ControlOK, WellNested, Here
<1>3. \A i \in 1..depth : prog[pc].end \in ArmSpan(i)
  <2> SUFFICES ASSUME NEW i \in 1..depth PROVE prog[pc].end \in ArmSpan(i)
    OBVIOUS
  <2>2. depth \in 1..depth /\ pc < ArmEnd(depth)
    BY <1>1 DEF InArm, Limit
  <2>3. prog[pc].end <= ArmEnd(depth)
    BY <1>1, <2>2, InnerIf
  <2>4. ArmEnd(depth) <= ArmEnd(i)
    BY ArmsShrink
  <2>5. ArmFirst(i) <= pc /\ ArmFirst(i) \in Nat /\ ArmEnd(i) \in Nat
    BY EnclType
  <2>6. ArmEnd(depth) \in Nat
    BY <2>2, EnclType
  <2> QED BY <1>1, <1>2, <2>3, <2>4, <2>5, <2>6 DEF ArmSpan
<1>4. pc' \in 1..Len(prog)+1
  BY <1>1, <1>2
<1> QED BY <1>1, <1>3, <1>4 DEF ControlOK, ArmSpan, ArmFirst, ArmEnd

-----------------------------------------------------------------------------
(* Frames                                                                  *)

W(i) == WriteSet(prog, encl[1].at, encl[i].at)

LEMMA ScannedType ==
    ASSUME NEW p \in Seq(Stmt), NEW t, NEW i
    PROVE  Scanned(p, t, i) \subseteq LValue
BY ProgType DEF Scanned, Inside

LEMMA WriteSetType ==
    ASSUME NEW p \in Seq(Stmt), NEW t, NEW i \in Nat
    PROVE  /\ WriteSet(p, t, i) \subseteq LocKeys
           /\ \A k \in WriteSet(p, t, i) : k.lv \in Scanned(p, t, i) /\ k.lv \in LValue
<1>1. \A l \in Scanned(p, t, i) : LocKey(i, l) \in LocKeys /\ LocKey(i, l).lv = l
  BY ScannedType DEF LocKey, LocKeys
<1> QED BY <1>1, ScannedType DEF WriteSet

\* the library states this with an operator for "<", which no prover takes
NatLess == {ss \in Nat \X Nat : ss[1] < ss[2]}

LEMMA NatLessWF == IsWellFoundedOn(NatLess, Nat)
BY NatLessThanWellFounded DEF OpToRel, NatLess

LEMMA Least ==
    ASSUME NEW T \in SUBSET Nat, T # {}
    PROVE  \E x \in T : \A y \in T : x <= y
<1>1. PICK x \in T : \A y \in T : ~(<<y, x>> \in NatLess)
  BY WFMin, NatLessWF
<1>2. ASSUME NEW y \in T PROVE x <= y
  <2>1. x \in Nat /\ y \in Nat
    OBVIOUS
  <2>2. <<y, x>> \notin NatLess
    BY <1>1
  <2>3. <<y, x>> \in Nat \X Nat
    BY <2>1
  <2>4. ~(y < x)
    BY <2>2, <2>3 DEF NatLess
  <2> QED BY <2>1, <2>4
<1> QED BY <1>2

LEMMA Last ==
    ASSUME NEW S, S # {}, NEW N \in Nat, NEW pos \in [S -> 1..N],
           \A j, k \in S : pos[j] = pos[k] => j = k
    PROVE  \E k \in S : \A j \in S \ {k} : pos[j] < pos[k]
<1> DEFINE T == {N - pos[k] : k \in S}
<1>1. T \in SUBSET Nat /\ T # {}
  OBVIOUS
<1>2. PICK x \in T : \A y \in T : x <= y
  <2> HIDE DEF T
  <2> QED BY <1>1, Least
<1>3. PICK k \in S : x = N - pos[k]
  OBVIOUS
<1>4. \A j \in S : pos[j] <= pos[k]
  BY <1>2, <1>3
<1> QED BY <1>4

\* FirstWrite is a position of the if that sets the location
LEMMA FirstWriteFact ==
    ASSUME NEW p \in Seq(Stmt), NEW t, NEW i, NEW l \in Scanned(p, t, i)
    PROVE  /\ FirstWrite(p, i, l) \in 1..Len(p)
           /\ p[FirstWrite(p, i, l)].lv = l
<1> DEFINE T == {j \in Inside(p, i) : p[j].op = "set" /\ p[j].lv = l}
<1>1. T \in SUBSET Nat /\ T # {} /\ T \subseteq 1..Len(p)
  BY DEF Inside, Scanned
<1>2. PICK x \in T : \A y \in T : x <= y
  <2> HIDE DEF T
  <2> QED BY <1>1, Least
<1>3. \E j \in Inside(p, i) :
        /\ p[j].op = "set" /\ p[j].lv = l
        /\ \A k \in Inside(p, i) : p[k].op = "set" /\ p[k].lv = l => j <= k
  BY <1>2
<1>4. FirstWrite(p, i, l) \in T
  BY <1>3 DEF FirstWrite
<1> QED BY <1>1, <1>4

LEMMA FrameFacts ==
    ASSUME TypeOK, NEW i \in 1..depth
    PROVE  /\ FrameOK(frames[i], W(i))
           /\ frames[i].writes = W(i)
           /\ W(i) \subseteq LocKeys
           /\ \A k \in W(i) : /\ k.lv \in LValue /\ cell[k.lv] \in Cell
                              /\ frames[i].cur[k] \in Val
                              /\ frames[i].pre[k] \in Val
                              /\ frames[i].thn[k] \in Val
<1>1. FrameOK(frames[i], W(i)) /\ prog \in Seq(Stmt) /\ cell \in [LValue -> Cell]
  BY DEF TypeOK, ControlOK, W
<1>2. encl[i].at \in Nat
  BY EnclType DEF TypeOK
<1>3. W(i) \subseteq LocKeys /\ \A k \in W(i) : k.lv \in LValue
  BY <1>1, <1>2, WriteSetType DEF W
<1> QED BY <1>1, <1>3 DEF FrameOK

LEMMA ReadType ==
    ASSUME TypeOK, NEW l \in LValue
    PROVE  Read(l) \in Val
<1>1. store[cell[l]] \in Val
  BY DEF TypeOK, ControlOK
<1>2. ASSUME Versioned(l) PROVE frames[depth].cur[Key(l)] \in Val
  <2>1. depth \in 1..depth /\ Key(l) \in frames[depth].writes
    BY <1>2 DEF Versioned, TypeOK, ControlOK
  <2> QED BY <2>1, FrameFacts
<1> QED BY <1>1, <1>2 DEF Read

LEMMA ValTypes ==
    ASSUME TypeOK, NEW s, s.fn \in Fn, s.args \in [1..Arity -> LValue]
    PROVE  Rendered(s) \in Val /\ SourceVal(s) \in Val
<1>1. [n \in 1..Arity |-> Read(s.args[n])] \in [1..Arity -> Val]
  BY ReadType
<1>2. [n \in 1..Arity |-> mem[cell[s.args[n]]]] \in [1..Arity -> Val]
  BY DEF TypeOK, ControlOK
<1> QED BY <1>1, <1>2, ValueAssumption DEF Rendered, SourceVal

LEMMA PreOfType ==
    ASSUME TypeOK, NEW s, depth > 0
    PROVE  PreOf(s) \subseteq W(depth)
<1>1. depth \in 1..depth
  BY DEF TypeOK, ControlOK
<1> QED BY <1>1, FrameFacts DEF PreOf, Versioned

LEMMA UsingOK ==
    ASSUME NEW f, NEW w, FrameOK(f, w), NEW ks \in SUBSET w
    PROVE  FrameOK([f EXCEPT !.used = f.used \cup ks], w)
BY DEF FrameOK

LEMMA VersionOK ==
    ASSUME NEW f, NEW w, FrameOK(f, w), NEW ks \in SUBSET w, NEW k \in w, NEW v \in Val
    PROVE  FrameOK([f EXCEPT !.cur   = [f.cur EXCEPT ![k] = v],
                             !.fresh = f.fresh \cup {k},
                             !.used  = f.used \cup ks], w)
BY DEF FrameOK

LEMMA ElseOK ==
    ASSUME NEW f, NEW w, FrameOK(f, w)
    PROVE  FrameOK([f EXCEPT !.thn = f.cur, !.thnFresh = f.fresh,
                             !.cur = f.pre, !.fresh    = {}], w)
BY DEF FrameOK

\* frames' differs from frames in the innermost frame only
LEMMA FramesStep ==
    ASSUME TypeOK, NEW g, FrameOK(g, W(depth)),
           depth > 0, frames' = [frames EXCEPT ![depth] = g],
           prog' = prog, depth' = depth,
           \A i \in 1..depth : encl'[i].at = encl[i].at
    PROVE  /\ DOMAIN frames' = 1..depth'
           /\ \A i \in 1..depth' :
                 FrameOK(frames'[i], WriteSet(prog', encl'[1].at, encl'[i].at))
<1>1. depth \in Nat /\ DOMAIN frames = 1..depth /\ 1 \in 1..depth
  BY DEF TypeOK, ControlOK
<1>2. \A i \in 1..depth : WriteSet(prog', encl'[1].at, encl'[i].at) = W(i)
  BY <1>1 DEF W
<1>3. \A i \in 1..depth : FrameOK(frames[i], W(i))
  BY FrameFacts
<1>4. \A i \in 1..depth : frames'[i] = IF i = depth THEN g ELSE frames[i]
  BY <1>1
<1> QED BY <1>1, <1>2, <1>3, <1>4

LEMMA SelectOfType ==
    ASSUME NEW f, NEW w, FrameOK(f, w), NEW k \in w
    PROVE  SelectOf(f, k) \in Val
BY DEF FrameOK, SelectOf

LEMMA DirectArms ==
    ASSUME ControlOK, InArm, Here.op = "if", DirectShape(prog, Outermost, pc)
    PROVE  /\ pc+1 \in DOMAIN prog /\ pc+2 \in DOMAIN prog
           /\ prog[pc+1].lv \in LValue /\ prog[pc+2].lv \in LValue
           /\ prog[pc+1].fn \in Fn /\ prog[pc+2].fn \in Fn
           /\ prog[pc+1].args \in [1..Arity -> LValue]
           /\ prog[pc+2].args \in [1..Arity -> LValue]
           /\ pc+1 \in Inside(prog, pc) /\ pc+2 \in Inside(prog, pc)
<1>1. /\ prog \in Seq(Stmt) /\ pc \in DOMAIN prog /\ prog[pc].op = "if" /\ pc \in Nat
      /\ prog[pc].end = pc + 3 /\ WellNested(prog) /\ Len(prog) \in Nat
      /\ DOMAIN prog = 1..Len(prog)
  BY HereType, ProgType DEF Here, DirectShape, ControlOK
<1>2. prog[pc].end <= Len(prog) + 1
  BY <1>1 DEF WellNested
<1>3. pc+1 \in DOMAIN prog /\ pc+2 \in DOMAIN prog
  BY <1>1, <1>2
<1> QED BY <1>1, <1>3, ProgType DEF Inside

LEMMA AssignPlainType == ASSUME TypeOK, AssignPlain, SourceAssign PROVE TypeOK'
<1>1. ControlOK'
  BY AdvanceOK DEF TypeOK, AssignPlain, Ready
<1>2. /\ cell[Here.lv] \in Cell /\ Rendered(Here) \in Val /\ SourceVal(Here) \in Val
  BY HereType, ValTypes DEF TypeOK, AssignPlain, Ready, ControlOK
<1>3. store' \in [Cell -> Val] /\ mem' \in [Cell -> Val]
  BY <1>2 DEF TypeOK, AssignPlain, SourceAssign, Store
<1> QED BY <1>1, <1>2, <1>3 DEF TypeOK, AssignPlain, SourceAssign, Advance

LEMMA AssignVersionType == ASSUME TypeOK, AssignVersion, SourceAssign PROVE TypeOK'
<1>1. ControlOK'
  BY AdvanceOK DEF TypeOK, AssignVersion, Ready
<1>2. /\ cell[Here.lv] \in Cell /\ Rendered(Here) \in Val /\ SourceVal(Here) \in Val
  BY HereType, ValTypes DEF TypeOK, AssignVersion, Ready, ControlOK
<1>3. mem' \in [Cell -> Val]
  BY <1>2 DEF TypeOK, SourceAssign
<1>4. depth > 0 /\ depth \in 1..depth /\ Key(Here.lv) \in W(depth)
  <2>1. depth > 0 /\ depth \in 1..depth
    BY DEF AssignVersion, TypeOK, ControlOK
  <2>2. Versioned(Here.lv)
    BY DEF AssignVersion, Ready, Refused
  <2> QED BY <2>1, <2>2, FrameFacts DEF Versioned
<1> DEFINE f == frames[depth]
           g == [f EXCEPT !.cur   = [f.cur EXCEPT ![Key(Here.lv)] = Rendered(Here)],
                          !.fresh = f.fresh \cup {Key(Here.lv)},
                          !.used  = f.used \cup PreOf(Here)]
<1>5. FrameOK(g, W(depth))
  BY <1>2, <1>4, FrameFacts, PreOfType, VersionOK
<1>6. frames' = [frames EXCEPT ![depth] = g]
  BY DEF AssignVersion, Version
<1>7. /\ DOMAIN frames' = 1..depth'
      /\ \A i \in 1..depth' :
            FrameOK(frames'[i], WriteSet(prog', encl'[1].at, encl'[i].at))
  <2> HIDE DEF g
  <2> QED BY <1>4, <1>5, <1>6, FramesStep DEF AssignVersion, Advance
<1> QED BY <1>1, <1>3, <1>7 DEF TypeOK, AssignVersion, SourceAssign, Advance

LEMMA AssignLocalType == ASSUME TypeOK, AssignLocal, SourceAssign PROVE TypeOK'
<1>1. ControlOK'
  BY AdvanceOK DEF TypeOK, AssignLocal, Ready
<1>2. /\ cell[Here.lv] \in Cell /\ Rendered(Here) \in Val /\ SourceVal(Here) \in Val
  BY HereType, ValTypes DEF TypeOK, AssignLocal, Ready, ControlOK
<1>3. store' \in [Cell -> Val] /\ mem' \in [Cell -> Val]
  BY <1>2 DEF TypeOK, AssignLocal, SourceAssign, Store
<1>4. depth > 0 /\ depth \in 1..depth
  BY DEF AssignLocal, TypeOK, ControlOK
<1> DEFINE f == frames[depth]
           g == [f EXCEPT !.used = f.used \cup PreOf(Here)]
<1>5. FrameOK(g, W(depth))
  BY <1>4, FrameFacts, PreOfType, UsingOK
<1>6. frames' = [frames EXCEPT ![depth] = g]
  BY DEF AssignLocal, Using
<1>7. /\ DOMAIN frames' = 1..depth'
      /\ \A i \in 1..depth' :
            FrameOK(frames'[i], WriteSet(prog', encl'[1].at, encl'[i].at))
  <2> HIDE DEF g
  <2> QED BY <1>4, <1>5, <1>6, FramesStep DEF AssignLocal, Advance
<1>8. bare' \subseteq Cell
  BY <1>2 DEF AssignLocal, TypeOK
<1> QED BY <1>1, <1>3, <1>7, <1>8 DEF TypeOK, AssignLocal, SourceAssign, Advance

LEMMA PointType == ASSUME TypeOK, Point PROVE TypeOK'
<1>1. ControlOK'
  BY AdvanceOK DEF TypeOK, Point, DeclarePointer, Ready
<1>2. cell[Here.lv] \in Cell /\ SourceVal(Here) \in Val
  BY HereType, ValTypes DEF TypeOK, Point, DeclarePointer, Ready, ControlOK
<1>3. mem' \in [Cell -> Val]
  BY <1>2 DEF TypeOK, Point, SourceAssign
<1> QED BY <1>1, <1>3 DEF TypeOK, Point, DeclarePointer, SourceAssign, Advance

LEMMA OpenType == ASSUME TypeOK, Open PROVE TypeOK'
<1>1. ControlOK' /\ Enter /\ InArm /\ depth \in Nat /\ depth' = depth + 1
      /\ prog' = prog /\ prog \in Seq(Stmt) /\ cell \in [LValue -> Cell] /\ pc \in Nat
  BY EnterOK, HereType DEF TypeOK, ControlOK, Open, OpenFrame, Ready, Enter
<1>2. cond' \in [1..depth+1 -> BOOLEAN]
  <2>1. \A i \in 1..depth+1 : i \in 1..depth \/ i = depth+1
    BY <1>1
  <2> DEFINE new == Running /\ SourceVal(Here) = TrueVal
  <2>2. new \in BOOLEAN
    BY DEF Running
  <2>3. cond' = [i \in 1..depth+1 |-> IF i <= depth THEN cond[i] ELSE new]
    BY DEF Open, SourceOpen
  <2>4. \A i \in 1..depth : cond[i] \in BOOLEAN
    BY DEF TypeOK
  <2> HIDE DEF new
  <2>5. \A i \in 1..depth+1 : (IF i <= depth THEN cond[i] ELSE new) \in BOOLEAN
    BY <1>1, <2>1, <2>2, <2>4
  <2> QED BY <2>3, <2>5
<1> DEFINE w     == WriteSet(prog, Outermost, pc)
           pre   == [k \in w |-> ReadKey(k)]
           frame == [cond |-> Rendered(Here) = TrueVal, writes |-> w,
                     pre |-> pre, cur |-> pre, fresh |-> {},
                     thn |-> pre, thnFresh |-> {}, used |-> {}]
           incoming == {k \in w : Has(k) /\ k \notin frames[depth].fresh}
           outer == IF depth = 0 THEN frames
                    ELSE Using(PreOf(Here) \cup incoming)
<1>3. frames' = [i \in 1..depth+1 |-> IF i <= depth THEN outer[i] ELSE frame]
  BY DEF Open, OpenFrame
<1>4. \A k \in w : ReadKey(k) \in Val
  <2> SUFFICES ASSUME NEW k \in w PROVE ReadKey(k) \in Val
    OBVIOUS
  <2>1. store[cell[k.lv]] \in Val
    BY <1>1, WriteSetType DEF TypeOK
  <2>2. ASSUME Has(k) PROVE frames[depth].cur[k] \in Val
    BY <1>1, <2>2, FrameFacts DEF Has
  <2> QED BY <2>1, <2>2 DEF ReadKey
<1>5. FrameOK(frame, w)
  BY <1>4 DEF FrameOK
<1>6. \A i \in 1..depth : FrameOK(outer[i], W(i))
  <2> SUFFICES ASSUME NEW i \in 1..depth PROVE FrameOK(outer[i], W(i))
    OBVIOUS
  <2> DEFINE ks == PreOf(Here) \cup incoming
             f  == frames[depth]
             g  == [f EXCEPT !.used = f.used \cup ks]
  <2>1. depth > 0 /\ depth \in 1..depth
    BY <1>1
  <2>2. ks \subseteq W(depth)
    BY <2>1, PreOfType, FrameFacts DEF Has
  <2>3. FrameOK(g, W(depth))
    BY <2>1, <2>2, FrameFacts, UsingOK
  <2>4. outer = [frames EXCEPT ![depth] = g]
    BY <2>1 DEF Using
  <2>5. outer[i] = IF i = depth THEN g ELSE frames[i]
    <3> HIDE DEF g, outer
    <3> QED BY <2>1, <2>4 DEF TypeOK
  <2> QED BY <2>3, <2>5, FrameFacts
<1>7. /\ \A i \in 1..depth : encl'[i].at = encl[i].at
      /\ encl'[depth+1].at = pc
      /\ encl'[1].at = Outermost
  BY <1>1 DEF Enter, Outermost
<1>8. \A i \in 1..depth+1 :
         FrameOK(frames'[i], WriteSet(prog', encl'[1].at, encl'[i].at))
  <2> SUFFICES ASSUME NEW i \in 1..depth+1
               PROVE  FrameOK(frames'[i], WriteSet(prog, Outermost, encl'[i].at))
    BY <1>1, <1>7
  <2> HIDE DEF frame, outer, w
  <2>1. CASE i \in 1..depth
    <3>1. frames'[i] = outer[i]
      BY <1>1, <1>3, <2>1
    <3>2. WriteSet(prog, Outermost, encl'[i].at) = W(i)
      BY <1>1, <1>7, <2>1 DEF W, Outermost
    <3> QED BY <1>6, <2>1, <3>1, <3>2
  <2>2. CASE i = depth+1
    BY <1>1, <1>3, <1>5, <1>7, <2>2 DEF w
  <2> QED BY <1>1, <2>1, <2>2
<1>9. DOMAIN frames' = 1..depth'
  BY <1>1, <1>3
<1>10. UNCHANGED <<mem, store, refused, bare, preRead>>
  BY DEF Open, OpenFrame, SourceOpen
<1> QED BY <1>1, <1>2, <1>8, <1>9, <1>10 DEF TypeOK

LEMMA ElseType == ASSUME TypeOK, Else PROVE TypeOK'
<1>1. ControlOK' /\ depth > 0 /\ depth \in 1..depth
      /\ prog' = prog /\ depth' = depth
  BY TurnOK DEF TypeOK, ControlOK, Else, TurnFrame, Turn, AtElse
<1>2. \A i \in 1..depth : encl'[i].at = encl[i].at
  BY <1>1 DEF TypeOK, ControlOK, Else, TurnFrame, Turn
<1> DEFINE f == frames[depth]
           g == [f EXCEPT !.thn = f.cur, !.thnFresh = f.fresh,
                          !.cur = f.pre, !.fresh    = {}]
<1>3. FrameOK(g, W(depth))
  BY <1>1, FrameFacts, ElseOK
<1>4. frames' = [frames EXCEPT ![depth] = g]
  BY DEF Else, TurnFrame
<1>5. /\ DOMAIN frames' = 1..depth'
      /\ \A i \in 1..depth' :
            FrameOK(frames'[i], WriteSet(prog', encl'[1].at, encl'[i].at))
  <2> HIDE DEF g
  <2> QED BY <1>1, <1>2, <1>3, <1>4, FramesStep
<1> QED BY <1>1, <1>5 DEF TypeOK, Else, TurnFrame, SourceElse

LEMMA MergeType == ASSUME TypeOK, Merge PROVE TypeOK'
<1>1. ControlOK' /\ depth > 0 /\ depth \in 1..depth /\ depth \in Nat
      /\ prog' = prog /\ cell' = cell /\ depth' = depth - 1
      /\ prog \in Seq(Stmt) /\ cell \in [LValue -> Cell]
  BY LeaveOK DEF TypeOK, ControlOK, Merge, MergeFrame, Leave, AtEnd
<1>2. \A i \in 1..depth-1 : encl'[i].at = encl[i].at
  BY <1>1 DEF Merge, MergeFrame, Leave
<1> DEFINE f      == frames[depth]
           up     == IF depth > 1 THEN f.writes \cap frames[depth-1].writes ELSE {}
           direct == f.writes \ up
           pres   == f.used \cup (f.writes \ f.thnFresh) \cup (f.writes \ f.fresh)
<1>3. FrameOK(f, W(depth)) /\ f.writes = W(depth)
  BY <1>1, FrameFacts
<1>4. \A k \in W(depth) : SelectOf(f, k) \in Val /\ k.lv \in LValue /\ cell[k.lv] \in Cell
  BY <1>1, <1>3, FrameFacts, SelectOfType
<1>5. cond' \in [1..depth-1 -> BOOLEAN]
  BY <1>1 DEF TypeOK, Merge, SourceClose
<1>6. store' \in [Cell -> Val]
  <2>1. \A c \in Cell : Merged(f, direct)[c] \in Val
    <3> SUFFICES ASSUME NEW c \in Cell PROVE Merged(f, direct)[c] \in Val
      OBVIOUS
    <3>1. store[c] \in Val
      BY DEF TypeOK
    <3> DEFINE here == {k \in direct : cell[k.lv] = c}
               pos(k) == FirstWrite(prog, encl[depth].at, k.lv)
               last == CHOOSE k \in here : \A j \in here \ {k} : pos(j) < pos(k)
    <3>2. Merged(f, direct)[c] = IF here = {} THEN store[c] ELSE SelectOf(f, last)
      BY DEF Merged
    <3>3. CASE here # {}
      <4>1. here \subseteq W(depth)
        BY <1>3
      <4>2. /\ encl[depth].at \in Nat /\ Len(prog) \in Nat
            /\ \A k \in here : k.lv \in Scanned(prog, encl[1].at, encl[depth].at)
        BY <1>1, <4>1, EnclType, WriteSetType DEF W, TypeOK
      <4>3. \A k \in here : pos(k) \in 1..Len(prog) /\ prog[pos(k)].lv = k.lv
        BY <1>1, <4>2, FirstWriteFact
      <4>4. \A j, k \in here : j.lv = k.lv => j = k
        BY <4>1 DEF W, WriteSet, LocKey
      <4> DEFINE ps == [k \in here |-> pos(k)]
      <4>5. ps \in [here -> 1..Len(prog)]
        BY <4>3
      <4>6. \A j, k \in here : ps[j] = ps[k] => j = k
        BY <4>3, <4>4
      <4>7. \E k \in here : \A j \in here \ {k} : ps[j] < ps[k]
        <5> HIDE DEF here, ps
        <5> QED BY <3>3, <4>2, <4>5, <4>6, Last
      <4>8. \E k \in here : \A j \in here \ {k} : pos(j) < pos(k)
        BY <4>7
      <4>9. last \in here
        <5> HIDE DEF here, pos
        <5> QED BY <4>8
      <4> HIDE DEF last
      <4> QED BY <1>4, <3>2, <3>3, <4>1, <4>9
    <3>4. CASE here = {}
      BY <3>1, <3>2, <3>4
    <3> QED BY <3>3, <3>4
  <2>2. store' = Merged(f, direct)
    BY DEF Merge, MergeFrame
  <2> QED BY <2>1, <2>2 DEF Merged
<1>7. bare' \subseteq Cell
  BY <1>3, <1>4 DEF Merge, MergeFrame, Bare, TypeOK
<1>8. preRead' \subseteq (Nat \X LValue)
  <2>1. pres \subseteq W(depth)
    BY <1>3 DEF FrameOK
  <2>2. \A k \in pres : <<encl[depth].at, k.lv>> \in Nat \X LValue
    BY <1>1, <1>4, <2>1, EnclType DEF TypeOK
  <2>3. preRead' = preRead \cup {<<encl[depth].at, k.lv>> : k \in pres}
    BY DEF Merge, MergeFrame
  <2> HIDE DEF pres
  <2> QED BY <2>2, <2>3 DEF TypeOK
<1>9. /\ DOMAIN frames' = 1..depth-1
      /\ \A i \in 1..depth-1 : FrameOK(frames'[i], W(i))
  <2> DEFINE o == frames[depth-1]
             g == [o EXCEPT !.cur   = [k \in o.writes |-> IF k \in up THEN SelectOf(f, k)
                                                           ELSE o.cur[k]],
                            !.fresh = o.fresh \cup up]
  <2>1. frames' = [i \in 1..depth-1 |-> IF i = depth-1 THEN Merging(f, up) ELSE frames[i]]
    BY DEF Merge, MergeFrame
  <2>2. Merging(f, up) = g
    BY DEF Merging
  <2>3. ASSUME depth - 1 \in 1..depth-1 PROVE FrameOK(g, W(depth-1))
    <3>1. depth - 1 \in 1..depth
      BY <1>1, <2>3
    <3>2. FrameOK(o, W(depth-1)) /\ o.writes = W(depth-1)
      BY <3>1, FrameFacts
    <3>3. up \subseteq W(depth-1) /\ up \subseteq W(depth)
      BY <1>3, <3>2
    <3>4. \A k \in W(depth-1) : o.cur[k] \in Val
      BY <3>1, FrameFacts
    <3>5. \A k \in up : SelectOf(f, k) \in Val
      BY <1>4, <3>3
    <3> HIDE DEF f, up
    <3> QED BY <3>2, <3>3, <3>4, <3>5 DEF FrameOK
  <2> HIDE DEF g
  <2>4. ASSUME NEW i \in 1..depth-1 PROVE FrameOK(frames'[i], W(i))
    <3>1. CASE i = depth-1
      BY <2>1, <2>2, <2>3, <3>1
    <3>2. CASE i # depth-1
      <4>1. i \in 1..depth /\ frames'[i] = frames[i]
        BY <1>1, <2>1, <3>2
      <4> QED BY <4>1, FrameFacts
    <3> QED BY <3>1, <3>2
  <2> QED BY <2>1, <2>4
<1>10. \A i \in 1..depth-1 : WriteSet(prog', encl'[1].at, encl'[i].at) = W(i)
  BY <1>1, <1>2 DEF W
<1>11. UNCHANGED <<mem, refused>>
  BY DEF Merge, MergeFrame, SourceClose
<1> QED BY <1>1, <1>5, <1>6, <1>7, <1>8, <1>9, <1>10, <1>11 DEF TypeOK

LEMMA ChooseType == ASSUME TypeOK, Choose PROVE TypeOK'
<1> DEFINE s    == prog[pc+1]
           e    == prog[pc+2]
           v    == IF Rendered(Here) = TrueVal THEN Rendered(s) ELSE Rendered(e)
           arm  == IF SourceVal(Here) = TrueVal THEN prog[pc+1] ELSE prog[pc+2]
           pres == PreOf(Here) \cup PreOf(s) \cup PreOf(e)
<1>1. /\ ControlOK' /\ prog' = prog /\ cell' = cell /\ depth' = depth /\ encl' = encl
      /\ s.lv \in LValue /\ e.lv \in LValue /\ s.fn \in Fn /\ e.fn \in Fn
      /\ s.args \in [1..Arity -> LValue] /\ e.args \in [1..Arity -> LValue]
      /\ cell[s.lv] \in Cell /\ cell[e.lv] \in Cell /\ depth \in Nat
  BY JumpOK, DirectArms DEF TypeOK, ControlOK, Choose, DirectSelect, Ready, Direct, JumpOver
<1>2. v \in Val
  BY <1>1, ValTypes
<1>3. mem' \in [Cell -> Val]
  <2>1. cell[arm.lv] \in Cell /\ SourceVal(arm) \in Val
    BY <1>1, ValTypes
  <2> QED BY <2>1 DEF TypeOK, Choose, SourceChoose
<1>4. cond' = cond /\ refused' = refused /\ preRead' = preRead
  BY DEF Choose, DirectSelect, SourceChoose
<1>5. depth > 0 => depth \in 1..depth /\ pres \subseteq W(depth)
  BY <1>1, PreOfType
<1> DEFINE f == frames[depth]
           g == [f EXCEPT !.cur   = [f.cur EXCEPT ![Key(s.lv)] = v],
                          !.fresh = f.fresh \cup {Key(s.lv)},
                          !.used  = f.used \cup pres]
           u == [f EXCEPT !.used = f.used \cup pres]
<1>6. CASE Versioned(s.lv)
  <2>1. frames' = [frames EXCEPT ![depth] = g] /\ store' = store /\ bare' = bare
    BY <1>6 DEF Choose, DirectSelect, Version
  <2>2. depth > 0 /\ depth \in 1..depth /\ Key(s.lv) \in W(depth) /\ pres \subseteq W(depth)
    BY <1>1, <1>5, <1>6, FrameFacts DEF Versioned
  <2>3. FrameOK(g, W(depth))
    <3> HIDE DEF v, pres
    <3> QED BY <1>2, <2>2, FrameFacts, VersionOK
  <2>4. /\ DOMAIN frames' = 1..depth'
        /\ \A i \in 1..depth' :
              FrameOK(frames'[i], WriteSet(prog', encl'[1].at, encl'[i].at))
    <3> HIDE DEF g
    <3> QED BY <1>1, <2>1, <2>2, <2>3, FramesStep
  <2> QED BY <1>1, <1>3, <1>4, <2>1, <2>4 DEF TypeOK
<1>7. CASE ~Versioned(s.lv)
  <2>1. /\ frames' = (IF depth = 0 THEN frames ELSE [frames EXCEPT ![depth] = u])
        /\ store' = [store EXCEPT ![cell[s.lv]] = v] /\ bare' = Bare({s.lv})
    BY <1>7 DEF Choose, DirectSelect, Using, Store
  <2>2. store' \in [Cell -> Val] /\ bare' \subseteq Cell
    <3> HIDE DEF v
    <3> QED BY <1>1, <1>2, <2>1 DEF TypeOK, Bare
  <2>3. CASE depth = 0
    BY <1>1, <1>3, <1>4, <2>1, <2>2, <2>3 DEF TypeOK
  <2>4. CASE depth > 0
    <3>1. FrameOK(u, W(depth))
      <4> HIDE DEF pres
      <4> QED BY <1>5, <2>4, FrameFacts, UsingOK
    <3>2. /\ DOMAIN frames' = 1..depth'
          /\ \A i \in 1..depth' :
                FrameOK(frames'[i], WriteSet(prog', encl'[1].at, encl'[i].at))
      <4>1. frames' = [frames EXCEPT ![depth] = u]
        BY <2>1, <2>4
      <4> HIDE DEF u
      <4> QED BY <1>1, <2>4, <3>1, <4>1, FramesStep
    <3> QED BY <1>1, <1>3, <1>4, <2>2, <3>2 DEF TypeOK
  <2> QED BY <1>1, <2>3, <2>4
<1> QED BY <1>6, <1>7

LEMMA RejectType == ASSUME TypeOK, Reject PROVE TypeOK'
<1>1. ControlOK'
  BY DEF TypeOK, ControlOK, Reject, Refuse, control, ArmSpan, ArmFirst, ArmEnd
<1> QED BY <1>1 DEF TypeOK, Reject, Refuse, control

LEMMA StutterType == ASSUME TypeOK, UNCHANGED vars PROVE TypeOK'
<1>1. ControlOK'
  BY DEF TypeOK, ControlOK, vars, control, ArmSpan, ArmFirst, ArmEnd
<1> QED BY <1>1 DEF TypeOK, vars, control

LEMMA InitType == Init => TypeOK
<1> SUFFICES ASSUME Init PROVE TypeOK
  OBVIOUS
<1>1. prog \in Seq(Stmt) /\ WellNested(prog) /\ cell \in [LValue -> Cell]
  BY ProgramAssumption, SpaceAssumption DEF Init, SelectInit, ControlInit
<1>2. pc = 1 /\ depth = 0 /\ encl = << >> /\ 1..0 = {}
  BY DEF Init, SelectInit, ControlInit
<1>3. ControlOK
  BY <1>1, <1>2 DEF ControlOK
<1>4. /\ cond = << >> /\ frames = << >> /\ mem = store /\ store \in [Cell -> Val]
      /\ refused = FALSE /\ bare = {} /\ preRead = {}
  BY DEF Init, SelectInit
<1>5. << >> \in [1..0 -> BOOLEAN] /\ DOMAIN << >> = 1..0
  OBVIOUS
<1>6. cond \in [1..depth -> BOOLEAN] /\ DOMAIN frames = 1..depth
  BY <1>2, <1>4, <1>5
<1> QED BY <1>2, <1>3, <1>4, <1>6 DEF TypeOK

LEMMA StepType == ASSUME TypeOK, [Next]_vars PROVE TypeOK'
<1>1. CASE Assign
  BY <1>1, AssignPlainType, AssignVersionType, AssignLocalType DEF Assign
<1>2. CASE Point
  BY <1>2, PointType
<1>3. CASE Open
  BY <1>3, OpenType
<1>4. CASE Else
  BY <1>4, ElseType
<1>5. CASE Merge
  BY <1>5, MergeType
<1>6. CASE Choose
  BY <1>6, ChooseType
<1>7. CASE Reject
  BY <1>7, RejectType
<1>8. CASE UNCHANGED vars
  BY <1>8, StutterType
<1> QED BY <1>1, <1>2, <1>3, <1>4, <1>5, <1>6, <1>7, <1>8 DEF Next

\* Every frame the renderer works in has the write set of its if and an
\* environment that is total on it, and the walk stays inside the arms of the
\* ifs around it (render_frame, render_branch).
THEOREM TypeCorrect == Spec => []TypeOK
<1>1. Init => TypeOK
  BY InitType
<1>2. TypeOK /\ [Next]_vars => TypeOK'
  BY StepType
<1> QED BY <1>1, <1>2, PTL DEF Spec

-----------------------------------------------------------------------------
Hyp  == Supported(prog) /\ AliasSound(cell)
IInv == TypeOK /\ Hyp /\ BranchInv

-----------------------------------------------------------------------------
(* Locations                                                               *)

LEMMA AliasReflexive == ASSUME NEW l PROVE MayAlias(l, l)
<1>1. \A i \in DOMAIN l.segs : SegRel(l.segs[i], l.segs[i]) = "same"
  BY DEF SegRel
<1> QED BY <1>1 DEF MayAlias

LEMMA KeyFacts ==
    ASSUME TypeOK, NEW i \in 1..depth
    PROVE  /\ \A k \in W(i) : k = LocKey(encl[i].at, k.lv)
           /\ \A k \in W(i) : k.lv \in Scanned(prog, encl[1].at, encl[i].at)
           /\ \A j, k \in W(i) : j.lv = k.lv => j = k
           /\ \A l : LocKey(encl[i].at, l).lv = l
           /\ \A l : l \in Scanned(prog, encl[1].at, encl[i].at)
                        <=> LocKey(encl[i].at, l) \in W(i)
<1>1. \A l : LocKey(encl[i].at, l).lv = l
  BY DEF LocKey
<1> QED BY <1>1 DEF W, WriteSet

\* the enclosing ifs are nested in each other and in the outermost one
LEMMA EnclInside ==
    ASSUME TypeOK, NEW i \in 1..depth, NEW j \in 1..depth, i < j
    PROVE  /\ encl[i].at \in Ifs(prog) /\ encl[j].at \in Ifs(prog)
           /\ encl[j].at \in Inside(prog, encl[i].at)
           /\ Inside(prog, encl[j].at) \subseteq Inside(prog, encl[i].at)
<1>1. /\ ControlOK /\ prog \in Seq(Stmt)
      /\ prog[encl[i].at].op = "if" /\ prog[encl[j].at].op = "if"
  BY DEF TypeOK, ControlOK
<1>2. /\ encl[i].at \in DOMAIN prog /\ encl[j].at \in DOMAIN prog
      /\ encl[i].at \in Nat /\ encl[j].at \in Nat
      /\ ArmFirst(i) \in Nat /\ ArmEnd(i) \in Nat
      /\ encl[i].at < ArmFirst(i) /\ ArmEnd(i) <= prog[encl[i].at].end
      /\ prog[encl[i].at].end \in Nat /\ prog[encl[j].at].end \in Nat
      /\ prog[encl[j].at].els \in Nat
      /\ encl[j].at + 1 <= prog[encl[j].at].els
      /\ prog[encl[j].at].els <= prog[encl[j].at].end
  BY <1>1, EnclType
<1>3. ArmFirst(i) <= encl[j].at /\ prog[encl[j].at].end <= ArmEnd(i)
  BY <1>1, EnclNested
<1>4. \A k \in DOMAIN prog : k \in Nat
  BY <1>1
<1>5. encl[i].at < encl[j].at /\ encl[j].at < prog[encl[i].at].end
      /\ prog[encl[j].at].end <= prog[encl[i].at].end
  BY <1>2, <1>3
<1>6. Inside(prog, encl[j].at) \subseteq Inside(prog, encl[i].at)
  BY <1>2, <1>4, <1>5 DEF Inside
<1> QED BY <1>1, <1>2, <1>5, <1>6 DEF Ifs, Inside

\* the statement at pc, and an if at pc, lie in every enclosing if
LEMMA PcInside ==
    ASSUME TypeOK, InArm, NEW i \in 1..depth
    PROVE  /\ pc \in Inside(prog, encl[i].at)
           /\ encl[i].at \in Ifs(prog)
           /\ Here.op = "if" => Inside(prog, pc) \subseteq Inside(prog, encl[i].at)
<1>0. ControlOK /\ depth \in Nat /\ depth \in 1..depth
  BY DEF TypeOK, ControlOK
<1>1. /\ ControlOK /\ prog[encl[i].at].op = "if" /\ encl[i].at \in DOMAIN prog
      /\ depth \in 1..depth /\ pc < ArmEnd(depth) /\ prog \in Seq(Stmt)
  BY <1>0 DEF ControlOK, InArm, Limit
<1>2. /\ encl[i].at \in Nat /\ ArmFirst(i) \in Nat /\ encl[i].at < ArmFirst(i)
      /\ ArmFirst(i) <= pc /\ ArmEnd(i) <= prog[encl[i].at].end
      /\ ArmEnd(i) \in Nat /\ prog[encl[i].at].end \in Nat
      /\ ArmEnd(depth) \in Nat
  BY <1>1, EnclType
<1>3. ArmEnd(depth) <= ArmEnd(i)
  BY <1>1, ArmsShrink
<1>4. pc \in DOMAIN prog /\ pc \in Nat /\ prog[pc].end \in Nat
  BY <1>1, HereType DEF Here
<1>5. Here.op = "if" => prog[pc].end <= ArmEnd(depth)
  BY <1>1, InnerIf
<1>6. \A k \in DOMAIN prog : k \in Nat
  BY <1>1
<1>7. pc \in Inside(prog, encl[i].at)
  BY <1>2, <1>3, <1>4, <1>1 DEF Inside
<1>8. Here.op = "if" => Inside(prog, pc) \subseteq Inside(prog, encl[i].at)
  BY <1>2, <1>3, <1>4, <1>5, <1>6, <1>7 DEF Inside
<1> QED BY <1>1, <1>7, <1>8 DEF Ifs

\* with no hoisted keys, a nested if writes locations of the ifs around it
LEMMA NestedWrites ==
    ASSUME TypeOK, Hyp, NEW i \in 1..depth, NEW j \in 1..depth, i <= j
    PROVE  W(j) \subseteq W(i)
<1>1. CASE i = j
  BY <1>1
<1>2. CASE i < j
  <2>1. depth \in Nat /\ 1 \in 1..depth /\ 1 < j
    BY <1>2 DEF TypeOK, ControlOK
  <2>2. /\ encl[1].at \in Ifs(prog) /\ encl[j].at \in Ifs(prog) \cap Inside(prog, encl[1].at)
    BY <2>1, EnclInside
  <2>3. PlainKeys(prog, encl[1].at, encl[j].at)
    BY <2>2 DEF Hyp, Supported
  <2>4. Scanned(prog, encl[1].at, encl[j].at) \subseteq Scanned(prog, encl[1].at, encl[i].at)
    BY <1>2, EnclInside DEF Scanned
  <2>5. \A l \in Scanned(prog, encl[1].at, encl[j].at) :
           LocKey(encl[j].at, l) = LocKey(encl[i].at, l)
    BY <2>3 DEF PlainKeys, LocKey
  <2> QED BY <2>4, <2>5 DEF W, WriteSet
<1> QED BY <1>1, <1>2

\* the same of an if about to be opened
LEMMA OpenedWrites ==
    ASSUME TypeOK, Hyp, InArm, Here.op = "if", depth > 0
    PROVE  WriteSet(prog, Outermost, pc) \subseteq W(depth)
<1>1. depth \in 1..depth /\ 1 \in 1..depth /\ Outermost = encl[1].at
  BY DEF TypeOK, ControlOK, Outermost
<1>2. /\ encl[1].at \in Ifs(prog) /\ pc \in Ifs(prog) \cap Inside(prog, encl[1].at)
  BY <1>1, PcInside, HereType DEF Ifs, Here, TypeOK
<1>3. PlainKeys(prog, encl[1].at, pc)
  BY <1>2 DEF Hyp, Supported
<1>4. Scanned(prog, encl[1].at, pc) \subseteq Scanned(prog, encl[1].at, encl[depth].at)
  BY <1>1, PcInside DEF Scanned
<1>5. \A l \in Scanned(prog, encl[1].at, pc) : LocKey(pc, l) = LocKey(encl[depth].at, l)
  BY <1>3 DEF PlainKeys, LocKey
<1> QED BY <1>1, <1>4, <1>5 DEF W, WriteSet

\* two locations of an outermost if are two places
LEMMA DistinctCells ==
    ASSUME TypeOK, Hyp, WritesDecided, 1 \in 1..depth,
           NEW j \in W(1), NEW k \in W(1), j # k
    PROVE  cell[j.lv] # cell[k.lv]
<1>1. /\ j.lv \in Scanned(prog, encl[1].at, encl[1].at)
      /\ k.lv \in Scanned(prog, encl[1].at, encl[1].at) /\ j.lv # k.lv
  BY KeyFacts
<1>2. j.lv \in LValue /\ k.lv \in LValue
  BY FrameFacts
<1>3. depth > 0
  BY DEF TypeOK, ControlOK
<1>4. ~MayAlias(j.lv, k.lv)
  BY <1>1, <1>3 DEF WritesDecided, UndecidableWrites
<1> QED BY <1>1, <1>2, <1>4 DEF Hyp, AliasSound

-----------------------------------------------------------------------------
(* Reads: in the arms the conditions selected, the rendered text reads     *)
(* what the source reads.                                                  *)

\* a location the innermost frame does not version, and whose read the
\* lowering accepted, is no location of any open frame
LEMMA ReadElsewhere ==
    ASSUME IInv, depth > 0, NEW l \in LValue, ~Versioned(l),
           \A w \in frames[depth].writes : ~MayAlias(w.lv, l),
           depth > 1 => \/ l \in Scanned(prog, encl[1].at, encl[depth].at)
                        \/ \A w \in Scanned(prog, encl[1].at, encl[1].at) : ~MayAlias(w, l)
    PROVE  \A k \in frames[1].writes : cell[k.lv] # cell[l]
<1>1. /\ TypeOK /\ Hyp /\ depth \in Nat /\ depth \in 1..depth /\ 1 \in 1..depth
      /\ frames[1].writes = W(1) /\ frames[depth].writes = W(depth)
  BY FrameFacts DEF IInv, TypeOK, ControlOK
<1>2. l \notin Scanned(prog, encl[1].at, encl[depth].at)
  BY <1>1, KeyFacts DEF Versioned, Key
<1>3. ASSUME NEW k \in W(1) PROVE ~MayAlias(k.lv, l)
  <2>1. CASE depth = 1
    BY <1>1, <1>3, <2>1
  <2>2. CASE depth > 1
    BY <1>1, <1>2, <1>3, <2>2, KeyFacts
  <2> QED BY <1>1, <2>1, <2>2
<1>4. ASSUME NEW k \in W(1) PROVE cell[k.lv] # cell[l]
  <2>1. k.lv # l /\ k.lv \in LValue
    BY <1>1, <1>3, <1>4, AliasReflexive, FrameFacts
  <2> QED BY <1>1, <1>3, <1>4, <2>1 DEF Hyp, AliasSound
<1> QED BY <1>1, <1>4

LEMMA ReadAgrees ==
    ASSUME IInv, Running, NEW l \in LValue,
           depth > 0 => \A w \in frames[depth].writes : ~Versioned(l) => ~MayAlias(w.lv, l),
           depth > 1 => \/ l \in Scanned(prog, encl[1].at, encl[depth].at)
                        \/ \A w \in Scanned(prog, encl[1].at, encl[1].at) : ~MayAlias(w, l)
    PROVE  Read(l) = mem[cell[l]]
<1>1. /\ TypeOK /\ BranchInv /\ depth \in Nat /\ cell[l] \in Cell
  BY DEF IInv, TypeOK, ControlOK
<1>2. CASE Versioned(l)
  <2>1. depth \in 1..depth /\ Key(l) \in frames[depth].writes /\ Key(l).lv = l
    BY <1>1, <1>2 DEF Versioned, Key, LocKey
  <2>2. Taken(depth)
    BY DEF Running, Taken
  <2>3. mem[cell[Key(l).lv]] = frames[depth].cur[Key(l)]
    BY <1>1, <2>1, <2>2 DEF BranchInv, ViewsAgree
  <2> QED BY <1>2, <2>1, <2>3 DEF Read
<1>3. CASE ~Versioned(l)
  <2>1. depth > 0 => \A k \in frames[1].writes : cell[k.lv] # cell[l]
    BY <1>3, ReadElsewhere
  <2>2. mem[cell[l]] = store[cell[l]]
    BY <1>1, <2>1 DEF BranchInv, RestAgrees
  <2> QED BY <1>3, <2>2 DEF Read
<1> QED BY <1>2, <1>3

LEMMA RenderedAgrees ==
    ASSUME IInv, Running, NEW j \in DOMAIN prog, ~UndecidableRead(prog[j]),
           depth > 0 => j \in Inside(prog, encl[depth].at)
    PROVE  Rendered(prog[j]) = SourceVal(prog[j])
<1>1. TypeOK /\ Hyp /\ depth \in Nat /\ prog \in Seq(Stmt)
  BY DEF IInv, TypeOK, ControlOK
<1>2. prog[j].args \in [1..Arity -> LValue]
  BY <1>1, ProgType
<1>3. ASSUME NEW n \in 1..Arity PROVE Read(prog[j].args[n]) = mem[cell[prog[j].args[n]]]
  <2>1. prog[j].args[n] \in LValue
    BY <1>2
  <2>2. depth > 0 => \A w \in frames[depth].writes :
                        ~Versioned(prog[j].args[n]) => ~MayAlias(w.lv, prog[j].args[n])
    BY DEF UndecidableRead
  <2>3. ASSUME depth > 1
        PROVE  ReadsCovered(prog, encl[1].at, encl[depth].at)
    <3>1. 1 \in 1..depth /\ depth \in 1..depth /\ 1 < depth
      BY <1>1, <2>3
    <3>2. encl[1].at \in Ifs(prog) /\ encl[depth].at \in Ifs(prog) \cap Inside(prog, encl[1].at)
      BY <1>1, <3>1, EnclInside
    <3> QED BY <1>1, <3>2 DEF Hyp, Supported
  <2>4. depth > 1 =>
           \/ prog[j].args[n] \in Scanned(prog, encl[1].at, encl[depth].at)
           \/ \A w \in Scanned(prog, encl[1].at, encl[1].at) : ~MayAlias(w, prog[j].args[n])
    BY <1>1, <2>3 DEF ReadsCovered
  <2> QED BY <2>1, <2>2, <2>4, ReadAgrees
<1> QED BY <1>3 DEF Rendered, SourceVal

LEMMA HereAgrees ==
    ASSUME IInv, Running, Ready
    PROVE  /\ Rendered(Here) = SourceVal(Here)
           /\ Direct => /\ Rendered(prog[pc+1]) = SourceVal(prog[pc+1])
                        /\ Rendered(prog[pc+2]) = SourceVal(prog[pc+2])
<1>1. TypeOK /\ ControlOK /\ InArm /\ pc \in DOMAIN prog /\ depth \in Nat
  BY HereType DEF IInv, TypeOK, ControlOK, Ready
<1>2. depth > 0 => pc \in Inside(prog, encl[depth].at)
  BY <1>1, PcInside
<1>3. ~UndecidableRead(Here)
  BY DEF Ready, Refused
<1>4. Rendered(Here) = SourceVal(Here)
  BY <1>1, <1>2, <1>3, RenderedAgrees DEF Here
<1>5. ASSUME Direct PROVE /\ Rendered(prog[pc+1]) = SourceVal(prog[pc+1])
                          /\ Rendered(prog[pc+2]) = SourceVal(prog[pc+2])
  <2>1. Here.op = "if" /\ DirectShape(prog, Outermost, pc)
        /\ ~UndecidableRead(prog[pc+1]) /\ ~UndecidableRead(prog[pc+2])
    BY <1>5 DEF Direct, Ready, Refused
  <2>2. /\ pc+1 \in DOMAIN prog /\ pc+2 \in DOMAIN prog
        /\ pc+1 \in Inside(prog, pc) /\ pc+2 \in Inside(prog, pc)
    BY <1>1, <2>1, DirectArms
  <2>3. depth > 0 => /\ pc+1 \in Inside(prog, encl[depth].at)
                     /\ pc+2 \in Inside(prog, encl[depth].at)
    BY <1>1, <2>1, <2>2, PcInside
  <2> QED BY <2>1, <2>2, <2>3, RenderedAgrees
<1> QED BY <1>4, <1>5

-----------------------------------------------------------------------------
(* The steps                                                               *)

\* outside every encrypted if both sides write the same place alike
LEMMA PlainStep ==
    ASSUME IInv, depth = 0, depth' = 0, NEW c \in Cell, NEW v \in Val,
           mem' = [mem EXCEPT ![c] = v], store' = [store EXCEPT ![c] = v]
    PROVE  BranchInv'
<1>1. \A d \in Cell : mem[d] = store[d]
  BY DEF IInv, BranchInv, RestAgrees
<1>2. \A d \in Cell : mem'[d] = store'[d]
  BY <1>1 DEF IInv, TypeOK
<1>3. \A i \in 1..0 : FALSE
  OBVIOUS
<1> QED BY <1>2, <1>3 DEF BranchInv, WritesDecided, CondsAgree, PresHold,
                          ViewsAgree, SkippedAgree, RestAgrees

\* a fresh version of a location, when the source writes it in the same step
LEMMA VersionStep ==
    ASSUME IInv, depth > 0, NEW K \in W(depth), NEW v \in Val, NEW ks,
           frames' = Version(K, v, ks), store' = store,
           UNCHANGED <<prog, cell, depth, encl, cond>>,
           mem' = IF Running THEN [mem EXCEPT ![cell[K.lv]] = v] ELSE mem
    PROVE  BranchInv'
<1>1. /\ TypeOK /\ Hyp /\ BranchInv /\ depth \in Nat /\ depth \in 1..depth /\ 1 \in 1..depth
      /\ DOMAIN frames = 1..depth /\ mem \in [Cell -> Val]
  BY DEF IInv, TypeOK, ControlOK
<1>2. \A i \in 1..depth : frames[i].writes = W(i) /\ W(i) \subseteq W(1) /\ W(depth) \subseteq W(i)
  BY <1>1, FrameFacts, NestedWrites
<1> DEFINE f == frames[depth]
           g == [f EXCEPT !.cur   = [f.cur EXCEPT ![K] = v],
                          !.fresh = f.fresh \cup {K},
                          !.used  = f.used \cup ks]
<1>3. /\ \A i \in 1..depth : i # depth => frames'[i] = frames[i]
      /\ \A i \in 1..depth : /\ frames'[i].writes = W(i) /\ frames'[i].pre = frames[i].pre
                             /\ frames'[i].thn = frames[i].thn /\ frames'[i].cond = frames[i].cond
      /\ \A k \in W(depth) : frames'[depth].cur[k] = IF k = K THEN v ELSE frames[depth].cur[k]
  <2>1. frames' = [frames EXCEPT ![depth] = g]
    BY DEF Version
  <2>2. \A i \in 1..depth : frames'[i] = IF i = depth THEN g ELSE frames[i]
    <3> HIDE DEF g
    <3> QED BY <1>1, <2>1
  <2>3. FrameOK(f, W(depth))
    BY <1>1, FrameFacts
  <2>4. /\ g.writes = f.writes /\ g.pre = f.pre /\ g.thn = f.thn /\ g.cond = f.cond
        /\ \A k \in W(depth) : g.cur[k] = IF k = K THEN v ELSE f.cur[k]
    BY <2>3 DEF FrameOK
  <2> HIDE DEF g
  <2> QED BY <1>1, <1>2, <2>2, <2>4
<1>4. ASSUME NEW k \in W(1), k # K PROVE mem'[cell[k.lv]] = mem[cell[k.lv]]
  <2>1. cell[k.lv] # cell[K.lv]
    BY <1>1, <1>2, <1>4, DistinctCells DEF BranchInv
  <2> QED BY <1>1, <2>1, FrameFacts
<1>5. \A i \in 1..depth : W(i)' = W(i)
  BY DEF W
<1>7. Running <=> Taken(depth)
  BY DEF Running, Taken
<1>8. WritesDecided'
  BY <1>1 DEF BranchInv, WritesDecided
<1>9. CondsAgree'
  BY <1>1, <1>3 DEF BranchInv, CondsAgree, Taken, Selected
<1>10. PresHold'
  <2> SUFFICES ASSUME NEW i \in 1..depth, NEW k \in W(i)
               PROVE  IF i = 1 THEN frames'[i].pre[k] = store[cell[k.lv]]
                      ELSE k \in frames'[i-1].writes /\ frames'[i].pre[k] = frames'[i-1].cur[k]
    BY <1>3, <1>5 DEF PresHold
  <2>1. IF i = 1 THEN frames[i].pre[k] = store[cell[k.lv]]
        ELSE k \in frames[i-1].writes /\ frames[i].pre[k] = frames[i-1].cur[k]
    BY <1>1, <1>2 DEF BranchInv, PresHold
  <2>2. i # 1 => i-1 \in 1..depth /\ i-1 # depth
    BY <1>1
  <2> QED BY <1>2, <1>3, <2>1, <2>2
<1>11. ViewsAgree'
  <2> SUFFICES ASSUME NEW i \in 1..depth, Taken(i), NEW k \in W(i),
                      i < depth => k \notin W(i+1)
               PROVE  mem'[cell[k.lv]] = frames'[i].cur[k]
    <3>1. \A i \in 1..depth : i < depth => i+1 \in 1..depth
      BY <1>1
    <3> QED BY <1>3, <1>5, <3>1 DEF ViewsAgree, Taken, Selected
  <2>1. mem[cell[k.lv]] = frames[i].cur[k]
    <3>1. i < depth => i+1 \in 1..depth
      BY <1>1
    <3> QED BY <1>1, <1>2, <3>1 DEF BranchInv, ViewsAgree
  <2>2. k \in W(1)
    BY <1>2
  <2>3. CASE i = depth
    <3>1. CASE k = K
      BY <1>1, <1>3, <1>7, <2>3, <3>1, FrameFacts
    <3>2. CASE k # K
      BY <1>3, <1>4, <2>1, <2>2, <2>3, <3>2
    <3> QED BY <3>1, <3>2
  <2>4. CASE i # depth
    <3>1. i+1 \in 1..depth /\ i < depth
      BY <1>1, <2>4
    <3>2. k # K
      BY <1>2, <3>1
    <3> QED BY <1>3, <1>4, <2>1, <2>2, <2>4, <3>2
  <2> QED BY <2>3, <2>4
<1>12. SkippedAgree'
  <2> SUFFICES ASSUME NEW i \in 1..depth, Taken(i-1), ~Selected(i), NEW k \in W(i)
               PROVE  mem'[cell[k.lv]] = IF encl[i].arm = "else" THEN frames[i].thn[k]
                                                                 ELSE frames[i].pre[k]
    BY <1>3, <1>5 DEF SkippedAgree, Taken, Selected
  <2>1. ~Running
    BY DEF Running
  <2> QED BY <1>1, <1>2, <2>1 DEF BranchInv, SkippedAgree
<1>13. RestAgrees'
  <2> SUFFICES ASSUME NEW c \in Cell, \A k \in W(1) : cell[k.lv] # c
               PROVE  mem'[c] = store[c]
    BY <1>1, <1>3, <1>5 DEF RestAgrees
  <2>1. mem[c] = store[c]
    BY <1>1, <1>2 DEF BranchInv, RestAgrees
  <2>2. cell[K.lv] # c
    BY <1>2, <1>1
  <2> QED BY <1>1, <2>1, <2>2
<1> QED BY <1>8, <1>9, <1>10, <1>11, <1>12, <1>13 DEF BranchInv

\* nothing the invariant speaks of changes
LEMMA SameInv ==
    ASSUME BranchInv, UNCHANGED <<prog, cell, depth, encl, cond, mem, store, frames>>
    PROVE  BranchInv'
BY DEF BranchInv, WritesDecided, CondsAgree, PresHold, ViewsAgree, SkippedAgree,
       RestAgrees, Taken, Selected

\* nothing is declared in an encrypted if
LEMMA NoLocalHere ==
    ASSUME IInv, InArm, depth > 0
    PROVE  Here.op # "decl" /\ \A l : ~BranchLocal(prog, Outermost, l)
<1>0. TypeOK /\ Hyp /\ depth \in Nat
  BY DEF IInv, TypeOK, ControlOK
<1>1. TypeOK /\ Hyp /\ 1 \in 1..depth /\ Outermost = encl[1].at
  BY <1>0 DEF Outermost
<1>2. encl[1].at \in Ifs(prog) /\ pc \in Inside(prog, encl[1].at)
  BY <1>1, PcInside
<1> QED BY <1>1, <1>2 DEF Hyp, Supported, NoBranchLocals, BranchLocal, Here

LEMMA AssignInv == ASSUME IInv, Assign PROVE BranchInv'
<1>1. TypeOK /\ InArm /\ Ready /\ depth \in Nat /\ SourceAssign
      /\ cell[Here.lv] \in Cell /\ Rendered(Here) \in Val
      /\ prog' = prog /\ cell' = cell /\ depth' = depth /\ encl' = encl /\ cond' = cond
  BY HereType, ValTypes DEF IInv, TypeOK, ControlOK, Assign, AssignPlain, AssignVersion,
        AssignLocal, Ready, SourceAssign, Advance
<1>2. CASE AssignPlain
  <2>1. depth = 0 /\ Running /\ Writes(Here)
    BY <1>2 DEF AssignPlain, Running, Writes
  <2>2. Rendered(Here) = SourceVal(Here)
    BY <1>1, <2>1, HereAgrees
  <2>3. /\ mem' = [mem EXCEPT ![cell[Here.lv]] = Rendered(Here)]
        /\ store' = [store EXCEPT ![cell[Here.lv]] = Rendered(Here)]
    BY <1>1, <1>2, <2>1, <2>2 DEF AssignPlain, SourceAssign, Store
  <2> QED BY <1>1, <2>1, <2>3, PlainStep
<1>3. CASE AssignVersion
  <2>1. depth > 0 /\ depth \in 1..depth /\ Here.op = "set" /\ Writes(Here)
    BY <1>1, <1>3 DEF AssignVersion, Writes
  <2>2. Versioned(Here.lv)
    BY <1>3 DEF AssignVersion, Ready, Refused
  <2> DEFINE K == Key(Here.lv)
  <2>3. K \in W(depth) /\ K.lv = Here.lv
    BY <1>1, <2>1, <2>2, FrameFacts DEF Versioned, Key, LocKey
  <2>4. mem' = IF Running THEN [mem EXCEPT ![cell[K.lv]] = Rendered(Here)] ELSE mem
    BY <1>1, <2>1, <2>3, HereAgrees DEF SourceAssign
  <2>5. frames' = Version(K, Rendered(Here), PreOf(Here)) /\ store' = store
    BY <1>3 DEF AssignVersion
  <2> HIDE DEF K
  <2> QED BY <1>1, <2>1, <2>3, <2>4, <2>5, VersionStep
<1>4. CASE AssignLocal
  BY <1>1, <1>4, NoLocalHere DEF AssignLocal
<1> QED BY <1>2, <1>3, <1>4 DEF Assign

LEMMA PointInv == ASSUME IInv, Point PROVE BranchInv'
<1>1. ~Writes(Here)
  BY DEF Point, DeclarePointer, Writes
<1> QED BY <1>1, SameInv DEF IInv, Point, DeclarePointer, SourceAssign, Advance

LEMMA ChooseInv == ASSUME IInv, Choose PROVE BranchInv'
<1> DEFINE s   == prog[pc+1]
           e   == prog[pc+2]
           v   == IF Rendered(Here) = TrueVal THEN Rendered(s) ELSE Rendered(e)
           arm == IF SourceVal(Here) = TrueVal THEN s ELSE e
           ks  == PreOf(Here) \cup PreOf(s) \cup PreOf(e)
<1>1. /\ TypeOK /\ ControlOK /\ InArm /\ Ready /\ Direct /\ depth \in Nat
      /\ Here.op = "if" /\ DirectShape(prog, Outermost, pc)
      /\ UNCHANGED <<prog, cell, depth, encl, cond>>
      /\ mem' = IF Running THEN [mem EXCEPT ![cell[arm.lv]] = SourceVal(arm)] ELSE mem
  BY DEF IInv, TypeOK, ControlOK, Choose, DirectSelect, Ready, Direct, SourceChoose, JumpOver
<1>2. /\ s.lv = e.lv /\ s.op = "set" /\ ~BranchLocal(prog, Outermost, s.lv)
      /\ pc+1 \in Inside(prog, pc) /\ s.lv \in LValue /\ cell[s.lv] \in Cell
      /\ s.fn \in Fn /\ e.fn \in Fn
      /\ s.args \in [1..Arity -> LValue] /\ e.args \in [1..Arity -> LValue]
  BY <1>1, DirectArms DEF DirectShape, ControlOK
<1>3. v \in Val
  BY <1>1, <1>2, ValTypes
<1>4. Running => SourceVal(arm) = v
  <2>1. ASSUME Running
        PROVE  /\ Rendered(Here) = SourceVal(Here)
               /\ Rendered(s) = SourceVal(s) /\ Rendered(e) = SourceVal(e)
    BY <1>1, <2>1, HereAgrees
  <2> QED BY <2>1
<1>5. mem' = IF Running THEN [mem EXCEPT ![cell[s.lv]] = v] ELSE mem
  BY <1>1, <1>2, <1>4
<1>6. CASE depth = 0
  <2>1. ~Versioned(s.lv) /\ Running
    BY <1>6 DEF Versioned, Running
  <2>2. store' = [store EXCEPT ![cell[s.lv]] = v]
    BY <2>1 DEF Choose, DirectSelect, Store
  <2> HIDE DEF v
  <2> QED BY <1>1, <1>2, <1>3, <1>5, <1>6, <2>1, <2>2, PlainStep
<1>7. CASE depth > 0
  <2> DEFINE K == Key(s.lv)
  <2>1. depth \in 1..depth /\ pc+1 \in Inside(prog, encl[depth].at) /\ Outermost = encl[1].at
    BY <1>1, <1>2, <1>7, PcInside DEF Outermost
  <2>2. s.lv \in Scanned(prog, encl[1].at, encl[depth].at)
    BY <1>2, <2>1 DEF Scanned
  <2>3. K \in W(depth) /\ K.lv = s.lv /\ Versioned(s.lv)
    <3>1. K \in W(depth) /\ K.lv = s.lv
      BY <1>1, <2>1, <2>2, KeyFacts DEF Key
    <3>2. frames[depth].writes = W(depth)
      BY <1>1, <2>1, FrameFacts
    <3> QED BY <1>7, <3>1, <3>2 DEF Versioned
  <2>4. frames' = Version(K, v, ks) /\ store' = store
    BY <2>3 DEF Choose, DirectSelect
  <2>5. mem' = IF Running THEN [mem EXCEPT ![cell[K.lv]] = v] ELSE mem
    BY <1>5, <2>3
  <2> HIDE DEF K, v, ks
  <2> QED BY <1>1, <1>3, <1>7, <2>3, <2>4, <2>5, VersionStep
<1> QED BY <1>1, <1>6, <1>7

LEMMA OpenInv == ASSUME IInv, Open PROVE BranchInv'
<1> DEFINE w     == WriteSet(prog, Outermost, pc)
           pre   == [k \in w |-> ReadKey(k)]
           frame == [cond |-> Rendered(Here) = TrueVal, writes |-> w,
                     pre |-> pre, cur |-> pre, fresh |-> {},
                     thn |-> pre, thnFresh |-> {}, used |-> {}]
           f     == frames[depth]
           incoming == {k \in w : Has(k) /\ k \notin f.fresh}
           ks    == PreOf(Here) \cup incoming
           g     == [f EXCEPT !.used = f.used \cup ks]
           outer == IF depth = 0 THEN frames ELSE [frames EXCEPT ![depth] = g]
<1>1. /\ TypeOK /\ ControlOK /\ Hyp /\ BranchInv /\ InArm /\ Ready /\ depth \in Nat
      /\ Here.op = "if" /\ depth' = depth + 1 /\ prog' = prog /\ cell' = cell
      /\ mem' = mem /\ store' = store
  BY DEF IInv, TypeOK, ControlOK, Open, OpenFrame, SourceOpen, Enter, Ready
<1>2. /\ \A i \in 1..depth : encl'[i] = encl[i] /\ cond'[i] = cond[i]
      /\ encl'[depth+1] = [at |-> pc, arm |-> "then"]
      /\ cond'[depth+1] = (Running /\ SourceVal(Here) = TrueVal)
      /\ encl'[1].at = Outermost
  BY <1>1 DEF Open, OpenFrame, SourceOpen, Enter, Outermost
<1>3. \A i \in 1..depth : /\ outer[i].cond = frames[i].cond /\ outer[i].writes = W(i)
                           /\ outer[i].pre = frames[i].pre /\ outer[i].cur = frames[i].cur
                           /\ outer[i].thn = frames[i].thn
  <2> SUFFICES ASSUME NEW i \in 1..depth
               PROVE  /\ outer[i].cond = frames[i].cond /\ outer[i].writes = W(i)
                      /\ outer[i].pre = frames[i].pre /\ outer[i].cur = frames[i].cur
                      /\ outer[i].thn = frames[i].thn
    OBVIOUS
  <2>1. depth \in 1..depth /\ DOMAIN frames = 1..depth
    BY <1>1 DEF TypeOK
  <2>2. FrameOK(f, W(depth)) /\ frames[i].writes = W(i)
    BY <1>1, <2>1, FrameFacts
  <2>3. /\ g.cond = f.cond /\ g.writes = f.writes /\ g.pre = f.pre
        /\ g.cur = f.cur /\ g.thn = f.thn
    <3> HIDE DEF ks
    <3> QED BY <2>2 DEF FrameOK
  <2>4. outer[i] = IF i = depth THEN g ELSE frames[i]
    <3> HIDE DEF g
    <3> QED BY <2>1
  <2> HIDE DEF g, outer
  <2> QED BY <2>2, <2>3, <2>4
<1>4. /\ \A i \in 1..depth : frames'[i] = outer[i]
      /\ frames'[depth+1] = frame
  <2>1. frames' = [i \in 1..depth+1 |-> IF i <= depth THEN outer[i] ELSE frame]
    BY DEF Open, OpenFrame, Using
  <2> HIDE DEF outer, frame
  <2> QED BY <1>1, <2>1
<1>5. /\ \A i \in 1..depth :
           /\ frames'[i].cond = frames[i].cond /\ frames'[i].writes = W(i)
           /\ frames'[i].pre = frames[i].pre /\ frames'[i].cur = frames[i].cur
           /\ frames'[i].thn = frames[i].thn
      /\ frames'[depth+1].cond = (Rendered(Here) = TrueVal)
      /\ frames'[depth+1].writes = w
      /\ \A k \in w : /\ frames'[depth+1].pre[k] = ReadKey(k)
                       /\ frames'[depth+1].cur[k] = ReadKey(k)
  <2> HIDE DEF outer
  <2> QED BY <1>3, <1>4
<1>6. \A k \in w : depth > 0 => k \in W(depth) /\ Has(k) /\ ReadKey(k) = frames[depth].cur[k]
  <2> SUFFICES ASSUME NEW k \in w, depth > 0
               PROVE  k \in W(depth) /\ Has(k) /\ ReadKey(k) = frames[depth].cur[k]
    OBVIOUS
  <2>1. k \in W(depth) /\ depth \in 1..depth
    BY <1>1, OpenedWrites
  <2>2. frames[depth].writes = W(depth)
    BY <1>1, <2>1, FrameFacts
  <2> QED BY <2>1, <2>2 DEF Has, ReadKey
<1>7. ASSUME NEW k \in w, Running PROVE mem[cell[k.lv]] = ReadKey(k)
  <2>1. CASE depth = 0
    <3>1. cell[k.lv] \in Cell
      BY <1>1, WriteSetType, HereType DEF ControlOK
    <3> QED BY <1>1, <2>1, <3>1 DEF ReadKey, Has, BranchInv, RestAgrees
  <2>2. CASE depth > 0
    <3>1. Taken(depth) /\ depth \in 1..depth /\ frames[depth].writes = W(depth)
      BY <1>1, <1>7, <2>2, FrameFacts DEF Running, Taken
    <3> QED BY <1>1, <1>6, <2>2, <3>1 DEF BranchInv, ViewsAgree
  <2> QED BY <1>1, <2>1, <2>2
<1> HIDE DEF w, pre, frame, f, incoming, ks, g, outer
<1>8. \A i \in 1..depth+1 : i \in 1..depth \/ i = depth+1
  BY <1>1
<1>9. \A i \in 1..depth : frames[i].writes = W(i)
  BY <1>1, FrameFacts
<1>10. ASSUME NEW i \in 1..depth+1
       PROVE  /\ Taken(i-1)' <=> (\A j \in 1..i-1 : Selected(j))
              /\ i \in 1..depth => (Taken(i)' <=> Taken(i))
              /\ i \in 1..depth => (Selected(i)' <=> Selected(i))
  <2>1. \A j \in 1..i-1 : j \in 1..depth
    BY <1>1
  <2>2. i \in 1..depth => \A j \in 1..i : j \in 1..depth
    BY <1>1
  <2> QED BY <1>2, <2>1, <2>2 DEF Taken, Selected
<1>11. WritesDecided'
  <2>1. CASE depth = 0
    <3>1. ~UndecidableWrites(prog, Outermost, pc) /\ Outermost = pc
      BY <1>1, <2>1 DEF Open, OpenFrame, Ready, Refused, Outermost
    <3> QED BY <1>1, <1>2, <2>1, <3>1 DEF WritesDecided
  <2>2. CASE depth > 0
    BY <1>1, <1>2, <2>2 DEF BranchInv, WritesDecided, Outermost
  <2> QED BY <1>1, <2>1, <2>2
<1>12. CondsAgree'
  <2> SUFFICES ASSUME NEW i \in 1..depth+1, \A j \in 1..i-1 : Selected(j)
               PROVE  frames'[i].cond <=> cond'[i]
    BY <1>1, <1>10 DEF CondsAgree
  <2>1. CASE i \in 1..depth
    BY <1>1, <1>2, <1>5, <2>1 DEF BranchInv, CondsAgree, Taken
  <2>2. CASE i = depth+1
    <3>1. Running
      BY <1>1, <2>2 DEF Running
    <3> QED BY <1>1, <1>2, <1>5, <2>2, <3>1, HereAgrees
  <2> QED BY <1>8, <2>1, <2>2
<1>13. PresHold'
  <2> SUFFICES ASSUME NEW i \in 1..depth+1, NEW k \in frames'[i].writes
               PROVE  IF i = 1 THEN frames'[i].pre[k] = store[cell[k.lv]]
                      ELSE /\ k \in frames'[i-1].writes
                           /\ frames'[i].pre[k] = frames'[i-1].cur[k]
    BY <1>1 DEF PresHold
  <2>1. CASE i \in 1..depth
    <3>1. i # 1 => i-1 \in 1..depth
      BY <1>1, <2>1
    <3> QED BY <1>1, <1>5, <1>9, <2>1, <3>1 DEF BranchInv, PresHold
  <2>2. CASE i = depth+1
    <3>1. CASE depth = 0
      BY <1>5, <2>2, <3>1 DEF ReadKey, Has
    <3>2. CASE depth > 0
      <4>1. i - 1 = depth /\ i # 1 /\ depth \in 1..depth /\ k \in w
        BY <1>1, <1>5, <2>2, <3>2
      <4> QED BY <1>5, <1>6, <2>2, <3>2, <4>1
    <3> QED BY <1>1, <3>1, <3>2
  <2> QED BY <1>8, <2>1, <2>2
<1>14. ViewsAgree'
  <2> SUFFICES ASSUME NEW i \in 1..depth+1, Taken(i)', NEW k \in frames'[i].writes,
                      i < depth+1 => k \notin frames'[i+1].writes
               PROVE  mem[cell[k.lv]] = frames'[i].cur[k]
    BY <1>1 DEF ViewsAgree
  <2>1. CASE i \in 1..depth
    <3>1. Taken(i)
      BY <1>10, <2>1
    <3>2. i < depth => k \notin frames[i+1].writes
      <4>1. i < depth => i+1 \in 1..depth
        BY <1>1, <2>1
      <4> QED BY <1>1, <1>5, <1>9, <4>1, <2>1
    <3> QED BY <1>1, <1>5, <1>9, <2>1, <3>1, <3>2 DEF BranchInv, ViewsAgree
  <2>2. CASE i = depth+1
    <3>1. Running
      BY <1>1, <1>2, <2>2 DEF Taken, Selected, Running
    <3> QED BY <1>5, <1>7, <2>2, <3>1
  <2> QED BY <1>8, <2>1, <2>2
<1>15. SkippedAgree'
  <2> SUFFICES ASSUME NEW i \in 1..depth+1, Taken(i-1)', ~Selected(i)',
                      NEW k \in frames'[i].writes
               PROVE  mem[cell[k.lv]] = IF encl'[i].arm = "else" THEN frames'[i].thn[k]
                                                                 ELSE frames'[i].pre[k]
    BY <1>1 DEF SkippedAgree
  <2>1. CASE i \in 1..depth
    <3>1. Taken(i-1) /\ ~Selected(i)
      BY <1>10, <2>1 DEF Taken
    <3> QED BY <1>1, <1>2, <1>5, <1>9, <2>1, <3>1 DEF BranchInv, SkippedAgree
  <2>2. CASE i = depth+1
    <3>1. Running
      BY <1>1, <1>10, <2>2 DEF Running
    <3> QED BY <1>2, <1>5, <1>7, <2>2, <3>1
  <2> QED BY <1>8, <2>1, <2>2
<1>16. RestAgrees'
  <2> SUFFICES ASSUME NEW c \in Cell, \A k \in frames'[1].writes : cell[k.lv] # c
               PROVE  mem[c] = store[c]
    BY <1>1 DEF RestAgrees
  <2>1. depth > 0 => frames'[1].writes = frames[1].writes
    BY <1>1, <1>5, <1>9
  <2> QED BY <1>1, <2>1 DEF BranchInv, RestAgrees
<1> QED BY <1>11, <1>12, <1>13, <1>14, <1>15, <1>16 DEF BranchInv

LEMMA ElseInv == ASSUME IInv, Else PROVE BranchInv'
<1> DEFINE f == frames[depth]
           g == [f EXCEPT !.thn = f.cur, !.thnFresh = f.fresh,
                          !.cur = f.pre, !.fresh    = {}]
<1>1. /\ TypeOK /\ BranchInv /\ depth \in Nat /\ depth \in 1..depth
      /\ encl[depth].arm = "then"
      /\ UNCHANGED <<prog, cell, depth, mem, cond, store>>
      /\ DOMAIN frames = 1..depth
  BY DEF IInv, TypeOK, ControlOK, Else, TurnFrame, Turn, AtElse, SourceElse
<1>2. /\ \A i \in 1..depth : i # depth => encl'[i] = encl[i]
      /\ \A i \in 1..depth : encl'[i].at = encl[i].at
      /\ encl'[depth].arm = "else"
  BY <1>1 DEF Else, TurnFrame, Turn, TypeOK, ControlOK
<1>3. \A i \in 1..depth : frames[i].writes = W(i)
  BY <1>1, FrameFacts
<1>4. /\ \A i \in 1..depth : i # depth => frames'[i] = frames[i]
      /\ \A i \in 1..depth : /\ frames'[i].writes = frames[i].writes
                             /\ frames'[i].pre = frames[i].pre
                             /\ frames'[i].cond = frames[i].cond
      /\ frames'[depth].thn = frames[depth].cur /\ frames'[depth].cur = frames[depth].pre
  <2>1. frames' = [frames EXCEPT ![depth] = g]
    BY DEF Else, TurnFrame
  <2>2. /\ g.writes = f.writes /\ g.pre = f.pre /\ g.cond = f.cond
        /\ g.thn = f.cur /\ g.cur = f.pre
    BY <1>1, FrameFacts DEF FrameOK
  <2> HIDE DEF g
  <2> QED BY <1>1, <2>1, <2>2
<1>5. \A i \in 1..depth : /\ i-1 < depth
                          /\ \A j \in 1..i-1 : j \in 1..depth /\ j # depth
                          /\ i # 1 => i-1 \in 1..depth /\ i-1 # depth
                          /\ i # depth => \A j \in 1..i : j \in 1..depth /\ j # depth
                          /\ i # depth => i+1 \in 1..depth /\ i < depth
  BY <1>1
<1>6. ASSUME NEW i \in 1..depth
      PROVE  /\ Taken(i-1)' <=> Taken(i-1)
             /\ i # depth => (Taken(i)' <=> Taken(i)) /\ (Selected(i)' <=> Selected(i))
  BY <1>1, <1>2, <1>5 DEF Taken, Selected
<1>7. WritesDecided'
  BY <1>1, <1>2 DEF BranchInv, WritesDecided
<1>8. CondsAgree'
  <2> SUFFICES ASSUME NEW i \in 1..depth, Taken(i-1)' PROVE frames'[i].cond <=> cond[i]
    BY <1>1 DEF CondsAgree
  <2> QED BY <1>1, <1>4, <1>6 DEF BranchInv, CondsAgree
<1>9. PresHold'
  <2> SUFFICES ASSUME NEW i \in 1..depth, NEW k \in frames'[i].writes
               PROVE  IF i = 1 THEN frames'[i].pre[k] = store[cell[k.lv]]
                      ELSE /\ k \in frames'[i-1].writes
                           /\ frames'[i].pre[k] = frames'[i-1].cur[k]
    BY <1>1 DEF PresHold
  <2>1. PresHold /\ k \in frames[i].writes /\ frames'[i].pre = frames[i].pre
    BY <1>1, <1>4 DEF BranchInv
  <2>2. CASE i = 1
    BY <2>1, <2>2 DEF PresHold
  <2>3. CASE i # 1
    <3>1. /\ i-1 \in 1..depth /\ i-1 # depth
          /\ k \in frames[i-1].writes /\ frames[i].pre[k] = frames[i-1].cur[k]
      BY <1>5, <2>1, <2>3 DEF PresHold
    <3>2. frames'[i-1].writes = frames[i-1].writes /\ frames'[i-1].cur = frames[i-1].cur
      BY <1>4, <3>1
    <3> QED BY <2>1, <2>3, <3>1, <3>2
  <2> QED BY <2>2, <2>3
\* the condition went against the then-arm: the else-arm starts from what the
\* location held when the if was reached
<1>10. ViewsAgree'
  <2> SUFFICES ASSUME NEW i \in 1..depth, Taken(i)', NEW k \in frames'[i].writes,
                      i < depth => k \notin frames'[i+1].writes
               PROVE  mem[cell[k.lv]] = frames'[i].cur[k]
    BY <1>1 DEF ViewsAgree
  <2>1. CASE i # depth
    BY <1>1, <1>4, <1>5, <1>6, <2>1 DEF BranchInv, ViewsAgree
  <2>2. CASE i = depth
    <3>1. Taken(i-1)' /\ Selected(i)'
      <4>1. \A j \in 1..i-1 : j \in 1..i
        BY <1>1
      <4> QED BY <1>1, <2>2, <4>1 DEF Taken
    <3>2. Taken(i-1) /\ ~Selected(i)
      BY <1>1, <1>2, <1>6, <2>2, <3>1 DEF Selected
    <3> QED BY <1>1, <1>4, <2>2, <3>2 DEF BranchInv, SkippedAgree
  <2> QED BY <2>1, <2>2
\* it went for it: the location holds what the then-arm left
<1>11. SkippedAgree'
  <2> SUFFICES ASSUME NEW i \in 1..depth, Taken(i-1)', ~Selected(i)',
                      NEW k \in frames'[i].writes
               PROVE  mem[cell[k.lv]] = IF encl'[i].arm = "else" THEN frames'[i].thn[k]
                                                                 ELSE frames'[i].pre[k]
    BY <1>1 DEF SkippedAgree
  <2>1. CASE i # depth
    BY <1>1, <1>2, <1>4, <1>6, <2>1 DEF BranchInv, SkippedAgree
  <2>2. CASE i = depth
    <3>1. Selected(i) /\ Taken(i-1)
      BY <1>1, <1>2, <1>6, <2>2 DEF Selected, TypeOK
    <3>2. Taken(i)
      <4>1. \A j \in 1..i : j \in 1..i-1 \/ j = i
        BY <1>1
      <4> QED BY <3>1, <4>1 DEF Taken
    <3> QED BY <1>1, <1>2, <1>4, <2>2, <3>2 DEF BranchInv, ViewsAgree
  <2> QED BY <2>1, <2>2
<1>12. RestAgrees'
  BY <1>1, <1>4 DEF BranchInv, RestAgrees
<1> QED BY <1>7, <1>8, <1>9, <1>10, <1>11, <1>12 DEF BranchInv

\* what an if whose arms are both rendered selects is what the source has
LEMMA SelectAgrees ==
    ASSUME IInv, Merge, Taken(depth-1), NEW k \in W(depth)
    PROVE  SelectOf(frames[depth], k) = mem[cell[k.lv]]
<1>1. /\ TypeOK /\ BranchInv /\ depth \in Nat /\ depth \in 1..depth
      /\ encl[depth].arm = "else" /\ cond[depth] \in BOOLEAN
  BY DEF IInv, TypeOK, ControlOK, Merge, MergeFrame, Leave, AtEnd
<1>2. frames[depth].writes = W(depth) /\ (frames[depth].cond <=> cond[depth])
  BY <1>1, FrameFacts DEF BranchInv, CondsAgree
<1>3. CASE cond[depth]
  <2>1. ~Selected(depth)
    BY <1>1, <1>3 DEF Selected
  <2> QED BY <1>1, <1>2, <1>3, <2>1 DEF BranchInv, SkippedAgree, SelectOf
<1>4. CASE ~cond[depth]
  <2>1. Selected(depth)
    BY <1>1, <1>4 DEF Selected
  <2>2. \A j \in 1..depth : j \in 1..depth-1 \/ j = depth
    BY <1>1
  <2>3. Taken(depth)
    BY <2>1, <2>2 DEF Taken
  <2> QED BY <1>1, <1>2, <1>4, <2>3 DEF BranchInv, ViewsAgree, SelectOf
<1> QED BY <1>3, <1>4

\* a nested if merges into versions of the if around it
LEMMA NestedMergeInv == ASSUME IInv, Merge, depth > 1 PROVE BranchInv'
<1> DEFINE f      == frames[depth]
           o      == frames[depth-1]
           up     == f.writes \cap o.writes
           direct == f.writes \ up
           g      == [o EXCEPT !.cur   = [k \in o.writes |-> IF k \in up THEN SelectOf(f, k)
                                                              ELSE o.cur[k]],
                               !.fresh = o.fresh \cup up]
<1>1. /\ TypeOK /\ Hyp /\ BranchInv /\ depth \in Nat
      /\ depth \in 1..depth /\ depth-1 \in 1..depth /\ depth-1 \in 1..depth-1 /\ 1 \in 1..depth
      /\ depth' = depth-1 /\ UNCHANGED <<prog, cell, mem>>
      /\ store \in [Cell -> Val]
  BY DEF IInv, TypeOK, ControlOK, Merge, MergeFrame, Leave, SourceClose
<1>2. \A i \in 1..depth-1 : i \in 1..depth /\ encl'[i] = encl[i] /\ cond'[i] = cond[i]
  BY <1>1 DEF Merge, MergeFrame, Leave, SourceClose
<1>3. \A i \in 1..depth : frames[i].writes = W(i)
  BY <1>1, FrameFacts
<1>4. W(depth) \subseteq W(depth-1) /\ up = W(depth) /\ direct = {}
  <2>1. W(depth) \subseteq W(depth-1)
    BY <1>1, NestedWrites
  <2> QED BY <1>1, <1>3, <2>1
<1>5. store' = store
  <2>1. store' = Merged(f, direct)
    BY DEF Merge, MergeFrame
  <2>2. \A c \in Cell : Merged(f, direct)[c] = store[c]
    <3> HIDE DEF direct, f
    <3> QED BY <1>4 DEF Merged
  <2>3. DOMAIN Merged(f, direct) = Cell
    BY DEF Merged
  <2>4. Merged(f, direct) = [c \in Cell |-> Merged(f, direct)[c]]
    BY DEF Merged
  <2> HIDE DEF direct, f
  <2> QED BY <1>1, <2>1, <2>2, <2>4
<1>6. /\ \A i \in 1..depth-1 : i # depth-1 => frames'[i] = frames[i]
      /\ \A i \in 1..depth-1 : /\ frames'[i].writes = W(i)
                               /\ frames'[i].pre = frames[i].pre
                               /\ frames'[i].thn = frames[i].thn
                               /\ frames'[i].cond = frames[i].cond
      /\ \A k \in W(depth-1) :
            frames'[depth-1].cur[k] = IF k \in W(depth) THEN SelectOf(f, k)
                                                        ELSE frames[depth-1].cur[k]
  <2>1. frames' = [i \in 1..depth-1 |-> IF i = depth-1 THEN g ELSE frames[i]]
    BY DEF Merge, MergeFrame, Merging
  <2>2. FrameOK(o, W(depth-1))
    BY <1>1, FrameFacts
  <2>3. /\ g.writes = o.writes /\ g.pre = o.pre /\ g.thn = o.thn /\ g.cond = o.cond
        /\ \A k \in W(depth-1) : g.cur[k] = IF k \in W(depth) THEN SelectOf(f, k) ELSE o.cur[k]
    <3> HIDE DEF f, up
    <3> QED BY <1>4, <2>2 DEF FrameOK
  <2> HIDE DEF g
  <2> QED BY <1>1, <1>2, <1>3, <2>1, <2>3
<1> HIDE DEF f, o, up, direct, g
<1>7. \A i \in 1..depth-1 : /\ \A j \in 1..i-1 : j \in 1..depth-1
                            /\ \A j \in 1..i : j \in 1..depth-1
                            /\ i # 1 => i-1 \in 1..depth-1 /\ i-1 # depth-1
                            /\ i # depth-1 => i+1 \in 1..depth-1 /\ i < depth /\ i < depth-1
  BY <1>1
<1>8. ASSUME NEW i \in 1..depth-1
      PROVE  /\ (\A j \in 1..i-1 : cond'[j] = (encl'[j].arm = "then")) => Taken(i-1)
             /\ (\A j \in 1..i : cond'[j] = (encl'[j].arm = "then")) => Taken(i)
             /\ cond'[i] # (encl'[i].arm = "then") => ~Selected(i)
  BY <1>2, <1>7 DEF Taken, Selected
<1>9. WritesDecided'
  BY <1>1, <1>2, <1>7 DEF BranchInv, WritesDecided
<1>10. CondsAgree'
  <2> SUFFICES ASSUME NEW i \in 1..depth-1,
                      \A j \in 1..i-1 : cond'[j] = (encl'[j].arm = "then")
               PROVE  frames'[i].cond <=> cond'[i]
    BY <1>1 DEF CondsAgree, Taken, Selected
  <2> QED BY <1>1, <1>2, <1>6, <1>8 DEF BranchInv, CondsAgree
<1>11. PresHold'
  <2> SUFFICES ASSUME NEW i \in 1..depth-1, NEW k \in frames'[i].writes
               PROVE  IF i = 1 THEN frames'[i].pre[k] = store[cell[k.lv]]
                      ELSE /\ k \in frames'[i-1].writes
                           /\ frames'[i].pre[k] = frames'[i-1].cur[k]
    BY <1>1, <1>5 DEF PresHold
  <2>1. IF i = 1 THEN frames[i].pre[k] = store[cell[k.lv]]
        ELSE k \in frames[i-1].writes /\ frames[i].pre[k] = frames[i-1].cur[k]
    BY <1>1, <1>2, <1>3, <1>6 DEF BranchInv, PresHold
  <2> QED BY <1>2, <1>3, <1>6, <1>7, <2>1
<1>12. ViewsAgree'
  <2> SUFFICES ASSUME NEW i \in 1..depth-1,
                      \A j \in 1..i : cond'[j] = (encl'[j].arm = "then"),
                      NEW k \in frames'[i].writes,
                      i < depth-1 => k \notin frames'[i+1].writes
               PROVE  mem[cell[k.lv]] = frames'[i].cur[k]
    BY <1>1 DEF ViewsAgree, Taken, Selected
  <2>1. Taken(i) /\ k \in W(i) /\ i \in 1..depth /\ i < depth
    BY <1>1, <1>2, <1>6, <1>8
  <2>2. k \notin W(i+1) => mem[cell[k.lv]] = frames[i].cur[k]
    <3>1. i+1 \in 1..depth
      BY <1>1, <2>1
    <3> QED BY <1>1, <1>3, <2>1, <3>1 DEF BranchInv, ViewsAgree
  <2>3. CASE i # depth-1
    BY <1>6, <1>7, <2>2, <2>3
  <2>4. CASE i = depth-1 /\ k \in W(depth)
    BY <1>1, <1>6, <2>1, <2>4, SelectAgrees DEF f
  <2>5. CASE i = depth-1 /\ k \notin W(depth)
    <3>1. i + 1 = depth
      BY <1>1, <2>5
    <3> QED BY <1>6, <2>1, <2>2, <2>5, <3>1
  <2> QED BY <2>3, <2>4, <2>5
<1>13. SkippedAgree'
  <2> SUFFICES ASSUME NEW i \in 1..depth-1,
                      \A j \in 1..i-1 : cond'[j] = (encl'[j].arm = "then"),
                      cond'[i] # (encl'[i].arm = "then"),
                      NEW k \in frames'[i].writes
               PROVE  mem[cell[k.lv]] = IF encl'[i].arm = "else" THEN frames'[i].thn[k]
                                                                 ELSE frames'[i].pre[k]
    BY <1>1 DEF SkippedAgree, Taken, Selected
  <2> QED BY <1>1, <1>2, <1>3, <1>6, <1>8 DEF BranchInv, SkippedAgree
<1>14. RestAgrees'
  <2> SUFFICES ASSUME NEW c \in Cell, \A k \in W(1) : cell[k.lv] # c PROVE mem[c] = store[c]
    BY <1>1, <1>5, <1>6, <1>7 DEF RestAgrees
  <2> QED BY <1>1, <1>3 DEF BranchInv, RestAgrees
<1> QED BY <1>9, <1>10, <1>11, <1>12, <1>13, <1>14 DEF BranchInv

\* the merges of an outermost if leave in every place what the source has there
LEMMA OuterMergeInv == ASSUME IInv, Merge, depth = 1 PROVE BranchInv'
<1> DEFINE f == frames[depth]
<1>1. /\ TypeOK /\ Hyp /\ BranchInv /\ 1 \in 1..depth /\ depth' = 0
      /\ UNCHANGED <<prog, cell, mem>> /\ f.writes = W(1)
      /\ store' = Merged(f, W(1)) /\ Taken(depth-1)
  <2>1. depth' = depth - 1 /\ 1 \in 1..depth
    BY DEF Merge, MergeFrame, Leave
  <2>2. f.writes = W(1) /\ TypeOK /\ Hyp /\ BranchInv
    BY <2>1, FrameFacts DEF IInv
  <2>3. f.writes \ {} = f.writes
    OBVIOUS
  <2>4. store' = Merged(f, W(1))
    BY <2>2, <2>3 DEF Merge, MergeFrame
  <2> QED BY <2>1, <2>2, <2>4 DEF Merge, MergeFrame, Leave, SourceClose, Taken
<1>2. ASSUME NEW c \in Cell PROVE mem[c] = store'[c]
  <2> DEFINE here == {k \in W(1) : cell[k.lv] = c}
             pos(k) == FirstWrite(prog, encl[depth].at, k.lv)
             last == CHOOSE k \in here : \A j \in here \ {k} : pos(j) < pos(k)
  <2>1. store'[c] = IF here = {} THEN store[c] ELSE SelectOf(f, last)
    BY <1>1 DEF Merged
  <2>2. CASE here = {}
    BY <1>1, <2>1, <2>2 DEF BranchInv, RestAgrees
  <2>3. CASE here # {}
    <3>1. PICK k \in here : TRUE
      BY <2>3
    <3>2. here = {k}
      BY <1>1, <3>1, DistinctCells DEF BranchInv
    <3>3. last = k
      <4>1. here \ {k} = {}
        BY <3>2
      <4> HIDE DEF here, pos
      <4> QED BY <3>2, <4>1
    <3>4. SelectOf(f, k) = mem[cell[k.lv]] /\ cell[k.lv] = c
      BY <1>1, <3>1, SelectAgrees
    <3> HIDE DEF last, here
    <3> QED BY <2>1, <2>3, <3>3, <3>4
  <2> QED BY <2>2, <2>3
<1>3. \A i \in 1..0 : FALSE
  OBVIOUS
<1> QED BY <1>1, <1>2, <1>3 DEF BranchInv, WritesDecided, CondsAgree, PresHold,
                               ViewsAgree, SkippedAgree, RestAgrees

LEMMA StepInv == ASSUME IInv, [Next]_vars PROVE IInv'
<1>1. TypeOK'
  BY StepType DEF IInv
<1>2. UNCHANGED <<prog, cell>>
  BY DEF Next, Assign, AssignPlain, AssignVersion, AssignLocal, SourceAssign, Point,
         DeclarePointer, Open, OpenFrame, Enter, Else, TurnFrame, Turn, Merge, MergeFrame,
         Leave, Choose, DirectSelect, JumpOver, Reject, Refuse, Advance, control, vars
<1>3. Hyp'
  BY <1>2 DEF IInv, Hyp
<1>4. BranchInv'
  <2>1. CASE Assign
    BY <2>1, AssignInv
  <2>2. CASE Point
    BY <2>2, PointInv
  <2>3. CASE Open
    BY <2>3, OpenInv
  <2>4. CASE Else
    BY <2>4, ElseInv
  <2>5. CASE Merge
    <3>1. depth = 1 \/ depth > 1
      BY <2>5 DEF IInv, TypeOK, ControlOK, Merge, MergeFrame, Leave, AtEnd
    <3> QED BY <2>5, <3>1, OuterMergeInv, NestedMergeInv
  <2>6. CASE Choose
    BY <2>6, ChooseInv
  <2>7. CASE Reject
    BY <2>7, SameInv DEF IInv, Reject, Refuse, control
  <2>8. CASE UNCHANGED vars
    BY <2>8, SameInv DEF IInv, vars, control
  <2> QED BY <2>1, <2>2, <2>3, <2>4, <2>5, <2>6, <2>7, <2>8 DEF Next
<1> QED BY <1>1, <1>3, <1>4 DEF IInv

-----------------------------------------------------------------------------
(* The theorems                                                            *)

\* the bodies and layouts the theorems are about
InScope == /\ \A p \in Programs : Supported(p)
           /\ \A c \in Layouts : AliasSound(c)

LEMMA InitInv == ASSUME InScope, Init PROVE IInv
<1>1. /\ prog \in Programs /\ cell \in Layouts /\ depth = 0 /\ mem = store
  BY DEF Init, SelectInit, ControlInit
<1>2. \A i \in 1..0 : FALSE
  OBVIOUS
<1>3. BranchInv
  BY <1>1, <1>2 DEF BranchInv, WritesDecided, CondsAgree, PresHold,
                    ViewsAgree, SkippedAgree, RestAgrees
<1> QED BY <1>1, <1>3, InitType DEF IInv, Hyp, InScope

\* Why the lowering is right: along the arms the conditions selected, the
\* innermost frame that versions a location holds what the source has there;
\* where the path leaves them, the arm's final or initial version does.
THEOREM BranchesCorrect == ASSUME InScope PROVE Spec => []IInv
<1>1. Init => IInv
  BY InitInv
<1>2. IInv /\ [Next]_vars => IInv'
  BY StepInv
<1> QED BY <1>1, <1>2, PTL DEF Spec

\* The prime directive for encrypted ifs (spec.md 1.3): whenever the lowered
\* text is outside every encrypted if, every variable and slot in scope holds
\* what the source leaves there.
THEOREM LoweringCorrect == ASSUME InScope PROVE Spec => []StoresAgree
<1>1. IInv => StoresAgree
  BY DEF IInv, BranchInv, RestAgrees, StoresAgree
<1> QED BY <1>1, BranchesCorrect, PTL

\* In the arms the conditions selected, every version the renderer would read
\* is the value the source has there, inside the branches too.
THEOREM ReadsCorrect == ASSUME InScope PROVE Spec => []BranchesRead
<1>1. ASSUME IInv PROVE BranchesRead
  <2> SUFFICES ASSUME depth > 0, Running, NEW l \in LValue, Versioned(l)
               PROVE  Read(l) = mem[cell[l]]
    BY DEF BranchesRead
  <2>1. /\ depth \in Nat /\ depth \in 1..depth /\ Key(l) \in frames[depth].writes
        /\ Key(l).lv = l /\ Taken(depth) /\ BranchInv
    BY <1>1 DEF IInv, TypeOK, ControlOK, Versioned, Key, LocKey, Running, Taken
  <2> QED BY <2>1 DEF BranchInv, ViewsAgree, Read
<1> QED BY <1>1, BranchesCorrect, PTL

\* Inside an encrypted if the lowered text writes nothing outside it: the arm
\* that runs second reads what the if found, and only the outermost merges
\* write.
THEOREM BranchesPure == ASSUME InScope PROVE Spec => BranchesWriteNothing
<1>1. ASSUME IInv, [Next]_vars, depth > 0, depth' > 0 PROVE store' = store
  <2>1. TypeOK /\ depth \in Nat /\ depth \in 1..depth /\ store \in [Cell -> Val]
    BY <1>1 DEF IInv, TypeOK, ControlOK
  <2>2. CASE Assign
    BY <1>1, <2>1, <2>2, NoLocalHere DEF Assign, AssignPlain, AssignVersion, AssignLocal, Ready
  <2>3. CASE Point \/ Open \/ Else \/ Reject \/ UNCHANGED vars
    BY <2>3 DEF Point, DeclarePointer, Open, OpenFrame, Else, TurnFrame, Reject, Refuse, vars
  <2>4. CASE Merge
    <3>1. depth > 1 /\ depth-1 \in 1..depth
      BY <1>1, <2>1, <2>4 DEF Merge, MergeFrame, Leave
    <3>2. /\ W(depth) \subseteq W(depth-1)
          /\ frames[depth].writes = W(depth) /\ frames[depth-1].writes = W(depth-1)
      BY <1>1, <2>1, <3>1, NestedWrites, FrameFacts DEF IInv
    <3> DEFINE up     == frames[depth].writes \cap frames[depth-1].writes
               direct == frames[depth].writes \ up
    <3>3. store' = Merged(frames[depth], direct)
      BY <2>4, <3>1 DEF Merge, MergeFrame
    <3>4. direct = {}
      BY <3>2
    <3> HIDE DEF direct
    <3>5. Merged(frames[depth], direct) = [c \in Cell |-> store[c]]
      BY <3>4 DEF Merged
    <3> QED BY <2>1, <3>3, <3>5
  <2>5. CASE Choose
    <3>1. Here.op = "if" /\ Direct /\ DirectShape(prog, Outermost, pc) /\ InArm /\ ControlOK
      BY <2>1, <2>5 DEF Choose, DirectSelect, Ready, Direct, TypeOK
    <3>2. /\ prog[pc+1].op = "set" /\ ~BranchLocal(prog, Outermost, prog[pc+1].lv)
          /\ pc+1 \in Inside(prog, encl[depth].at) /\ Outermost = encl[1].at
      BY <1>1, <2>1, <3>1, DirectArms, PcInside DEF DirectShape, Outermost
    <3>3. prog[pc+1].lv \in Scanned(prog, encl[1].at, encl[depth].at)
      BY <3>2 DEF Scanned
    <3>4. Key(prog[pc+1].lv) \in W(depth) /\ frames[depth].writes = W(depth)
      BY <2>1, <3>3, KeyFacts, FrameFacts DEF Key
    <3> QED BY <1>1, <2>5, <3>4 DEF Choose, DirectSelect, Versioned
  <2> QED BY <1>1, <2>2, <2>3, <2>4, <2>5 DEF Next
<1>2. IInv /\ [Next]_vars =>
         [depth > 0 /\ depth' > 0 => \A c \in Cell \ LocalPlaces : store'[c] = store[c]]_vars
  BY <1>1
<1> QED BY <1>2, BranchesCorrect, PTL DEF Spec, BranchesWriteNothing

-----------------------------------------------------------------------------
(* Grants and pre-values, whatever the nesting: these need only that no    *)
(* storage pointer is declared inside an encrypted if.                     *)

PlainLocals(p) ==
    \A t \in Ifs(p) : \A j \in Inside(p, t) : p[j].op = "decl" => ~IsStorage(p[j].lv)

\* what a layout puts in contract storage is reached from a state variable or
\* a storage pointer
Placed(c) == \A l \in LValue : c[l] \in StorageCell => IsStorage(l)

\* the bodies and layouts the next two theorems are about
PlainScope == /\ \A p \in Programs : PlainLocals(p)
              /\ \A c \in Layouts : Placed(c)

PlainHyp == TypeOK /\ PlainLocals(prog) /\ Placed(cell)

LEMMA PlainStays == ASSUME PlainHyp, [Next]_vars PROVE PlainHyp'
<1>1. UNCHANGED <<prog, cell>>
  BY DEF Next, Assign, AssignPlain, AssignVersion, AssignLocal, SourceAssign, Point,
         DeclarePointer, Open, OpenFrame, Enter, Else, TurnFrame, Turn, Merge, MergeFrame,
         Leave, Choose, DirectSelect, JumpOver, Reject, Refuse, Advance, control, vars
<1> QED BY <1>1, StepType DEF PlainHyp, Placed

LEMMA PlainInit == ASSUME PlainScope, Init PROVE PlainHyp
BY InitType DEF PlainScope, PlainHyp, Init, SelectInit, ControlInit

\* a branch local is no storage
LEMMA PlainLocal ==
    ASSUME PlainHyp, InArm, depth > 0, NEW l, BranchLocal(prog, Outermost, l)
    PROVE  ~IsStorage(l)
<1>1. depth \in Nat /\ 1 \in 1..depth /\ Outermost = encl[1].at /\ TypeOK
  BY DEF PlainHyp, TypeOK, ControlOK, Outermost
<1>2. encl[1].at \in Ifs(prog)
  BY <1>1, PcInside
<1>3. PICK j \in Inside(prog, encl[1].at) : prog[j].op = "decl" /\ prog[j].lv.root = l.root
  BY <1>1 DEF BranchLocal
<1> QED BY <1>2, <1>3 DEF PlainHyp, PlainLocals, IsStorage

\* the locations merged or selected in place leave nothing without its grants
LEMMA NoneBare ==
    ASSUME PlainHyp, bare = {}, NEW ls \in SUBSET LValue
    PROVE  Bare(ls) = {}
BY DEF Bare, PlainHyp, Placed

LEMMA GrantsKept == ASSUME PlainHyp, bare = {}, [Next]_vars PROVE bare' = {}
<1>1. CASE Assign
  <2>1. CASE AssignPlain
    BY <2>1 DEF AssignPlain
  <2>2. CASE AssignVersion
    BY <2>2 DEF AssignVersion
  <2>3. CASE AssignLocal
    <3>1. InArm /\ depth > 0 /\ depth \in Nat /\ TypeOK /\ ControlOK
      BY <2>3 DEF AssignLocal, Ready, PlainHyp, TypeOK, ControlOK
    <3>2. 1 \in 1..depth /\ Outermost = encl[1].at /\ pc \in Inside(prog, encl[1].at)
      BY <3>1, PcInside DEF Outermost
    <3>3. BranchLocal(prog, Outermost, Here.lv)
      BY <2>3, <3>2 DEF AssignLocal, BranchLocal, Here
    <3>4. Here.lv \in LValue /\ ~IsStorage(Here.lv)
      BY <3>1, <3>3, HereType, PlainLocal
    <3>5. cell[Here.lv] \notin StorageCell
      BY <3>4 DEF PlainHyp, Placed
    <3> QED BY <2>3, <3>5 DEF AssignLocal
  <2> QED BY <1>1, <2>1, <2>2, <2>3 DEF Assign
<1>2. CASE Merge
  <2>1. depth \in 1..depth /\ TypeOK
    BY <1>2 DEF Merge, MergeFrame, Leave, AtEnd, PlainHyp, TypeOK, ControlOK
  <2>2. \A k \in frames[depth].writes : k.lv \in LValue
    BY <2>1, FrameFacts
  <2>3. PICK ls \in SUBSET LValue : bare' = Bare(ls)
    BY <1>2, <2>2 DEF Merge, MergeFrame
  <2> QED BY <2>3, NoneBare
<1>3. CASE Choose
  <2>1. prog[pc+1].lv \in LValue
    BY <1>3, DirectArms DEF Choose, DirectSelect, Ready, Direct, PlainHyp, TypeOK
  <2>2. bare' = bare \/ bare' = Bare({prog[pc+1].lv})
    BY <1>3 DEF Choose, DirectSelect
  <2>3. {prog[pc+1].lv} \in SUBSET LValue
    BY <2>1
  <2>4. Bare({prog[pc+1].lv}) = {}
    BY <2>3, NoneBare
  <2> QED BY <2>2, <2>4
<1>4. CASE Point \/ Open \/ Else \/ Reject \/ UNCHANGED vars
  BY <1>4 DEF Point, DeclarePointer, Open, OpenFrame, Else, TurnFrame, Reject, Refuse, vars
<1> QED BY <1>1, <1>2, <1>3, <1>4 DEF Next

\* Whatever the nesting, every storage write the emitted text makes for an
\* encrypted if carries its grants.
THEOREM MergesGranted == ASSUME PlainScope PROVE Spec => []MergedStorageGranted
<1>1. Init => PlainHyp /\ bare = {}
  BY PlainInit DEF Init, SelectInit
<1>2. (PlainHyp /\ bare = {}) /\ [Next]_vars => (PlainHyp /\ bare = {})'
  BY PlainStays, GrantsKept
<1>3. PlainHyp /\ bare = {} => MergedStorageGranted
  BY DEF MergedStorageGranted
<1> QED BY <1>1, <1>2, <1>3, PTL DEF Spec

-----------------------------------------------------------------------------
(* The pre-values of an if that no if encloses and that encloses none      *)

Flats(p) == {i \in Tops(p) : Ifs(p) \cap Inside(p, i) = {}}

Arm(i, a) == {k \in Inside(prog, i) : IF a = "then" THEN k < prog[i].els
                                                   ELSE k >= prog[i].els}
SetsAt(j, l)  == prog[j].op = "set" /\ prog[j].lv = l
ReadsAt(j, l) == \E n \in 1..Arity : prog[j].args[n] = l

\* before statement n, the arm has assigned l; it has read l unassigned
SetBy(i, a, n, l)  == \E k \in Arm(i, a) : k < n /\ SetsAt(k, l)
ReadBy(i, a, n, l) == \E j \in Arm(i, a) : j < n /\ ReadsAt(j, l) /\ ~SetBy(i, a, j, l)

IsOpen(i) == depth > 0 /\ encl[1].at = i

\* the frame of an open flat if knows what its arms have assigned and read
Tracked(i) ==
    /\ depth = 1
    /\ \A l \in LValue : <<i, l>> \notin preRead
    /\ \A l \in Scanned(prog, i, i) :
          /\ LocKey(i, l) \in frames[1].fresh <=> SetBy(i, encl[1].arm, pc, l)
          /\ LocKey(i, l) \in frames[1].used
                <=> ReadBy(i, "then", pc, l) \/ ReadBy(i, "else", pc, l)
          /\ encl[1].arm = "else" =>
                (LocKey(i, l) \in frames[1].thnFresh <=> SetBy(i, "then", pc, l))

\* an if still ahead has no pre-values, an open one is tracked, and one that
\* is behind has the pre-values it needs
PreOne(i) ==
    /\ pc <= i => \A l \in LValue : <<i, l>> \notin preRead
    /\ IsOpen(i) => Tracked(i)
    /\ pc > i /\ ~IsOpen(i) => PreValuesExactOf(i)

PreInv == \A i \in Flats(prog) : PreOne(i)

LEMMA FlatNeeds ==
    ASSUME NEW i \in Flats(prog), NEW l
    PROVE  NeedsPre(i, l) <=>
              \E a \in {"then", "else"} :
                 \/ \A k \in Arm(i, a) : ~SetsAt(k, l)
                 \/ \E j \in Arm(i, a) : ReadsAt(j, l) /\ \A k \in Arm(i, a) : k < j => ~SetsAt(k, l)
<1> DEFINE Sets(j)   == prog[j].op = "set" /\ prog[j].lv = l
           Reads(j)  == \E n \in 1..Arity : prog[j].args[n] = l
           Arms(j)   == {{k \in Inside(prog, j) : k < prog[j].els},
                         {k \in Inside(prog, j) : k >= prog[j].els}}
           In(a)     == {j \in a : \A k \in Ifs(prog) \cap a : j \notin Inside(prog, k)}
           Assigns(j) == \/ Sets(j)
                         \/ /\ prog[j].op = "if"
                            /\ \A a \in Arms(j) : \E k \in In(a) : Sets(k)
                            /\ \A k \in Inside(prog, j) : ~Reads(k)
<1>1. /\ \A j \in Inside(prog, i) : prog[j].op # "if"
      /\ \A a \in Arms(i) : a \subseteq Inside(prog, i)
  BY DEF Flats, Ifs, Inside
<1>2. \A a \in Arms(i) : In(a) = a
  BY <1>1 DEF Ifs, Inside
<1>3. \A j \in Inside(prog, i) : Assigns(j) <=> SetsAt(j, l)
  BY <1>1 DEF SetsAt
<1>4. Arms(i) = {Arm(i, "then"), Arm(i, "else")}
  BY DEF Arm
<1>5. \A j : Reads(j) <=> ReadsAt(j, l)
  BY DEF ReadsAt
<1>6. NeedsPre(i, l) <=> \E a \in Arms(i) :
          \/ \A j \in In(a) : ~Assigns(j)
          \/ \E j \in a : Reads(j) /\ \A k \in In(a) : k < j => ~Assigns(k)
  BY DEF NeedsPre
<1> HIDE DEF Arms, In, Assigns, Reads
<1>7. \A a \in Arms(i) :
         /\ (\A j \in In(a) : ~Assigns(j)) <=> (\A k \in a : ~SetsAt(k, l))
         /\ \A j \in a : (\A k \in In(a) : k < j => ~Assigns(k))
                            <=> (\A k \in a : k < j => ~SetsAt(k, l))
  BY <1>1, <1>2, <1>3
<1> QED BY <1>4, <1>5, <1>6, <1>7

LEMMA FlatOpen ==
    ASSUME TypeOK, NEW i \in Flats(prog), IsOpen(i)
    PROVE  /\ depth = 1 /\ 1 \in 1..depth /\ encl[1].at = i /\ frames[1].writes = W(1)
           /\ InArm => /\ Here.op # "if" /\ pc \in Arm(i, encl[1].arm)
                       /\ Outermost = i
<1>1. /\ depth \in Nat /\ 1 \in 1..depth /\ encl[1].at = i
  BY DEF TypeOK, ControlOK, IsOpen
<1>2. ASSUME depth > 1 PROVE FALSE
  <2>1. 2 \in 1..depth
    BY <1>1, <1>2
  <2> QED BY <1>1, <2>1, EnclInside DEF Flats
<1>3. depth = 1 /\ frames[1].writes = W(1)
  BY <1>1, <1>2, FrameFacts
<1>4. ASSUME InArm PROVE /\ Here.op # "if" /\ pc \in Arm(i, encl[1].arm)
                         /\ Outermost = i
  <2>1. pc \in Inside(prog, i)
    BY <1>1, <1>4, PcInside
  <2>2. /\ ArmFirst(1) <= pc /\ encl[1].arm \in {"then", "else"} /\ pc \in Nat
        /\ prog[i].els \in Nat
    BY <1>1, <1>4, EnclType, HereType DEF TypeOK
  <2>3. pc < ArmEnd(1)
    BY <1>3, <1>4 DEF InArm, Limit
  <2>4. pc \in Arm(i, encl[1].arm)
    BY <1>1, <2>1, <2>2, <2>3 DEF Arm, ArmFirst, ArmEnd
  <2>5. Here.op # "if"
    BY <2>1 DEF Flats, Ifs, Here, Inside
  <2> QED BY <1>1, <1>3, <2>4, <2>5 DEF Outermost
<1> QED BY <1>1, <1>3, <1>4

\* what one more statement of an arm adds
LEMMA ArmGrows ==
    ASSUME NEW i, NEW a \in {"then", "else"}, NEW n \in Arm(i, a), NEW l,
           Inside(prog, i) \subseteq Nat, prog[i].els \in Nat
    PROVE  /\ SetBy(i, a, n+1, l) <=> SetBy(i, a, n, l) \/ SetsAt(n, l)
           /\ ReadBy(i, a, n+1, l)
                 <=> ReadBy(i, a, n, l) \/ (ReadsAt(n, l) /\ ~SetBy(i, a, n, l))
           /\ \A b \in {"then", "else"} : b # a =>
                 /\ SetBy(i, b, n+1, l) <=> SetBy(i, b, n, l)
                 /\ ReadBy(i, b, n+1, l) <=> ReadBy(i, b, n, l)
<1>1. \A k \in Inside(prog, i) : k < n+1 <=> k < n \/ k = n
  BY DEF Arm
<1>2. \A b \in {"then", "else"} : /\ Arm(i, b) \subseteq Inside(prog, i)
                                  /\ b # a => n \notin Arm(i, b)
  BY DEF Arm
<1>3. SetBy(i, a, n+1, l) <=> SetBy(i, a, n, l) \/ SetsAt(n, l)
  BY <1>1, <1>2 DEF SetBy
<1>4. ReadBy(i, a, n+1, l)
                 <=> ReadBy(i, a, n, l) \/ (ReadsAt(n, l) /\ ~SetBy(i, a, n, l))
  BY <1>1, <1>2 DEF ReadBy
<1>5. ASSUME NEW b \in {"then", "else"}, b # a
      PROVE  /\ SetBy(i, b, n+1, l) <=> SetBy(i, b, n, l)
             /\ ReadBy(i, b, n+1, l) <=> ReadBy(i, b, n, l)
  <2>1. \A k \in Arm(i, b) : k < n+1 <=> k < n
    BY <1>1, <1>2, <1>5
  <2> QED BY <2>1 DEF SetBy, ReadBy
<1> QED BY <1>3, <1>4, <1>5

LEMMA TrackedAssign ==
    ASSUME PlainHyp, NEW i \in Flats(prog), IsOpen(i), Tracked(i), Assign
    PROVE  Tracked(i)'
<1>1. /\ TypeOK /\ InArm /\ i \in Nat /\ prog \in Seq(Stmt)
      /\ UNCHANGED <<prog, depth, encl, preRead>> /\ pc' = pc + 1
      /\ depth = 1 /\ 1 \in 1..depth /\ encl[1].at = i /\ frames[1].writes = W(1)
      /\ pc \in Arm(i, encl[1].arm) /\ Outermost = i
  <2>1. TypeOK /\ depth > 0 /\ prog \in Seq(Stmt)
    BY DEF PlainHyp, TypeOK, ControlOK, IsOpen
  <2>2. /\ InArm /\ Advance /\ preRead' = preRead
    BY <2>1 DEF Assign, AssignPlain, AssignVersion, AssignLocal, Ready
  <2>3. i \in Nat
    BY <2>1 DEF Flats, Tops, Ifs
  <2> QED BY <2>1, <2>2, <2>3, FlatOpen DEF Advance
<1>2. /\ encl[1].arm \in {"then", "else"} /\ prog[i].els \in Nat
      /\ Inside(prog, i) \subseteq Nat
  BY <1>1, EnclType DEF TypeOK, Inside
<1>3. PICK f : /\ f = frames[1] /\ f.writes = W(1)
               /\ f.fresh \subseteq W(1) /\ f.used \subseteq W(1)
  BY <1>1, FrameFacts DEF FrameOK
<1>4. DOMAIN frames = 1..depth
  BY <1>1 DEF TypeOK
<1> SUFFICES ASSUME NEW l \in Scanned(prog, i, i)
    PROVE /\ LocKey(i, l) \in frames'[1].fresh <=> SetBy(i, encl[1].arm, pc+1, l)
          /\ LocKey(i, l) \in frames'[1].used
                <=> ReadBy(i, "then", pc+1, l) \/ ReadBy(i, "else", pc+1, l)
          /\ encl[1].arm = "else" =>
                (LocKey(i, l) \in frames'[1].thnFresh <=> SetBy(i, "then", pc+1, l))
  BY <1>1 DEF Tracked, SetBy, ReadBy, Arm, SetsAt, ReadsAt, Inside, Scanned, BranchLocal
<1>5. /\ LocKey(i, l) \in f.fresh <=> SetBy(i, encl[1].arm, pc, l)
      /\ LocKey(i, l) \in f.used <=> ReadBy(i, "then", pc, l) \/ ReadBy(i, "else", pc, l)
      /\ encl[1].arm = "else" => (LocKey(i, l) \in f.thnFresh <=> SetBy(i, "then", pc, l))
  BY <1>3 DEF Tracked
<1>6. \A m : (LocKey(i, m) = LocKey(i, l) <=> m = l) /\ LocKey(i, m).lv = m
  BY DEF LocKey
<1>7. LocKey(i, l) \in W(1) /\ ~BranchLocal(prog, i, l)
  BY <1>1, KeyFacts DEF Scanned
<1>8. LocKey(i, l) \in PreOf(Here) <=> ReadsAt(pc, l) /\ LocKey(i, l) \notin f.fresh
  BY <1>1, <1>3, <1>6, <1>7 DEF PreOf, Versioned, Key, ReadsAt, Here
<1>9. /\ frames'[1].used = f.used \cup PreOf(Here)
      /\ frames'[1].thnFresh = f.thnFresh
      /\ LocKey(i, l) \in frames'[1].fresh <=> LocKey(i, l) \in f.fresh \/ SetsAt(pc, l)
  <2>1. CASE AssignVersion
    <3>1. /\ Here.op = "set" /\ frames'[1] =
               [f EXCEPT !.cur   = [f.cur EXCEPT ![Key(Here.lv)] = Rendered(Here)],
                         !.fresh = f.fresh \cup {Key(Here.lv)},
                         !.used  = f.used \cup PreOf(Here)]
      BY <1>1, <1>3, <1>4, <2>1 DEF AssignVersion, Version
    <3>2. Key(Here.lv) = LocKey(i, Here.lv)
      BY <1>1 DEF Key
    <3>3. DOMAIN f = {"cond", "writes", "pre", "cur", "fresh", "thn", "thnFresh", "used"}
      BY <1>1, <1>3, FrameFacts DEF FrameOK
    <3> QED BY <1>6, <3>1, <3>2, <3>3 DEF SetsAt, Here
  <2>2. CASE AssignLocal
    <3>1. frames'[1] = [f EXCEPT !.used = f.used \cup PreOf(Here)]
      BY <1>1, <1>3, <1>4, <2>2 DEF AssignLocal, Using
    <3>2. DOMAIN f = {"cond", "writes", "pre", "cur", "fresh", "thn", "thnFresh", "used"}
      BY <1>1, <1>3, FrameFacts DEF FrameOK
    <3>3. ~SetsAt(pc, l)
      BY <1>1, <1>7, <2>2 DEF AssignLocal, SetsAt, Here
    <3> QED BY <3>1, <3>2, <3>3
  <2> QED BY <1>1, <2>1, <2>2 DEF Assign, AssignPlain
<1> HIDE DEF Tracked
<1>10. /\ SetBy(i, encl[1].arm, pc+1, l) <=> SetBy(i, encl[1].arm, pc, l) \/ SetsAt(pc, l)
       /\ ReadBy(i, encl[1].arm, pc+1, l) <=> ReadBy(i, encl[1].arm, pc, l)
             \/ (ReadsAt(pc, l) /\ ~SetBy(i, encl[1].arm, pc, l))
       /\ \A b \in {"then", "else"} : b # encl[1].arm =>
             /\ SetBy(i, b, pc+1, l) <=> SetBy(i, b, pc, l)
             /\ ReadBy(i, b, pc+1, l) <=> ReadBy(i, b, pc, l)
  BY <1>1, <1>2, ArmGrows
<1>11. LocKey(i, l) \in frames'[1].used
          <=> LocKey(i, l) \in f.used \/ LocKey(i, l) \in PreOf(Here)
  BY <1>9
<1> QED BY <1>2, <1>5, <1>8, <1>9, <1>10, <1>11

LEMMA TrackedElse ==
    ASSUME PlainHyp, NEW i \in Flats(prog), IsOpen(i), Tracked(i), Else
    PROVE  Tracked(i)'
<1>1. /\ TypeOK /\ UNCHANGED <<prog, depth, preRead, pc>>
      /\ depth = 1 /\ 1 \in 1..depth /\ encl[1].at = i /\ frames[1].writes = W(1)
      /\ encl[1].arm = "then" /\ pc = prog[i].els /\ encl \in [1..depth -> [at : Nat, arm : {"then", "else"}]]
      /\ DOMAIN frames = 1..depth
  BY FlatOpen DEF PlainHyp, Else, TurnFrame, Turn, AtElse, Limit, ArmEnd, TypeOK, ControlOK
<1>2. encl'[1].at = i /\ encl'[1].arm = "else"
  BY <1>1 DEF Else, TurnFrame, Turn
<1>3. /\ frames'[1].fresh = {} /\ frames'[1].thnFresh = frames[1].fresh
      /\ frames'[1].used = frames[1].used
  <2>1. DOMAIN frames[1] = {"cond", "writes", "pre", "cur", "fresh", "thn", "thnFresh", "used"}
    BY <1>1, FrameFacts DEF FrameOK
  <2>2. frames'[1] = [frames[1] EXCEPT !.thn = frames[1].cur, !.thnFresh = frames[1].fresh,
                                       !.cur = frames[1].pre, !.fresh    = {}]
    BY <1>1 DEF Else, TurnFrame
  <2> QED BY <2>1, <2>2
<1>4. \A l : ~SetBy(i, "else", pc, l)
  BY <1>1, EnclType DEF SetBy, Arm, TypeOK, Inside, ControlOK
<1> SUFFICES ASSUME NEW l \in Scanned(prog, i, i)
    PROVE /\ LocKey(i, l) \in frames'[1].fresh <=> SetBy(i, "else", pc, l)
          /\ LocKey(i, l) \in frames'[1].used
                <=> ReadBy(i, "then", pc, l) \/ ReadBy(i, "else", pc, l)
          /\ LocKey(i, l) \in frames'[1].thnFresh <=> SetBy(i, "then", pc, l)
  BY <1>1, <1>2 DEF Tracked, SetBy, ReadBy, Arm, SetsAt, ReadsAt, Inside, Scanned, BranchLocal
<1> QED BY <1>1, <1>3, <1>4 DEF Tracked

\* closing the if declares exactly the pre-values its arms need
LEMMA TrackedMerge ==
    ASSUME PlainHyp, NEW i \in Flats(prog), IsOpen(i), Tracked(i), Merge
    PROVE  PreValuesExactOf(i)' /\ depth' = 0 /\ pc' > i
<1>1. /\ TypeOK /\ UNCHANGED <<prog, pc>> /\ prog \in Seq(Stmt)
      /\ depth = 1 /\ depth' = 0 /\ 1 \in 1..depth /\ encl[1].at = i /\ frames[1].writes = W(1)
      /\ encl[1].arm = "else" /\ pc = prog[i].end
  <2>1. TypeOK /\ prog \in Seq(Stmt)
    BY DEF PlainHyp, TypeOK, ControlOK
  <2>2. Leave
    BY DEF Merge, MergeFrame
  <2>3. depth = 1 /\ 1 \in 1..depth /\ encl[1].at = i /\ frames[1].writes = W(1)
    BY <2>1, FlatOpen
  <2>4. encl[1].arm = "else" /\ pc = prog[i].end
    BY <2>2, <2>3 DEF Leave, AtEnd, Limit, ArmEnd
  <2> QED BY <2>1, <2>2, <2>3, <2>4 DEF Leave
<1>2. /\ i \in Nat /\ prog[i].els \in Nat /\ prog[i].end \in Nat
      /\ i + 1 <= prog[i].els /\ prog[i].els <= prog[i].end /\ pc \in Nat
  BY <1>1, EnclType DEF TypeOK
<1>3. pc' > i
  BY <1>1, <1>2
<1> DEFINE f    == frames[1]
           pres == f.used \cup (f.writes \ f.thnFresh) \cup (f.writes \ f.fresh)
<1>4. preRead' = preRead \cup {<<i, k.lv>> : k \in pres}
  BY <1>1 DEF Merge, MergeFrame
<1>5. pres \subseteq W(1)
  BY <1>1, FrameFacts DEF FrameOK
<1> SUFFICES ASSUME NEW l \in Scanned(prog, i, i)
    PROVE  <<i, l>> \in preRead' <=> NeedsPre(i, l)
  <2>1. \A l : NeedsPre(i, l)' <=> NeedsPre(i, l)
    BY <1>1 DEF NeedsPre, Inside, Ifs
  <2>2. Scanned(prog, i, i)' = Scanned(prog, i, i)
    BY <1>1
  <2> QED BY <1>1, <1>3, <2>1, <2>2 DEF PreValuesExactOf
<1>6. l \in LValue /\ <<i, l>> \notin preRead
  BY <1>1, ScannedType DEF Tracked
<1>7. LocKey(i, l) \in W(1) /\ LocKey(i, l).lv = l /\ \A k \in W(1) : k.lv = l => k = LocKey(i, l)
  BY <1>1, KeyFacts
<1>8. <<i, l>> \in preRead' <=> LocKey(i, l) \in pres
  <2> HIDE DEF pres
  <2> QED BY <1>4, <1>5, <1>6, <1>7
<1>9. LocKey(i, l) \in pres <=> \/ ReadBy(i, "then", pc, l) \/ ReadBy(i, "else", pc, l)
                                \/ ~SetBy(i, "then", pc, l) \/ ~SetBy(i, "else", pc, l)
  BY <1>1, <1>7 DEF Tracked
<1>10. \A a \in {"then", "else"} : \A k \in Arm(i, a) : k \in Nat /\ k < pc
  BY <1>1 DEF Arm, Inside
<1>11. \A a \in {"then", "else"} :
          /\ ~SetBy(i, a, pc, l) <=> \A k \in Arm(i, a) : ~SetsAt(k, l)
          /\ ReadBy(i, a, pc, l) <=>
                \E j \in Arm(i, a) : ReadsAt(j, l) /\ \A k \in Arm(i, a) : k < j => ~SetsAt(k, l)
  BY <1>10 DEF SetBy, ReadBy
<1> HIDE DEF pres
<1> QED BY <1>8, <1>9, <1>11, FlatNeeds

\* what a step of an open flat if leaves
LEMMA OpenPre ==
    ASSUME PlainHyp, NEW i \in Flats(prog), IsOpen(i), PreOne(i), [Next]_vars
    PROVE  PreOne(i)'
<1>1. TypeOK /\ Tracked(i) /\ i \in Nat /\ 1 \in 1..depth /\ encl[1].at = i
      /\ encl[1].at < pc /\ pc \in Nat
  <2>1. TypeOK /\ Tracked(i) /\ 1 \in 1..depth /\ encl[1].at = i
    BY FlatOpen DEF PlainHyp, PreOne
  <2>2. ControlOK /\ pc \in Nat /\ i \in Nat
    BY <2>1 DEF TypeOK, ControlOK, Flats, Tops, Ifs
  <2>3. encl[1].at \in Nat /\ ArmFirst(1) \in Nat /\ encl[1].at < ArmFirst(1) /\ ArmFirst(1) <= pc
    BY <2>1, <2>2, EnclType
  <2> QED BY <2>1, <2>2, <2>3
<1>2. CASE Assign
  <2>1. InArm /\ Advance
    BY <1>2, <1>1 DEF Assign, AssignPlain, AssignVersion, AssignLocal, Ready
  <2>2. Tracked(i)' /\ pc' > i /\ IsOpen(i)'
    BY <1>1, <1>2, <2>1, TrackedAssign DEF Advance, IsOpen
  <2> QED BY <1>1, <2>1, <2>2 DEF PreOne, Advance
<1>3. CASE Point
  <2>1. InArm /\ Here.op = "decl" /\ Here.lv.root \in Pointers
    BY <1>3 DEF Point, DeclarePointer, Ready
  <2>2. pc \in Arm(i, encl[1].arm) /\ i \in Ifs(prog)
    BY <2>1, FlatOpen DEF PlainHyp, Flats, Tops
  <2> QED BY <2>1, <2>2 DEF PlainHyp, PlainLocals, IsStorage, Arm, Here
<1>4. CASE Open \/ Choose
  BY <1>4, FlatOpen DEF Open, OpenFrame, Choose, DirectSelect, Direct, Ready, PlainHyp
<1>5. CASE Else
  <2>1. Tracked(i)' /\ UNCHANGED pc
    BY <1>1, <1>5, TrackedElse DEF Else, TurnFrame, Turn
  <2>2. IsOpen(i)'
    BY <1>1, <1>5 DEF Else, TurnFrame, Turn, AtElse, IsOpen, TypeOK, ControlOK
  <2> QED BY <1>1, <2>1, <2>2 DEF PreOne
<1>6. CASE Merge
  <2>1. PreValuesExactOf(i)' /\ depth' = 0 /\ pc' > i
    BY <1>1, <1>6, TrackedMerge
  <2>2. ~(pc' <= i)
    BY <1>1, <1>6, <2>1 DEF Merge, MergeFrame, Leave
  <2> QED BY <2>1, <2>2 DEF PreOne, IsOpen
<1>7. CASE Reject \/ UNCHANGED vars
  BY <1>7 DEF Reject, Refuse, vars, control, PreOne, IsOpen, Tracked, PreValuesExactOf,
     SetBy, ReadBy, Arm, SetsAt, ReadsAt, Inside, Scanned, BranchLocal, DirectShape, NeedsPre, Ifs
<1> QED BY <1>2, <1>3, <1>4, <1>5, <1>6, <1>7 DEF Next

\* an outermost if that is not open: no step of another if declares for it
LEMMA OtherEntries ==
    ASSUME PlainHyp, NEW i \in Tops(prog), ~IsOpen(i), [Next]_vars
    PROVE  \A l \in LValue : <<i, l>> \in preRead' <=> <<i, l>> \in preRead
<1>1. CASE Merge
  <2>1. TypeOK /\ depth \in Nat /\ depth \in 1..depth /\ 1 \in 1..depth
    <3>1. TypeOK /\ ControlOK
      BY DEF PlainHyp, TypeOK
    <3>2. depth > 0
      BY <1>1 DEF Merge, MergeFrame, Leave, AtEnd
    <3> QED BY <3>1, <3>2 DEF ControlOK
  <2>2. encl[depth].at # i
    <3>1. CASE depth = 1
      BY <2>1, <3>1 DEF IsOpen
    <3>2. CASE depth > 1
      BY <2>1, <3>2, EnclInside DEF Tops
    <3> QED BY <2>1, <3>1, <3>2
  <2>3. PICK S : preRead' = preRead \cup {<<encl[depth].at, k.lv>> : k \in S}
    BY <1>1 DEF Merge, MergeFrame
  <2> QED BY <2>2, <2>3
<1>2. CASE ~Merge
  <2>1. preRead' = preRead
    BY <1>2 DEF Next, Assign, AssignPlain, AssignVersion, AssignLocal, Point,
         DeclarePointer, Open, OpenFrame, Else, TurnFrame,
         Choose, DirectSelect, Reject, Refuse, vars
  <2> QED BY <2>1
<1> QED BY <1>1, <1>2

\* control only moves forward, and opens no if but the one it is at
LEMMA WalkForward ==
    ASSUME PlainHyp, NEW i \in Tops(prog), ~IsOpen(i), [Next]_vars
    PROVE  /\ pc' \in Nat /\ pc \in Nat /\ i \in Nat /\ UNCHANGED prog
           /\ pc > i => pc' > i
           /\ pc < i => pc' <= i
           /\ IsOpen(i)' => Open /\ pc = i
           /\ pc = i => \/ pc' = i /\ ~IsOpen(i)'
                        \/ Open \/ Choose
<1>1. /\ TypeOK /\ ControlOK /\ pc \in Nat /\ i \in Nat /\ prog \in Seq(Stmt) /\ depth \in Nat
      /\ i \in DOMAIN prog /\ prog[i].op = "if"
  BY DEF PlainHyp, TypeOK, ControlOK, Tops, Ifs
<1>2. CASE Assign \/ Point
  <2>1. Advance /\ InArm /\ Here.op # "if"
    BY <1>2 DEF Assign, AssignPlain, AssignVersion, AssignLocal, Ready, Point, DeclarePointer
  <2>2. pc # i
    BY <1>1, <2>1 DEF Here
  <2> QED BY <1>1, <2>1, <2>2 DEF Advance, IsOpen
<1>3. CASE Open
  <2>1. InArm /\ Enter
    BY <1>3 DEF Open, OpenFrame, Ready
  <2>2. depth' > 0 /\ (depth > 0 => encl'[1] = encl[1]) /\ (depth = 0 => encl'[1].at = pc)
    BY <1>1, <2>1 DEF Enter
  <2>3. IsOpen(i)' => pc = i
    BY <1>1, <2>2 DEF IsOpen
  <2> QED BY <1>1, <1>3, <2>1, <2>3 DEF Enter
<1>4. CASE Choose
  <2>1. InArm /\ JumpOver /\ Here.op = "if"
    BY <1>4 DEF Choose, DirectSelect, Direct, Ready
  <2>2. /\ pc \in Ifs(prog) /\ prog[pc].end \in Nat /\ pc < prog[pc].end
    BY <1>1, <2>1, HereType DEF Here, Ifs, WellNested, ControlOK
  <2>3. pc < i => prog[pc].end <= i
    BY <1>1, <2>2 DEF Tops, Inside
  <2> QED BY <1>1, <1>4, <2>1, <2>2, <2>3 DEF JumpOver, IsOpen, Here
<1>5. CASE Else \/ Merge
  <2>1. /\ UNCHANGED <<prog, pc>> /\ depth' <= depth /\ depth' \in Nat
        /\ depth' > 0 => depth > 0 /\ encl'[1].at = encl[1].at
    <3>1. CASE Else
      <4>1. /\ UNCHANGED <<prog, pc, depth>> /\ depth \in 1..depth /\ 1 \in 1..depth
            /\ encl' = [encl EXCEPT ![depth].arm = "else"]
            /\ encl \in [1..depth -> [at : Nat, arm : {"then", "else"}]]
        BY <1>1, <3>1 DEF Else, TurnFrame, Turn, AtElse, ControlOK
      <4> QED BY <1>1, <4>1
    <3>2. CASE Merge
      <4>1. /\ UNCHANGED <<prog, pc>> /\ depth > 0 /\ depth' = depth - 1
            /\ encl' = [j \in 1..depth-1 |-> encl[j]]
        BY <3>2 DEF Merge, MergeFrame, Leave, AtEnd
      <4> QED BY <1>1, <4>1
    <3> QED BY <1>5, <3>1, <3>2
  <2> QED BY <1>1, <2>1 DEF IsOpen
<1>6. CASE Reject \/ UNCHANGED vars
  BY <1>1, <1>6 DEF Reject, Refuse, vars, control, IsOpen
<1> QED BY <1>2, <1>3, <1>4, <1>5, <1>6 DEF Next

\* the walk meets an outermost if outside every other
LEMMA TopOutside == ASSUME TypeOK, InArm, pc \in Tops(prog) PROVE depth = 0
<1>1. depth \in Nat
  BY DEF TypeOK, ControlOK
<1> SUFFICES ASSUME depth > 0 PROVE FALSE
  BY <1>1
<1>2. 1 \in 1..depth
  BY <1>1
<1> QED BY <1>2, PcInside DEF Tops

\* opening an outermost flat if
LEMMA TrackedOpen ==
    ASSUME PlainHyp, NEW i \in Flats(prog), Open, pc = i,
           \A l \in LValue : <<i, l>> \notin preRead
    PROVE  Tracked(i)'
<1>1. /\ TypeOK /\ ControlOK /\ InArm /\ Enter /\ depth \in Nat /\ UNCHANGED <<prog, preRead>>
      /\ prog \in Seq(Stmt) /\ i \in Nat /\ i \in Tops(prog)
  <2>1. TypeOK /\ ControlOK /\ depth \in Nat /\ prog \in Seq(Stmt)
    BY DEF PlainHyp, TypeOK, ControlOK
  <2>2. InArm /\ Enter /\ preRead' = preRead
    BY DEF Open, OpenFrame, Ready
  <2>3. i \in Tops(prog) /\ i \in Nat
    BY <2>1 DEF Flats, Tops, Ifs
  <2> QED BY <2>1, <2>2, <2>3 DEF Enter
<1>2. depth = 0
  BY <1>1, TopOutside
<1>3. encl'[1] = [at |-> i, arm |-> "then"] /\ depth' = 1 /\ pc' = i + 1
  BY <1>1, <1>2 DEF Enter
<1>4. frames'[1].fresh = {} /\ frames'[1].used = {}
  <2> DEFINE w     == WriteSet(prog, Outermost, pc)
             pre   == [k \in w |-> ReadKey(k)]
             frame == [cond |-> Rendered(Here) = TrueVal, writes |-> w,
                       pre |-> pre, cur |-> pre, fresh |-> {},
                       thn |-> pre, thnFresh |-> {}, used |-> {}]
  <2>1. frame.fresh = {} /\ frame.used = {}
    OBVIOUS
  <2>2. \E outer : frames' = [j \in 1..depth+1 |-> IF j <= depth THEN outer[j] ELSE frame]
    BY DEF Open, OpenFrame
  <2> HIDE DEF frame
  <2>3. frames'[1] = frame
    BY <1>2, <2>2
  <2> QED BY <2>1, <2>3
<1>5. \A a \in {"then", "else"} : \A l : ~SetBy(i, a, i+1, l) /\ ~ReadBy(i, a, i+1, l)
  BY <1>1 DEF SetBy, ReadBy, Arm, Inside
<1>6. \A a \in {"then", "else"} : \A l :
         /\ SetBy(i, a, i+1, l)' <=> SetBy(i, a, i+1, l)
         /\ ReadBy(i, a, i+1, l)' <=> ReadBy(i, a, i+1, l)
  BY <1>1 DEF SetBy, ReadBy, Arm, SetsAt, ReadsAt, Inside
<1> QED BY <1>1, <1>3, <1>4, <1>5, <1>6 DEF Tracked

LEMMA OtherPre ==
    ASSUME PlainHyp, NEW i \in Flats(prog), ~IsOpen(i), PreOne(i), [Next]_vars
    PROVE  PreOne(i)'
<1>1. i \in Tops(prog)
  BY DEF Flats
<1>2. \A l \in LValue : <<i, l>> \in preRead' <=> <<i, l>> \in preRead
  BY <1>1, OtherEntries
<1>3. /\ pc' \in Nat /\ pc \in Nat /\ i \in Nat /\ UNCHANGED prog
      /\ pc > i => pc' > i
      /\ pc < i => pc' <= i
      /\ IsOpen(i)' => Open /\ pc = i
      /\ pc = i => \/ pc' = i /\ ~IsOpen(i)'
                   \/ Open \/ Choose
  BY <1>1, WalkForward
<1>4. CASE pc < i
  BY <1>2, <1>3, <1>4 DEF PreOne
<1>5. PreValuesExactOf(i)' <=> PreValuesExactOf(i)
  <2>1. \A l : NeedsPre(i, l)' <=> NeedsPre(i, l)
    BY <1>3 DEF NeedsPre, Inside, Ifs
  <2>2. /\ Scanned(prog, i, i)' = Scanned(prog, i, i)
        /\ DirectShape(prog, i, i)' <=> DirectShape(prog, i, i)
    BY <1>3
  <2>3. Scanned(prog, i, i) \subseteq LValue
    BY ScannedType DEF PlainHyp, TypeOK, ControlOK
  <2> QED BY <1>2, <2>1, <2>2, <2>3 DEF PreValuesExactOf
<1>6. CASE pc > i
  BY <1>3, <1>5, <1>6 DEF PreOne
<1>7. CASE pc = i
  <2>1. CASE Open
    <3>1. Tracked(i)' /\ pc' = pc + 1
      BY <1>3, <1>7, <2>1, TrackedOpen DEF PreOne, Open, OpenFrame, Enter
    <3>2. encl'[1].at = i /\ depth' > 0
      <4>1. depth = 0
        BY <1>1, <1>7, <2>1, TopOutside DEF PlainHyp, Open, OpenFrame, Ready
      <4> QED BY <1>7, <2>1, <4>1 DEF Open, OpenFrame, Enter
    <3> QED BY <1>3, <1>7, <3>1, <3>2 DEF PreOne, IsOpen
  <2>2. CASE Choose
    <3>1. TypeOK /\ InArm /\ Direct /\ JumpOver /\ depth \in Nat
      BY <2>2 DEF Choose, DirectSelect, Ready, PlainHyp, TypeOK, ControlOK
    <3>2. depth = 0
      BY <1>1, <1>7, <3>1, TopOutside
    <3>3. DirectShape(prog, i, i) /\ Here.op = "if"
      BY <1>7, <3>1, <3>2 DEF Direct, Outermost
    <3>4. pc < Here.end
      <4>1. /\ ControlOK /\ pc \in DOMAIN prog
            /\ pc \in Nat /\ prog[pc].els \in Nat /\ prog[pc].end \in Nat
        BY <3>1, HereType DEF TypeOK, Here
      <4>2. prog[pc].op = "if" /\ WellNested(prog)
        BY <3>3, <4>1 DEF ControlOK, Here
      <4>3. pc + 1 <= prog[pc].els /\ prog[pc].els <= prog[pc].end
        BY <4>1, <4>2 DEF WellNested
      <4> QED BY <4>1, <4>3 DEF Here
    <3>5. PreValuesExactOf(i)' /\ pc' > i /\ depth' = 0
      BY <1>5, <1>7, <3>1, <3>2, <3>3, <3>4 DEF PreValuesExactOf, JumpOver
    <3> QED BY <1>3, <3>5 DEF PreOne, IsOpen
  <2>3. CASE pc' = i /\ ~IsOpen(i)'
    BY <1>2, <1>3, <1>7, <2>3 DEF PreOne
  <2> QED BY <1>3, <1>7, <2>1, <2>2, <2>3
<1> QED BY <1>3, <1>4, <1>6, <1>7

\* A flat if that is over has declared the pre-values its arms need, no more
\* and no fewer, wherever it stands in the body.
THEOREM PreValuesAsNeeded == ASSUME PlainScope PROVE Spec => []FlatPreValuesExact
<1>1. Init => PlainHyp /\ PreInv
  <2> SUFFICES ASSUME Init, NEW i \in Flats(prog) PROVE PlainHyp /\ PreOne(i)
    BY PlainInit DEF PreInv
  <2>1. PlainHyp /\ pc = 1 /\ depth = 0 /\ preRead = {}
    BY PlainInit DEF Init, SelectInit, ControlInit
  <2>2. i \in DOMAIN prog /\ prog \in Seq(Stmt)
    BY <2>1 DEF PlainHyp, TypeOK, ControlOK, Flats, Tops, Ifs
  <2>3. i \in Nat /\ i >= 1
    BY <2>2
  <2> QED BY <2>1, <2>3 DEF PreOne, IsOpen
<1>2. (PlainHyp /\ PreInv) /\ [Next]_vars => (PlainHyp /\ PreInv)'
  <2> SUFFICES ASSUME PlainHyp, PreInv, [Next]_vars PROVE PlainHyp' /\ PreInv'
    OBVIOUS
  <2>1. UNCHANGED prog
    BY DEF Next, Assign, AssignPlain, AssignVersion, AssignLocal, Point,
         DeclarePointer, Open, OpenFrame, Enter, Else, TurnFrame, Turn, Merge, MergeFrame,
         Leave, Choose, DirectSelect, JumpOver, Reject, Refuse, Advance, control, vars
  <2>2. \A i \in Flats(prog) : PreOne(i)'
    BY OpenPre, OtherPre DEF PreInv
  <2>3. Flats(prog)' = Flats(prog)
    BY <2>1
  <2> QED BY <2>2, <2>3, PlainStays DEF PreInv
<1>3. PlainHyp /\ PreInv => FlatPreValuesExact
  <2> SUFFICES ASSUME PlainHyp, PreInv, NEW i \in Closed, Ifs(prog) \cap Inside(prog, i) = {}
               PROVE  PreValuesExactOf(i)
    BY DEF FlatPreValuesExact
  <2>1. i \in Flats(prog) /\ ~IsOpen(i) /\ pc >= prog[i].end
    BY DEF Closed, Flats, IsOpen
  <2>2. pc > i
    BY <2>1, ProgType DEF PlainHyp, TypeOK, ControlOK, WellNested, Closed, Tops, Ifs
  <2> QED BY <2>1, <2>2 DEF PreInv, PreOne
<1> QED BY <1>1, <1>2, <1>3, PTL DEF Spec
=============================================================================
