----------------------------- MODULE IfLowering ------------------------------
(***************************************************************************)
(* The lowered text of IfSelect and the source of SourceIf, run over the   *)
(* same body from the same store, statement by statement.  mem and cond    *)
(* are what the lowered run must agree with; they never influence it.      *)
(***************************************************************************)
EXTENDS SourceIf, IfSelect

vars == <<control, mem, cond, store, frames, refused, bare, preRead>>

Init == SelectInit /\ mem = store /\ cond = << >>

Assign == (AssignPlain \/ AssignVersion \/ AssignLocal) /\ SourceAssign
Point  == DeclarePointer /\ SourceAssign
Open   == OpenFrame /\ SourceOpen
Else   == TurnFrame /\ SourceElse
Merge  == MergeFrame /\ SourceClose
Choose == DirectSelect /\ SourceChoose
Reject == Refuse /\ UNCHANGED <<mem, cond>>

Next == Assign \/ Point \/ Open \/ Else \/ Merge \/ Choose \/ Reject

Spec == Init /\ [][Next]_vars

-----------------------------------------------------------------------------
(* The bodies the lowering is right about                                  *)

Ifs(p)  == {i \in DOMAIN p : p[i].op = "if"}
Tops(p) == {i \in Ifs(p) : \A j \in Ifs(p) : i \notin Inside(p, j)}

\* every read inside a nested if is of a location the nested if versions, or
\* of one its outermost if cannot touch
ReadsCovered(p, t, i) ==
    \A j \in Inside(p, i) : \A n \in 1..Arity :
        \/ p[j].args[n] \in Scanned(p, t, i)
        \/ \A w \in Scanned(p, t, t) : ~MayAlias(w, p[j].args[n])

\* a nested if writes no location with a hoisted key
PlainKeys(p, t, i) == \A l \in Scanned(p, t, i) : ~HasText(l)

\* nothing is declared inside an encrypted branch
NoBranchLocals(p) == \A t \in Ifs(p) : \A j \in Inside(p, t) : p[j].op # "decl"

\* two lvalues the analysis holds to be distinct are distinct at run time
AliasSound(c) == \A a, b \in LValue : a # b /\ ~MayAlias(a, b) => c[a] # c[b]

Supported(p) ==
    /\ NoBranchLocals(p)
    /\ \A t \in Ifs(p) : \A i \in Ifs(p) \cap Inside(p, t) :
          ReadsCovered(p, t, i) /\ PlainKeys(p, t, i)

-----------------------------------------------------------------------------
(* Properties                                                              *)

LocKeys == [lv : LValue, table : Nat]

FrameOK(f, w) ==
    /\ DOMAIN f = {"cond", "writes", "pre", "cur", "fresh", "thn", "thnFresh", "used"}
    /\ f.cond \in BOOLEAN
    /\ f.writes = w
    /\ f.pre \in [w -> Val] /\ f.cur \in [w -> Val] /\ f.thn \in [w -> Val]
    /\ f.fresh \subseteq w /\ f.thnFresh \subseteq w /\ f.used \subseteq w

\* Every frame has the write set of its if, and environments total on it.
TypeOK ==
    /\ ControlOK
    /\ mem \in [Cell -> Val] /\ store \in [Cell -> Val]
    /\ cond \in [1..depth -> BOOLEAN]
    /\ DOMAIN frames = 1..depth
    /\ \A i \in 1..depth :
          FrameOK(frames[i], WriteSet(prog, encl[1].at, encl[i].at))
    /\ refused \in BOOLEAN
    /\ bare \subseteq Cell
    /\ preRead \subseteq (Nat \X LValue)

\* The places of locals declared inside some encrypted if: once the if is
\* over they are out of scope, whatever was left in them.
LocalPlaces ==
    {cell[l] : l \in {m \in LValue : /\ m.root \notin Pointers
                                     /\ \E t \in Ifs(prog) : BranchLocal(prog, t, m)}}

\* Prime directive (spec.md 1.3): between statements outside every encrypted
\* if, the lowered text has left in every variable and slot in scope what the
\* source leaves there, whatever arms the conditions selected.
StoresAgree == depth = 0 /\ ~refused => \A c \in Cell \ LocalPlaces : store[c] = mem[c]

\* The else-branch must read values as they were before the if (spec.md 5.2):
\* while a branch runs, the emitted text writes nothing outside the if; only
\* the merges of the outermost if do.
BranchesWriteNothing ==
    [][depth > 0 /\ depth' > 0 => \A c \in Cell \ LocalPlaces : store'[c] = store[c]]_vars

\* In the arms the conditions selected, what the rendered text reads for a
\* location is what the source would read there, at every point of a branch
\* and not only after the merge.
BranchesRead ==
    depth > 0 /\ ~refused /\ Running =>
        \A l \in {m \in LValue : Versioned(m)} : Read(l) = mem[cell[l]]

\* Why the two runs agree (the inductive invariant of IfLowering_proofs).  The
\* enclosing ifs up to the i-th are in the arms their conditions selected:
Taken(i) == \A j \in 1..i : Selected(j)

\* no two locations of an open outermost if may be one
WritesDecided == depth > 0 => ~UndecidableWrites(prog, encl[1].at, encl[1].at)

\* on the path taken so far, the lowered conditions are the source's
CondsAgree == \A i \in 1..depth : Taken(i-1) => (frames[i].cond <=> cond[i])

\* a nested frame versions locations of the frame around it and no other, and
\* its pre-values are what that frame held when it was opened
PresHold ==
    \A i \in 1..depth : \A k \in frames[i].writes :
        IF i = 1 THEN frames[i].pre[k] = store[cell[k.lv]]
        ELSE k \in frames[i-1].writes /\ frames[i].pre[k] = frames[i-1].cur[k]

\* on the path taken, a location is, in the source, what the innermost frame
\* that versions it holds for it
ViewsAgree ==
    \A i \in 1..depth : Taken(i) =>
        \A k \in frames[i].writes : (i < depth => k \notin frames[i+1].writes) =>
            mem[cell[k.lv]] = frames[i].cur[k]

\* where the path leaves the arm taken, it is what that arm left (the else-arm
\* is running) or will start from (the then-arm is)
SkippedAgree ==
    \A i \in 1..depth : Taken(i-1) /\ ~Selected(i) =>
        \A k \in frames[i].writes :
            mem[cell[k.lv]] = IF encl[i].arm = "else" THEN frames[i].thn[k]
                                                      ELSE frames[i].pre[k]

\* places no frame versions agree at every moment
RestAgrees ==
    \A c \in Cell :
        (depth > 0 => \A k \in frames[1].writes : cell[k.lv] # c) => mem[c] = store[c]

BranchInv == /\ WritesDecided /\ CondsAgree /\ PresHold
             /\ ViewsAgree /\ SkippedAgree /\ RestAgrees

\* Every storage write the emitted text makes for an encrypted if carries its
\* grants (spec.md 8.1: merges are R1 writes).
MergedStorageGranted == depth = 0 /\ ~refused => bare = {}

\* What spec.md 5.2 step 4 says needs a pre-value: an arm that reads the
\* location before assigning it, or does not assign it.  An if inside the arm
\* assigns it when both its arms do and neither reads it.
NeedsPre(i, l) ==
    LET Sets(j)   == prog[j].op = "set" /\ prog[j].lv = l
        Reads(j)  == \E n \in 1..Arity : prog[j].args[n] = l
        Arms(j)   == {{k \in Inside(prog, j) : k < prog[j].els},
                      {k \in Inside(prog, j) : k >= prog[j].els}}
        In(a)     == {j \in a : \A k \in Ifs(prog) \cap a : j \notin Inside(prog, k)}
        Assigns(j) == \/ Sets(j)
                      \/ /\ prog[j].op = "if"
                         /\ \A a \in Arms(j) : \E k \in In(a) : Sets(k)
                         /\ \A k \in Inside(prog, j) : ~Reads(k)
    IN \E a \in Arms(i) :
          \/ \A j \in In(a) : ~Assigns(j)
          \/ \E j \in a : Reads(j) /\ \A k \in In(a) : k < j => ~Assigns(k)

\* The pre-values the text of an outermost if declares are exactly the ones
\* step 4 asks for: one too few and the text names an undeclared temp, one too
\* many and it reads a handle that may be uninitialized.
Closed == {i \in Tops(prog) : pc >= prog[i].end /\ depth = 0}
PreValuesExactOf(i) ==
    DirectShape(prog, i, i) \/
        \A l \in Scanned(prog, i, i) : <<i, l>> \in preRead <=> NeedsPre(i, l)
PreValuesExact == ~refused => \A i \in Closed : PreValuesExactOf(i)

\* The same of an if that holds no other: the lowering declares one too many
\* in some that do.
FlatPreValuesExact ==
    ~refused => \A i \in Closed : Ifs(prog) \cap Inside(prog, i) = {} => PreValuesExactOf(i)
=============================================================================
