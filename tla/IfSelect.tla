------------------------------ MODULE IfSelect -------------------------------
(***************************************************************************)
(* Pass 2 of fhec-lower (crates/fhec-lower/src/pass_if.rs): the lowering   *)
(* of if/else on encrypted conditions to straight-line FHE.select code by  *)
(* branch versioning, together with the run of the text it emits.          *)
(*                                                                         *)
(* The emitted text runs in the order the renderer emits it: a frame       *)
(* hoists its condition, reads a pre-value of every location of its write  *)
(* set, runs the then-arm on version temps, the else-arm on version temps  *)
(* of its own, and merges location by location.  A version temp is         *)
(* assigned exactly once, so cur[k] is the value of the temp the           *)
(* environment of the arm being rendered holds for location k, and         *)
(* k \in fresh says that temp is no longer the pre-value temp.             *)
(*                                                                         *)
(* Left out: temp names (TempHint), the text itself and its indentation,   *)
(* encrypted types, unchecked blocks and expression statements (pure       *)
(* expressions have no effect), the text of the grants.                    *)
(***************************************************************************)
EXTENDS IfControl

VARIABLES store,    \* the places, as the emitted text leaves them
          frames,   \* the frame of each enclosing if (render_frame's locals)
          refused,  \* the lowering failed: nothing is emitted for the file
          bare,     \* storage whose last write in an encrypted if got no grant
          preRead   \* the pre-value temps declared so far: <<if, lvalue>>

selectVars == <<control, store, frames, refused, bare, preRead>>

SelectInit == /\ ControlInit
              /\ store \in [Cell -> Val]
              /\ frames = << >>
              /\ refused = FALSE
              /\ bare = {}
              /\ preRead = {}

-----------------------------------------------------------------------------
(* Reads.  An environment knows the frame it belongs to and no other.      *)

Has(k)       == depth > 0 /\ k \in frames[depth].writes
Key(l)       == LocKey(encl[depth].at, l)
Versioned(l) == depth > 0 /\ Key(l) \in frames[depth].writes

ReadKey(k) == IF Has(k) THEN frames[depth].cur[k] ELSE store[cell[k.lv]]
Read(l)    == IF Versioned(l) THEN frames[depth].cur[Key(l)] ELSE store[cell[l]]
Rendered(s) == Apply(s.fn, [n \in 1..Arity |-> Read(s.args[n])])

\* Fault: every read counts as a read of the pre-value, a later one too.
PreOfAnyRead(s) == {Key(s.args[n]) : n \in {m \in 1..Arity : Versioned(s.args[m])}}

\* the pre-value temps of the current frame that rendering s mentions
PreOf(s) == {Key(s.args[n]) : n \in {m \in 1..Arity : Versioned(s.args[m])}}
               \ (IF depth > 0 THEN frames[depth].fresh ELSE {})

\* a read that may be a written location without being one for certain
UndecidableRead(s) ==
    /\ depth > 0
    /\ \E n \in 1..Arity : ~Versioned(s.args[n]) /\
          \E w \in frames[depth].writes : MayAlias(w.lv, s.args[n])

Direct == Here.op = "if" /\ DirectShape(prog, Outermost, pc)

\* the lowering of the statement at pc fails, and with it the whole file
Refused ==
    \/ UndecidableRead(Here)
    \/ Direct /\ (UndecidableRead(prog[pc+1]) \/ UndecidableRead(prog[pc+2]))
    \/ Here.op = "if" /\ ~Direct /\ UndecidableWrites(prog, Outermost, pc)
    \/ /\ Here.op = "set" /\ depth > 0
       /\ ~BranchLocal(prog, Outermost, Here.lv) /\ ~Versioned(Here.lv)

Ready == InArm /\ ~refused /\ ~Refused

Refuse == /\ InArm /\ ~refused /\ Refused
          /\ refused' = TRUE
          /\ UNCHANGED <<control, store, frames, bare, preRead>>

-----------------------------------------------------------------------------
(* Writes                                                                  *)

\* the current frame after rendering mentions the pre-values in ks
Using(ks) ==
    LET f == frames[depth]
    IN [frames EXCEPT ![depth] = [f EXCEPT !.used = f.used \cup ks]]

\* a fresh version temp of location k takes the value v
Version(k, v, ks) ==
    LET f == frames[depth]
    IN [frames EXCEPT ![depth] = [f EXCEPT !.cur   = [f.cur EXCEPT ![k] = v],
                                           !.fresh = f.fresh \cup {k},
                                           !.used  = f.used \cup ks]]

Store(l, v) == store' = [store EXCEPT ![cell[l]] = v]

\* outside every encrypted if: written in place, grants are pass 3's
AssignPlain ==
    /\ Ready /\ depth = 0
    /\ Here.op = "set" \/ (Here.op = "decl" /\ Here.lv.root \notin Pointers)
    /\ Store(Here.lv, Rendered(Here))
    /\ bare' = bare \ {cell[Here.lv]}
    /\ UNCHANGED <<frames, refused, preRead>>
    /\ Advance

\* an assignment to a location of the write set
AssignVersion ==
    /\ Ready /\ depth > 0
    /\ Here.op = "set" /\ ~BranchLocal(prog, Outermost, Here.lv)
    /\ frames' = Version(Key(Here.lv), Rendered(Here), PreOf(Here))
    /\ UNCHANGED <<store, refused, bare, preRead>>
    /\ Advance

\* a branch local stays a plain assignment or declaration of its own name
AssignLocal ==
    /\ Ready /\ depth > 0
    /\ \/ Here.op = "set" /\ BranchLocal(prog, Outermost, Here.lv)
       \/ Here.op = "decl" /\ Here.lv.root \notin Pointers
    /\ Store(Here.lv, Rendered(Here))
    /\ bare' = bare \cup ({cell[Here.lv]} \cap StorageCell)
    /\ frames' = Using(PreOf(Here))
    /\ UNCHANGED <<refused, preRead>>
    /\ Advance

DeclarePointer ==
    /\ Ready
    /\ Here.op = "decl" /\ Here.lv.root \in Pointers
    /\ UNCHANGED <<store, frames, refused, bare, preRead>>
    /\ Advance

-----------------------------------------------------------------------------
(* Frames                                                                  *)

\* steps 2 to 4 of render_frame: condition, write set, pre-values
OpenFrame ==
    /\ Ready /\ Here.op = "if" /\ ~Direct
    /\ LET w     == WriteSet(prog, Outermost, pc)
           pre   == [k \in w |-> ReadKey(k)]
           frame == [cond |-> Rendered(Here) = TrueVal, writes |-> w,
                     pre |-> pre, cur |-> pre, fresh |-> {},
                     thn |-> pre, thnFresh |-> {}, used |-> {}]
           incoming == {k \in w : Has(k) /\ k \notin frames[depth].fresh}
           outer == IF depth = 0 THEN frames
                    ELSE Using(PreOf(Here) \cup incoming)
       IN frames' = [i \in 1..depth+1 |-> IF i <= depth THEN outer[i] ELSE frame]
    /\ UNCHANGED <<store, refused, bare, preRead>>
    /\ Enter

\* the else-arm gets an environment of its own, seeded from the pre-values
TurnFrame ==
    /\ Turn /\ ~refused
    /\ LET f == frames[depth]
       IN frames' = [frames EXCEPT ![depth] =
                       [f EXCEPT !.thn = f.cur, !.thnFresh = f.fresh,
                                 !.cur = f.pre, !.fresh    = {}]]
    /\ UNCHANGED <<store, refused, bare, preRead>>

\* Fault: the arms of FHE.select are swapped.
SelectSwapped(f, k) == IF f.cond THEN f.cur[k] ELSE f.thn[k]

SelectOf(f, k) == IF f.cond THEN f.thn[k] ELSE f.cur[k]

\* the places the emitted merges assign, and what: the merges of the locations
\* in ks, in first-write order, so the last one for a place stands
Merged(f, ks) ==
    [c \in Cell |->
        LET here == {k \in ks : cell[k.lv] = c}
            pos(k) == FirstWrite(prog, encl[depth].at, k.lv)
            last   == CHOOSE k \in here : \A j \in here \ {k} : pos(j) < pos(k)
        IN IF here = {} THEN store[c] ELSE SelectOf(f, last)]

\* what is still without a grant once the lvalues ls were written in place:
\* the renderer appends grants where it classifies the location as storage
Bare(ls) == (bare \cup ({cell[l] : l \in ls} \cap StorageCell))
              \ {cell[l] : l \in {m \in ls : IsStorage(m)}}

\* Fault: the merge of a nested if is not recorded in the environment of the
\* arm around it.
MergingLost(f, ks) ==
    LET o == frames[depth-1] IN [o EXCEPT !.fresh = o.fresh \cup ks]

\* the enclosing frame with a fresh version of each location in ks
Merging(f, ks) ==
    LET o == frames[depth-1]
    IN [o EXCEPT !.cur   = [k \in o.writes |-> IF k \in ks THEN SelectOf(f, k)
                                               ELSE o.cur[k]],
                 !.fresh = o.fresh \cup ks]

\* step 6: a location the enclosing frame versions merges into a fresh version
\* of it, any other is written in place, with its grants if it is storage
MergeFrame ==
    /\ Leave /\ ~refused
    /\ LET f      == frames[depth]
           up     == IF depth > 1 THEN f.writes \cap frames[depth-1].writes ELSE {}
           direct == f.writes \ up
           pres   == f.used \cup (f.writes \ f.thnFresh) \cup (f.writes \ f.fresh)
       IN /\ frames'  = [i \in 1..depth-1 |-> IF i = depth-1 THEN Merging(f, up)
                                               ELSE frames[i]]
          /\ store'   = Merged(f, direct)
          /\ bare'    = Bare({k.lv : k \in direct})
          /\ preRead' = preRead \cup {<<encl[depth].at, k.lv>> : k \in pres}
    /\ UNCHANGED refused

\* try_direct_select: L = FHE.select(cond, thenRhs, elseRhs), no temps
DirectSelect ==
    /\ Ready /\ Direct
    /\ LET s    == prog[pc+1]
           v    == IF Rendered(Here) = TrueVal THEN Rendered(s)
                                               ELSE Rendered(prog[pc+2])
           pres == PreOf(Here) \cup PreOf(s) \cup PreOf(prog[pc+2])
       IN IF Versioned(s.lv)
          THEN /\ frames' = Version(Key(s.lv), v, pres)
               /\ UNCHANGED <<store, bare>>
          ELSE /\ frames' = IF depth = 0 THEN frames ELSE Using(pres)
               /\ Store(s.lv, v)
               /\ bare' = Bare({s.lv})
    /\ UNCHANGED <<refused, preRead>>
    /\ JumpOver

SelectNext == \/ Refuse \/ AssignPlain \/ AssignVersion \/ AssignLocal
              \/ DeclarePointer \/ OpenFrame \/ TurnFrame \/ MergeFrame
              \/ DirectSelect

SelectSpec == SelectInit /\ [][SelectNext]_selectVars
=============================================================================
