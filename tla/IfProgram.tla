------------------------------ MODULE IfProgram ------------------------------
(***************************************************************************)
(* The function bodies that pass 2 of fhec-lower (pass_if.rs) lowers, and  *)
(* the analyses it makes of them before it renders anything: what an       *)
(* lvalue denotes, which lvalues may alias, which locals are branch-local, *)
(* and the write set of an encrypted `if`.                                 *)
(*                                                                         *)
(* A body is a sequence of statements in source order.  A statement is     *)
(*    "set"   an assignment, a compound assignment or an increment of lv   *)
(*    "decl"  a declaration of the local lv.root, with its initializer     *)
(*    "if"    an encrypted if: its then-arm is the statements              *)
(*            at+1 .. els-1, its else-arm els .. end-1 (els = end when     *)
(*            there is none); "pure" says the condition and the operands   *)
(*            pass expr_is_select_safe and each arm is a plain assignment. *)
(* The value of an expression is Apply(fn, the values of args): the        *)
(* operator, its coercions and its spelling do not matter to control flow. *)
(* Plaintext values do not change inside an encrypted branch (FHE3006), so *)
(* a layout gives every lvalue one storage cell or local for the whole     *)
(* run; two layouts differ in which non-literal keys are equal at run time.*)
(***************************************************************************)
EXTENDS Integers, Sequences, FiniteSets

CONSTANTS LValue,      \* the lvalues programs mention: [root, segs]
          StateVars,   \* roots that are state variables
          Pointers,    \* roots that are storage-pointer locals
          Cell,        \* run-time places: storage slots and local variables
          StorageCell, \* those that are contract storage
          Layouts,     \* the functions LValue -> Cell a run may start with
          Val,         \* the values a place holds
          TrueVal,     \* the value of a condition that holds
          Fn,          \* expression shapes
          Arity,       \* how many lvalues a shape reads
          Apply(_, _), \* the value of a shape on the values it reads
          Programs     \* the bodies to lower

Seg == [kind : {"field", "lit", "text"}, name : STRING]

Stmt == [op : {"set", "decl", "if"}, lv : LValue, fn : Fn, args : [1..Arity -> LValue],
         els : Nat, end : Nat, pure : BOOLEAN]

\* if spans nest, and the arms of an if lie inside its span
WellNested(p) ==
    \A i \in DOMAIN p : p[i].op = "if" =>
        /\ i + 1 <= p[i].els
        /\ p[i].els <= p[i].end
        /\ p[i].end <= Len(p) + 1
        /\ \A j \in DOMAIN p : p[j].op = "if" =>
              /\ i < j /\ j < p[i].els => p[j].end <= p[i].els
              /\ p[i].els <= j /\ j < p[i].end => p[j].end <= p[i].end

ASSUME SpaceAssumption == /\ StorageCell \subseteq Cell
                          /\ Layouts \subseteq [LValue -> Cell]
ASSUME ValueAssumption ==
    /\ TrueVal \in Val /\ Arity \in Nat
    /\ \A f \in Fn, vals \in [1..Arity -> Val] : Apply(f, vals) \in Val
ASSUME ProgramAssumption ==
    \A p \in Programs : p \in Seq(Stmt) /\ WellNested(p)

-----------------------------------------------------------------------------
(* Aliasing                                                                *)

\* Two segments of two paths scanned by the same frame: a text is one hoisted
\* temp per frame, so texts are the same temp exactly when they are the same
\* text; a text against anything else is undecidable.
SegRel(a, b) ==
    IF a.kind # b.kind THEN "unknown"
    ELSE IF a.name = b.name THEN "same"
    ELSE IF a.kind = "text" THEN "unknown" ELSE "distinct"

\* the first position at which two paths are not provably equal decides; with
\* none, a prefix of a longer path is undecidable
MayAlias(a, b) ==
    /\ a.root = b.root
    /\ LET common  == {i \in DOMAIN a.segs : i \in DOMAIN b.segs}
           differ  == {i \in common : SegRel(a.segs[i], b.segs[i]) # "same"}
           first   == CHOOSE i \in differ : \A j \in differ : i <= j
       IN IF differ = {} THEN TRUE
          ELSE SegRel(a.segs[first], b.segs[first]) = "unknown"

\* The identity of a location in the frame of the if at f.  Non-literal keys
\* are temps of that frame's own key table, so a location with one is a
\* location of that frame alone; table 0 stands for "no key temp".
HasText(l) == \E i \in DOMAIN l.segs : l.segs[i].kind = "text"
LocKey(f, l) == [lv |-> l, table |-> IF HasText(l) THEN f ELSE 0]

\* Fault: a storage pointer is taken for a plain local.
IsStateVar(l) == l.root \in StateVars

IsStorage(l) == l.root \in StateVars \cup Pointers

-----------------------------------------------------------------------------
(* Branch locals and the write set                                         *)

Inside(p, i) == {j \in DOMAIN p : i < j /\ j < p[i].end}

\* A local declared anywhere inside the span of the TOP-LEVEL if at t.
BranchLocal(p, t, l) ==
    \E j \in Inside(p, t) : p[j].op = "decl" /\ p[j].lv.root = l.root

\* Fault: the scan does not descend into nested ifs.
ScannedShallow(p, t, i) ==
    {p[j].lv : j \in {k \in Inside(p, i) :
        /\ p[k].op = "set" /\ ~BranchLocal(p, t, p[k].lv)
        /\ \A n \in Inside(p, i) : p[n].op = "if" => k \notin Inside(p, n)}}

\* The lvalues the scan of the if at i, inside the top-level if at t, records:
\* those set in either arm, nested ifs included, except branch locals.
Scanned(p, t, i) ==
    {p[j].lv : j \in {k \in Inside(p, i) : /\ p[k].op = "set"
                                            /\ ~BranchLocal(p, t, p[k].lv)}}

WriteSet(p, t, i) == {LocKey(i, l) : l \in Scanned(p, t, i)}

\* where the scan meets a location first: merges are emitted in this order
FirstWrite(p, i, l) ==
    CHOOSE j \in Inside(p, i) :
        /\ p[j].op = "set" /\ p[j].lv = l
        /\ \A k \in Inside(p, i) : p[k].op = "set" /\ p[k].lv = l => j <= k

UndecidableWrites(p, t, i) ==
    \E a, b \in Scanned(p, t, i) : a # b /\ MayAlias(a, b)

\* Both arms one assignment of the same identifier, operands free of effects.
DirectShape(p, t, i) ==
    /\ p[i].pure
    /\ p[i].els = i + 2 /\ p[i].end = i + 3
    /\ p[i+1].op = "set" /\ p[i+2].op = "set"
    /\ p[i+1].lv = p[i+2].lv
    /\ p[i+1].lv.segs = << >>
    /\ ~BranchLocal(p, t, p[i+1].lv)
=============================================================================
