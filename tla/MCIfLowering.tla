---------------------------- MODULE MCIfLowering -----------------------------
(***************************************************************************)
(* Small bodies for IfLowering: every body of a shape, with every choice   *)
(* of what each statement writes and reads.                                *)
(***************************************************************************)
EXTENDS IfLowering

Lv(r, ss) == [root |-> r, segs |-> ss]
Text(n)   == [kind |-> "text", name |-> n]
Lit(n)    == [kind |-> "lit", name |-> n]
Field(n)  == [kind |-> "field", name |-> n]

A   == Lv("a", << >>)
B   == Lv("b", << >>)
X   == Lv("x", << >>)
MI  == Lv("m", <<Text("i")>>)
MJ  == Lv("m", <<Text("j")>>)
PF  == Lv("p", <<Field("f")>>)

MCStateVars == {"a", "b", "m"}
MCPointers  == {"p"}
MCVal       == {0, 1}
MCFn        == {"copy", "flip"}
MCApply(f, v) == IF f = "copy" THEN v[1] ELSE 1 - v[1]

Set(l, r)  == [op |-> "set", lv |-> l, args |-> <<r>>, els |-> 0, end |-> 0,
               fn |-> IF l = r THEN "flip" ELSE "copy", pure |-> TRUE]
Decl(l, r) == [Set(l, r) EXCEPT !.op = "decl"]
If(c, els, end, pure) ==
    [op |-> "if", lv |-> c, fn |-> "copy", args |-> <<c>>, els |-> els,
     end |-> end, pure |-> pure]
Sets(ls)   == {Set(l, r) : l, r \in ls}

-----------------------------------------------------------------------------
(* One set of places for all the families below: lvalues that no body has  *)
(* together may share a place; m[i] and m[j] are one or two at run time,   *)
(* and the place of a storage pointer is never read.                       *)

PlainLv     == {A, B, X}
P           == Lv("p", << >>)
MCLv        == {A, B, X, MI, MJ, P, PF}
MCStorage   == {"s1", "s2", "s3"}
MCCells     == MCStorage \cup {"v"}
MCLayouts   == {[l \in MCLv |-> CASE l = A -> "s1" [] l = X -> "v" [] l = MJ -> mj
                                  [] l = P -> "s3" [] OTHER -> "s2"] : mj \in {"s2", "s3"}}

-----------------------------------------------------------------------------
(* One if over identifiers and indexed locations.                          *)

FlatLv    == {A, X, MI, MJ}

FlatPrograms ==
    {<<If(A, 4, 5, FALSE), s, t, e>>
       : s, t \in Sets(FlatLv), e \in {Set(l, A) : l \in FlatLv}}
    \cup {<<If(A, 4, 4, FALSE), s, t, e>> : s, t \in Sets(FlatLv), e \in {Set(X, A)}}
    \cup {<<If(c, 3, 4, TRUE), s, e, Set(X, A)>> : c \in {A, MI}, s, e \in Sets(FlatLv)}

-----------------------------------------------------------------------------
(* Nested ifs over identifiers: the bodies the lowering is right about.    *)

Few == {Set(A, B), Set(X, X), Set(B, A)}

NestedAll ==
    {<<If(A, 7, 8, FALSE), s, If(c, 5, 6, pure), t, e, u, Set(B, A), Set(B, X)>>
       : s \in Sets(PlainLv), t, e, u \in Few, c \in {A, B}, pure \in BOOLEAN}
    \cup
    {<<If(A, 7, 7, FALSE), s, If(B, 6, 6, FALSE), If(c, 6, 6, FALSE), t, u>>
       : s, t \in Sets(PlainLv), u \in Few, c \in {A, X}}
NestedPrograms == {p \in NestedAll : Supported(p)}

-----------------------------------------------------------------------------
(* Branch locals, and storage pointers declared before the if.             *)

LocalPrograms ==
    {<<If(A, 5, 6, FALSE), Decl(X, r), s, t, e, u>>
       : r \in {A, B}, s, t \in Sets(PlainLv), e \in Few \ {Set(X, X)}, u \in {Set(B, A)}}
    \cup
    {<<Decl(P, A), If(c, 5, 6, TRUE), s, t, e>>
       : c \in {A, PF}, s, t \in Sets({A, PF, X}), e \in {Set(PF, X), Set(X, A), Set(A, PF)}}
    \cup
    {<<Decl(P, A), If(c, 4, 5, TRUE), s, e>>
       : c \in {A, PF}, s, e \in Sets({A, PF, X})}

MCPrograms == FlatPrograms \cup NestedPrograms \cup LocalPrograms

-----------------------------------------------------------------------------
(* One body each for what the lowering gets wrong, to be checked with      *)
(* IfAll.cfg and these Programs instead of MCPrograms.                     *)

\* if (a) { x = b; if (a) { b = x; } }
ReadThroughPrograms == {<<If(A, 5, 5, FALSE), Set(X, B), If(A, 5, 5, FALSE), Set(B, X)>>}

\* if (a) { T x = a; if (b) { x = b; } a = x; }
OuterLocalPrograms ==
    {<<If(A, 6, 6, FALSE), Decl(X, A), If(B, 5, 5, FALSE), Set(X, B), Set(A, X)>>}

\* if (a) { if (a) { m[i] = a; } }
NestedKeyPrograms == {<<If(A, 4, 4, FALSE), If(A, 4, 4, FALSE), Set(MI, A)>>}

\* S storage p = m[1]; if (a) { p.f = a; x = m[1].f; }
M1F == Lv("m", <<Lit("1"), Field("f")>>)
PointerLv      == {A, X, P, PF, M1F}
PointerCells   == {"a", "x", "p", "m1f"}
PointerStorage == {"a", "m1f"}
PointerLayouts == {[l \in PointerLv |-> IF l \in {PF, M1F} THEN "m1f" ELSE l.root]}
PointerPrograms ==
    {<<Decl(P, A), If(A, 5, 5, FALSE), Set(PF, A), Set(X, M1F)>>}

\* if (a) { S storage p = s; p.f = b; }
BranchPointerPrograms == {<<If(A, 4, 4, FALSE), Decl(P, A), Set(PF, B)>>}

\* if (a) { if (b) { x = a; } else { x = b; } } else { x = a; }, with an operand
\* that keeps the general form
BothArmsPrograms ==
    {<<If(A, 5, 6, FALSE), If(B, 4, 5, FALSE), Set(X, A), Set(X, B), Set(X, A)>>}
=============================================================================
