------------------------------ MODULE MCBranch ------------------------------
(***************************************************************************)
(* Units of a base contract, one derived from it and a library: an author's *)
(* branch with one statement of every kind, or calls of three helpers, by   *)
(* name or qualified, with every call graph between them.                  *)
(***************************************************************************)
EXTENDS Branch

CONSTANTS Kinds,    \* the statements considered beyond the plain ones
          Layouts   \* "base", "derived", "override", "library"

MCContracts == {"Base", "Derived", "Lib"}
MCOrder == [c \in MCContracts |-> IF c = "Derived" THEN <<"Derived", "Base">> ELSE <<c>>]

Do(op)       == [op |-> op]
To(op, root) == [op |-> op, root |-> root]
\* A call for which the checker finds f, and that names the overload g.
Calling(op, f, g) == [op |-> op, f |-> f, names |-> g]
Call(f)      == Calling("call", f, f)
Qualified(f) == Calling("qualified", f, f)
Super(f)     == Calling("super", f, f)

Ordinary ==
    {Do(op) : op \in {"pure"} \cup Abrupt \cup Flow}
        \cup {To(op, root) : op \in Writes, root \in {"state", "outer", "fresh"}}
        \cup {To("step", "fresh")}
\* Writes through a storage pointer and through a tuple, a nested ++ of an
\* outer variable, and a call of another contract's function named like an
\* operation of the library.
MCWrites == {To(op, "pointer") : op \in Writes}
MCTuples == {To("write", "tuple")}
MCSteps  == {To("step", "outer")}
MCNamed  == {Do("named")}
\* A call of a member of super, of the second of two overloads of a contract,
\* and of an overload of the base.
MCSupers  == {Super(3)}
MCSeconds == {Calling("qualified", 2, 3)}
MCHidden  == {Calling("call", 4, 3)}
Stmts   == Ordinary \cup Kinds
Members == {Super(3), Qualified(3)}
MCStatements == Stmts \cup Members \cup {Call(f) : f \in 2 .. 4}

Fn(of, base, plain, branch, modified) ==
    [of |-> of, base |-> base, plain |-> plain, branch |-> branch, modified |-> modified]

\* Functions 2, 3 and 4 are helpers; 1 and 5 have encrypted branches.
Graphs == [p : {<< >>, <<Do("emit")>>, <<Call(2)>>, <<Call(3)>>, <<Call(4), Do("emit")>>,
                <<Call(3), Call(4)>>},
           q : {<< >>, <<Do("emit")>>, <<Call(2)>>, <<Call(2), Call(4)>>, <<Call(4)>>},
           r : {<< >>, <<Do("emit")>>, <<Call(2)>>}, m : BOOLEAN,
           b : {<<Call(2)>>, <<Call(4), Call(2)>>},
           d : {<<Call(3)>>, <<Qualified(3)>>} \cup {<<s>> : s \in Kinds}]
Line(p, q, r, b, d) == [p |-> p, q |-> q, r |-> r, m |-> FALSE, b |-> b, d |-> d]
Lines  == {Line(<< >>, << >>, << >>, <<s>>, <<Call(3)>>) : s \in Stmts}
            \cup {Line(<<s>>, <<Call(2)>>, <<s>>, b, <<Call(3)>>) :
                    s \in Stmts, b \in {<<Call(2)>>, <<Call(3)>>}}
            \cup {Line(<< >>, << >>, <<s>>, << >>, <<Call(4)>>) : s \in Members}
Layout(l) ==
    CASE l = "base"     -> <<"Base", "Base", "Base", "Base", "Base">>
      [] l = "derived"  -> <<"Base", "Base", "Base", "Derived", "Derived">>
      [] l = "override" -> <<"Base", "Base", "Derived", "Base", "Derived">>
      [] l = "library"  -> <<"Lib", "Lib", "Lib", "Lib", "Base">>
Bases(l) == IF l = "override" THEN <<0, 0, 2, 0, 0>> ELSE <<0, 0, 0, 0, 0>>

\* Solidity names a function of the caller's own contract, of a base (super
\* only these) or, by a qualified call, of a library.
Scoped(u) ==
    \A f \in DOMAIN u : \A i \in DOMAIN (u[f].plain \o u[f].branch) :
        LET s == (u[f].plain \o u[f].branch)[i]
        IN /\ IsCall(s) \/ s.op = "super" =>
                 \A g \in {s.f, s.names} :
                    Inherits(u[f].of, u[g].of) \/ (s.op = "qualified" /\ u[g].of = "Lib")
           /\ s.op = "super" => u[s.names].of # u[f].of
           /\ s.op = "qualified" => u[s.names].of = u[s.f].of

MCUnits ==
    {u \in {LET of == Layout(l)
            IN <<Fn(of[1], 0, << >>, g.b, FALSE), Fn(of[2], 0, g.p, << >>, g.m),
                 Fn(of[3], Bases(l)[3], g.q, << >>, FALSE), Fn(of[4], 0, g.r, << >>, FALSE),
                 Fn(of[5], 0, << >>, g.d, FALSE)>> :
                g \in Graphs \cup Lines, l \in Layouts} : Scoped(u)}
=============================================================================
