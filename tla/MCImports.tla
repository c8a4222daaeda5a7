------------------------------ MODULE MCImports -------------------------------
(***************************************************************************)
(* A unit of A.fsol, x/B.fsol and the plain C.sol, and the libraries p     *)
(* and q, q below p's own node_modules or beside p.                        *)
(***************************************************************************)
EXTENDS Imports, TLC

MCName == STRING
MCRoot == <<"r">>
Path(dir, stem, ext) == [dir |-> dir, stem |-> stem, ext |-> ext]
Spec1(up, dir, stem, ext) == [up |-> up, dir |-> dir, stem |-> stem, ext |-> ext]

A == Path(<< >>, "A", "fsol")
B == Path(<<"x">>, "B", "fsol")
C == Path(<< >>, "C", "sol")

MCPaths == {<<A>>, <<A, B>>, <<C, B>>}

\* how a file at a directory names another of the unit
To(from, p) == IF from.dir = << >> THEN Spec1(1, p.dir, p.stem, p.ext)
               ELSE IF p.dir = << >> THEN Spec1(2, << >>, p.stem, p.ext)
               ELSE Spec1(1, << >>, p.stem, p.ext)

LibP == Spec1(0, <<"p">>, "X", "sol")
LibQ == Spec1(0, <<"q">>, "Z", "sol")
Sibling == Spec1(1, << >>, "Y", "sol")
Itself  == Spec1(2, <<"p">>, "X", "sol")

Plain(spec)   == [quote |-> "double", code |-> TRUE, line |-> TRUE, spec |-> spec]
Single(spec)  == [Plain(spec) EXCEPT !.quote = "single"]
Split(spec)   == [Plain(spec) EXCEPT !.line = FALSE]
Comment(spec) == [Plain(spec) EXCEPT !.code = FALSE]
UpToTwo(ds)  == {<< >>} \cup {<<d>> : d \in ds} \cup {<<d, e>> : d \in ds, e \in ds}

OfDialect(p) == {Plain(To(p, A)), Plain(To(p, B)), Plain(To(p, [A EXCEPT !.ext = "sol"]))}
OfLibrary    == {Plain(LibP), Single(LibP), Single(LibQ), Comment(LibP)}
Careful(p)   == {<< >>} \cup {<<d>> : d \in OfDialect(p) \cup OfLibrary}
                \cup {<<d, e>> : d \in OfDialect(p), e \in OfLibrary}
                \cup {<<d, e>> : d \in OfLibrary, e \in OfLibrary}
WithPlain(p) == UpToTwo(OfDialect(p) \cup {Plain(To(p, C))})
Quoted(p)    == UpToTwo(OfDialect(p) \cup {Single(To(p, A))})
Climbing(p)  == UpToTwo({Plain(To(p, A)), Plain([To(p, A) EXCEPT !.up = 4])})
ManyLines(p) == UpToTwo({Plain(To(p, A)), Plain(LibP), Split(LibP)})
\* import lines in a block comment: of a source, and of an output
OfSources(p) == UpToTwo({Plain(To(p, A)), Comment(To(p, A))})
OfOutputs(p) == UpToTwo({Plain(To(p, A)), Comment(To(p, [A EXCEPT !.ext = "sol"]))})

X == Path(<<"r", "node_modules", "p">>, "X", "sol")
Y == Path(<<"r", "node_modules", "p">>, "Y", "sol")
Nested == Path(<<"r", "node_modules", "p", "node_modules", "q">>, "Z", "sol")
Hoisted == Path(<<"r", "node_modules", "q">>, "Z", "sol")
Above   == Path(<<"node_modules", "q">>, "Z", "sol")

XImports == {<< >>, <<Plain(Sibling)>>, <<Plain(LibQ)>>, <<Plain(Itself), Plain(LibQ)>>,
             <<Plain(Sibling), Single(LibQ)>>, <<Comment(Itself), Plain(Sibling)>>}
YImports == {<< >>, <<Plain(Itself)>>, <<Plain(LibQ)>>}
Having(files) == {d \in [files -> XImports \cup YImports] :
                    /\ d[X] \in XImports /\ (Y \in files => d[Y] \in YImports)
                    /\ \A f \in files \ {X, Y} : d[f] = << >>}
MCDisks     == UNION {Having(fs) : fs \in {{X}, {X, Y, Nested}, {X, Y, Above}}}
JustOne     == {X :> <<Plain(Sibling)>> @@ Y :> << >>}
TwoVersions == Having({X, Y, Nested, Hoisted})
=============================================================================
