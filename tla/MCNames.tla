------------------------------- MODULE MCNames -------------------------------
(***************************************************************************)
(* Three families of units: hierarchies of four contracts; members of the   *)
(* name in the contract, its bases and an unseen base; files that import    *)
(* one another and unseen ones.                                             *)
(***************************************************************************)
EXTENDS Names

CONSTANTS Families,    \* "orders", "members", "files", "blocks"
          Reexports    \* whether an imported file may import the name itself

D(at, kind, sig, private) == [at |-> at, n |-> sig, kind |-> kind, sig |-> sig, private |-> private]
Var(at)      == D(at, "var", 0, FALSE)
Hidden(at)   == D(at, "var", 0, TRUE)
Fn(at, sig)  == D(at, "fn", sig, FALSE)
Library(at)  == D(at, "library", 0, FALSE)

Import(kind, from, orig) == [kind |-> kind, from |-> from, orig |-> orig]
Plain(from)  == Import("plain", from, "N")
Name(from)   == Import("names", from, "N")
Other(from)  == Import("names", from, "M")
Star(from)   == Import("glob", from, "N")

File(own, imports) == [own |-> [N |-> own, M |-> {}], imports |-> imports]
Alone == [main |-> File({}, << >>)]
Func(of, param, body) == [of |-> of, param |-> param, body |-> body]
Contract(members, bases) == [members : members, bases : bases]
Unit(files, contracts, fns) == [files : files, contracts : contracts, fn : fns, builtin : {FALSE}]

MCWorlds == [vendor : {[N |-> ds, M |-> {Var("vendor M")}] : ds \in {{}, {Var("vendor")}}},
             X : {{}, {Var("X")}, {Fn("X", 1)}, {Fn("X", 2)}, {Fn("X", 1), Fn("X", 2)}}]

OneFn == {Func("C", FALSE, <<"use">>)}

Distinct(cs, n) == {s \in UNION {[1..k -> cs] : k \in 0..n} : \A i, j \in DOMAIN s : s[i] = s[j] => i = j}

Bare(bases) == Contract({{}}, bases)
OrderUnits ==
    Unit({Alone}, [C : Bare(Distinct({"A", "B", "O"}, 3)), B : Bare(Distinct({"A", "O"}, 2)),
                   A : Bare({<< >>, <<"O">>, <<"X">>, <<"C">>}), O : Bare({<< >>, <<"X">>, <<"B">>})], OneFn)

MemberSets(c) == {{}, {Var(c)}, {Hidden(c)}, {Fn(c, 1)}, {Fn(c, 2)}}
MemberFiles ==
    {Alone, [main |-> File({Var("main")}, << >>)], [main |-> File({}, <<Name("vendor")>>)],
     [main |-> File({}, <<Name("profile")>>)], [main |-> File({}, <<Plain("profile"), Plain("vendor")>>)]}
MemberUnits ==
    Unit(MemberFiles,
         [C : Contract({{}, {Fn("C", 1)}}, Distinct({"A", "B", "X"}, 2)),
          B : Contract(MemberSets("B"), Distinct({"A", "X"}, 2)),
          A : Contract(MemberSets("A"), {<< >>})], OneFn)

MainImports ==
    {<< >>} \cup {<<e>> : e \in {Plain("b"), Name("b"), Other("b"), Star("b")}}
       \cup {<<e, f>> : e \in {Plain("b"), Name("b")},
                        f \in {Plain("c"), Name("c"), Plain("vendor"), Plain("profile"), Name("profile"), Star("vendor")}}
BImports == {<< >>, <<Plain("c")>>, <<Plain("main")>>, <<Plain("vendor")>>, <<Plain("profile")>>}
              \cup (IF Reexports THEN {<<Name("c")>>, <<Other("c")>>, <<Star("c")>>} ELSE {})
Source(f, owns, imports) == [own : [N : owns, M : {{Var(f)}}], imports : imports]
FileUnits ==
    Unit([main : Source("main M", {{}, {Var("main")}}, MainImports),
          b : Source("b M", {{}, {Var("b")}, {Fn("b", 1)}, {Library("b")}}, BImports),
          c : Source("c M", {{}, {Fn("c", 2)}, {Var("c")}}, {<< >>})],
         [C : Bare({<< >>})], OneFn \cup {Func("none", FALSE, <<"use">>)})

Balanced(b) ==
    /\ \A i \in DOMAIN b : Cardinality({j \in 1..i : b[j] = "close"}) <= Cardinality({j \in 1..i : b[j] = "open"})
    /\ Cardinality({j \in DOMAIN b : b[j] = "close"}) = Cardinality({j \in DOMAIN b : b[j] = "open"})
Bodies == {b \in [1..6 -> {"open", "close", "declare", "use"}] : Balanced(b)}
BlockUnits ==
    Unit({[main |-> File({}, i)] : i \in {<<Name("profile")>>, << >>}},
         [C : Contract({{}, {Var("C")}}, {<< >>})],
         {Func("C", p, b) : p \in BOOLEAN, b \in Bodies})

Family(f) ==
    CASE f = "orders" -> OrderUnits [] f = "members" -> MemberUnits
      [] f = "files"  -> FileUnits  [] f = "blocks"  -> BlockUnits
MCUnits == [f \in Families |-> Family(f)]
=============================================================================
