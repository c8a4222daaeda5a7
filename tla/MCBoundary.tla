----------------------------- MODULE MCBoundary -----------------------------
(***************************************************************************)
(* Three families of functions: one input and a guard of one or two         *)
(* statements; parameter lists of every form with bodies that use the names *)
(* the expansion generates; and functions with a shared result.             *)
(***************************************************************************)
EXTENDS Boundary

CONSTANT Called     \* the functions a guard may call

N(op, v, kids) == [op |-> op, v |-> v, kids |-> kids]
Name(x)        == N("name", x, << >>)
Do(op, kids)   == N(op, "", kids)
Lit            == Do("lit", << >>)
Expr(e)        == Do("expr", <<e>>)
Set(l, r)      == Do("assign", <<l, r>>)
At(e)          == Do("index", <<e, Lit>>)
Let(x, e)      == N("declare", x, <<e>>)

\* x and y are inputs, p a proof, m an array in memory, s plain, e encrypted
\* and u unknown state, k imported; a, b and i are locals.
Kind(nest, ref, foreign) == [nest |-> nest, ref |-> ref, foreign |-> foreign]
Generated == {"x_input", "y_input", "x_shared", "inputProof"}
MCVars ==
    [x \in {"x", "y"} |-> Kind("enc", FALSE, FALSE)]
    @@ [x \in {"p", "m", "a"} |-> Kind("plain", TRUE, FALSE)]
    @@ [x \in {"s", "i", "msg"} \cup Generated |-> Kind("plain", FALSE, FALSE)]
    @@ ("e" :> Kind("enc", FALSE, FALSE)) @@ ("b" :> Kind("enc", FALSE, FALSE))
    @@ ("u" :> Kind("unknown", FALSE, FALSE)) @@ ("k" :> Kind("unknown", FALSE, TRUE))

Fun(of, changes, memory, returns) ==
    [of |-> of, changes |-> changes, memory |-> memory, returns |-> returns]
View(of) == Fun(of, FALSE, FALSE, "plain")
Sets(of) == Fun(of, TRUE, FALSE, "plain")
MCCallees ==
    "require" :> {View("builtin")} @@ "view" :> {View("own")} @@ "set" :> {Sets("own")}
    @@ "sort" :> {Fun("own", FALSE, TRUE, "plain")} @@ "read" :> {Fun("own", FALSE, FALSE, "enc")}
    @@ "two" :> {View("own"), Sets("own")} @@ "based" :> {View("based"), Sets("unseen")}
    @@ "file" :> {View("file"), Sets("unseen")} @@ "over" :> {View("own"), Sets("based")}

-----------------------------------------------------------------------------
Param(name, form, proof) ==
    [name |-> name, form |-> form, proof |-> proof, enc |-> form # "plain",
     bytes |-> name = "p", loc |-> IF name \in {"p", "m"} THEN "memory" ELSE ""]
In(x)      == Param(x, "in", "")
InBy(x, p) == Param(x, "in", p)
By(x)      == Param(x, "plain", "")

Fn(params, args, returns, body) ==
    [kind |-> "function", visibility |-> "external", view |-> FALSE, params |-> params,
     args |-> args, returns |-> returns, body |-> body, members |-> {}, opaque |-> FALSE]

Atoms == {Lit} \cup {Name(x) : x \in {"x", "m", "s", "e", "u", "k", "a"}}
Calls == {N("call", f, <<v>>) : f \in Called, v \in {Lit, Name("m"), Name("p")}}
Assigned == {Name("a"), At(Name("a")), Name("m"), At(Name("p")), Name("s"), Do("tuple", <<Name("a"), Name("m")>>)}
GuardExprs ==
    {Do("op", <<v, Lit>>) : v \in Atoms} \cup Calls
    \cup {Set(t, v) : t \in Assigned, v \in {Lit, Name("m"), Name("p")}}
    \cup {Do("step", <<t>>) : t \in Assigned} \cup {Do("delete", <<Name("s")>>), Do("external", <<Name("s")>>)}
    \cup {Do("op", <<N("call", "read", << >>), Lit>>)} \cup {N("convert", t, <<Name("s")>>) : t \in {"plain", "enc"}}
GuardStmts ==
    {Expr(g) : g \in GuardExprs}
    \cup {Do("if", <<Name("s"), Do("block", <<Do("revert", <<Name("a")>>)>>), Expr(g)>>) : g \in GuardExprs}
    \cup {Let("b", Lit), Do("emit", <<Name("s")>>), Do("return", << >>), Do("asm", << >>), Do("try", << >>),
          Do("loop", <<Name("s"), Expr(Set(Name("a"), Lit))>>)}
Firsts == {Let("a", v) : v \in {Do("alloc", << >>), Name("m"), Name("p")}}
Second == {Expr(Set(Name("a"), Name("p"))), Expr(Do("step", <<At(Name("a"))>>)), Expr(N("call", "view", <<Name("s")>>))}
Guarded ==
    {[Fn(<<InBy("x", "p"), By("m"), By("p")>>, << >>, << >>,
         <<Do("pre", <<d, g, h>>), Expr(Do("op", <<Name("x"), Name("s")>>))>>) EXCEPT !.opaque = o] :
        d \in Firsts, g \in GuardStmts, h \in Second, o \in BOOLEAN}
    \cup {Fn(<<In("x")>>, << >>, << >>, body) : body \in
            {<<Expr(Name("x")), Do("pre", << >>)>>, <<Do("pre", <<Do("pre", << >>)>>), Expr(Name("x"))>>,
             <<Do("block", <<Do("pre", <<Let("x", Lit), Expr(Name("x"))>>)>>)>>,
             <<Do("pre", <<Let("x", Lit), Expr(Name("x"))>>), Expr(Name("x"))>>}}

Forms == {In("x"), InBy("x", "p"), InBy("x", "m"), InBy("x", "x_input"), Param("x", "shared", "")}
Others == {By("p"), By("x_input"), By("x_shared"), By("inputProof"), In("y"), InBy("y", "p"),
           Param("y", "shared", ""), In("x_input"), In("inputProof")}
Listed ==
    {Fn(ps, args, << >>, pre \o <<Expr(Do("op", <<Name(z), Name("x")>>)), Expr(Name("s"))>>) :
        ps \in {<<x>> \o r : x \in Forms, r \in {<< >>} \cup {<<z>> : z \in Others} \cup {<<z, By("p")>> : z \in Others \ {By("p")}}},
        args \in {<< >>} \cup {<<Name(z)>> : z \in {"x", "s"} \cup Generated},
        pre \in {<< >>, <<Do("pre", <<Expr(N("call", "require", <<Name("s")>>))>>)>>},
        z \in {"y", "s"} \cup Generated}

Shared(to) == [shared |-> TRUE, to |-> to, enc |-> TRUE, loc |-> "", named |-> FALSE]
Ret(e) == Do("return", <<e>>)
Values == {Name("x"), Name("e"), Name("s"), Do("op", <<Name("e"), Name("s")>>),
           Do("op", <<Do("external", <<Name("e")>>), Name("e")>>), Do("external", <<Name("s")>>),
           Set(Name("e"), Name("x")), N("call", "read", << >>), N("call", "based", << >>)}
Ends(v) ==
    {<<Ret(v)>>, <<Do("if", <<Name("s"), Do("block", <<Ret(v)>>)>>), Ret(Name("e"))>>,
     <<Do("if", <<Name("s"), Ret(v)>>)>>, <<Do("loop", <<Name("s"), Do("block", <<Ret(v)>>)>>)>>,
     <<Do("block", <<Let("msg", Lit), Ret(v)>>)>>, <<Let("msg", Lit), Ret(v)>>,
     <<Do("if", <<Name("s"), Do("block", <<Do("return", << >>)>>)>>), Ret(v)>>}
Results == {<< >>, <<Shared("msg.sender")>>, <<Shared("other")>>, <<Shared("msg.sender"), Shared("msg.sender")>>,
            <<[Shared("msg.sender") EXCEPT !.named = TRUE]>>}
Sharing ==
    UNION {{[Fn(ps, << >>, r, pre \o b) EXCEPT !.members = mem, !.opaque = v.op = "call"] :
              ps \in {<<p>> \o q : p \in {Param("x", "shared", ""), In("x")}, q \in {<< >>, <<By("msg")>>}},
              r \in Results, b \in Ends(v), mem \in {{}, {"msg"}},
              pre \in {<< >>, <<Do("pre", <<Expr(N("call", "require", <<Name("s")>>))>>)>>}} : v \in Values}

MCFunctions == Guarded \cup Listed \cup Sharing
MCNodes == UNION {Within(n) : n \in UNION {Range(f.args) \cup Range(f.body) : f \in MCFunctions}}
=============================================================================
