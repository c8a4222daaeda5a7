-------------------------------- MODULE MCAcl --------------------------------
(***************************************************************************)
(* The function bodies the runs of Acl read: sequences of statements of a  *)
(* menu, and plain branches of every form with statements around them.     *)
(***************************************************************************)
EXTENDS Acl

Body(ss)  == [b \in {"main"} |-> [place |-> "list", stmts |-> ss]]
Forked(pre, place, inner, post) ==
    [b \in {"main", "branch"} |->
        IF b = "main" THEN [place |-> "list", stmts |-> pre \o <<Branch("branch")>> \o post]
        ELSE [place |-> place, stmts |-> inner]]

MCSlots == {"x", "mine", "pol", "w"}
MCTemps == <<"t1", "t2", "t3", "t4", "t5", "t6", "t7">>
OneKey  == {"m[k]"}

\* Statements that write and hand over.
Plain ==
    {Set("x", "a"), Set("x", "zero"), Set("mine", "make"), Set("pol", "a"),
     Set("m[k]", "x"), Set("w", "wrap"), Set("a", "make"), Call("x", "a", "c"),
     Call(None, "make", "c"), Emit("a"), Emit("make"), Reader("r1", "assign"), Key}
Returns == {Return("x", "a", None), Return("mine", "make", None),
            Return(None, "make", None), Return(None, "x", None),
            Return(None, "x", "c"), Return("pol", "a", "c")}
\* What the author grants.
Author == {Grant("allowThis", "x", None), Grant("allowThis", "a", None),
           Grant("allowTransient", "a", "c"), Grant("allowTransient", "x", "sender"),
           Grant("allow", "pol", "reader"), Grant("allowPublic", "a", None),
           Guard("x", <<Grant("allowThis", "x", None)>>)}

\* A grant of the author for one transaction is about the value handed over.
Writes(s, t) == Computes(s) /\ s.into = t
Fresh(ss) == \A i, j \in DOMAIN ss :
    i < j /\ ss[i].op = "grant" /\ ss[i].fn = "allowTransient" => ~Writes(ss[j], ss[i].e)

Seqs(S, T, n) == {Append(u, t) : u \in [1 .. n - 1 -> S], t \in T}
Some   == Plain \cup Author
Lines  == {ss \in UNION {Seqs(Some, Some \cup Returns, n) : n \in 1 .. 3} : Fresh(ss)}
Externals == {[kind |-> "public", body |-> Body(ss)] : ss \in Lines}

\* Functions no caller is granted anything by.
Inward == {[kind |-> k, body |-> Body(ss)] :
             k \in {"internal", "library"}, ss \in Seqs(Some, Returns, 2)}
Views == {[kind |-> "view", body |-> Body(ss)] :
             ss \in Seqs({Call(None, "mine", "c"), Call(None, "a", "c"), Set("a", "x")},
                         {Return(None, "x", None), Return(None, "x", "c")}, 2)}

\* One branch, with a statement before and after it.
Around == {Set("x", "a"), Set("pol", "make"), Set("a", "make"), Call(None, "make", "c"),
           Emit("make"), Reader("r1", "assign"), Grant("allowThis", "x", None)}
Opt(S) == {<< >>} \cup {<<s>> : s \in S}
\* A return between a write and the author's grant on it is not one of them.
Skipped(pre, s, post) == s.op = "return" /\ \E i \in DOMAIN post : post[i].op = "grant"
Forks == {f \in {[pre |-> u, at |-> s, post |-> v] :
                    u \in Opt(Around), s \in Some \cup Returns,
                    v \in Opt(Around \cup {Return("x", "a", None)})} :
            ~Skipped(f.pre, f.at, f.post) /\ Fresh(f.pre \o <<f.at>> \o f.post)}
Branched == {[kind |-> "public", body |-> Forked(f.pre, p, <<f.at>>, f.post)] :
               f \in Forks, p \in {"list", "lone"}}
Headed   == {[kind |-> "public", body |-> Forked(f.pre, "header", <<f.at>>, f.post)] :
               f \in {g \in Forks : g.at \in Plain \ {Emit("a"), Emit("make")}}}

\* What the specification of the dialect and its fixtures speak of besides.
Stale   == {[kind |-> "public", body |-> Body(<<Grant("allowTransient", "a", "c"),
               Set("a", "make"), Call(None, "a", "c")>>)]}
Stepped == {[kind |-> "public", body |-> Body(<<Set("m[k++]", "a")>>)]}
Nested  == {[kind |-> "public", body |-> Body(<<Return(None, "make", "c")>>)]}
Tuples  == {[kind |-> "public", body |-> Body(<<Set("pol", "a"), Reader("r1", "tuple")>>)]}
StepKeys == {"m[k]", "m[k++]"}
JustStep == {"m[k++]"}

MCInputs == Externals \cup Inward \cup Views \cup Branched \cup Headed
=============================================================================
