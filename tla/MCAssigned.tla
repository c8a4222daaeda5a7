----------------------------- MODULE MCAssigned -----------------------------
(***************************************************************************)
(* The functions the runs of Assigned consider: a local u nobody assigns, a *)
(* local x and a named return r; straight code, branches of both kinds,     *)
(* loops with jumps, try, and modifiers.                                    *)
(***************************************************************************)
EXTENDS Assigned

MCSlots   == {"u", "x", "r"}
MCReturns == {"r"}

SetTo(v, from)     == [op |-> "set", to |-> v, from |-> from]
Tuple(v, w, e, f, paired) ==
    [op |-> "tuple", to |-> <<v, w>>, from |-> <<e, f>>, paired |-> paired]
BumpOf(v)          == [op |-> "bump", to |-> v]
Decl(v, from)      == [op |-> "decl", to |-> v, from |-> from]
UseOf(v)           == [op |-> "use", from |-> {v}]
If(then, els)      == [op |-> "if", then |-> then, els |-> els]
EncIf(c, then, els) == [op |-> "encif", cond |-> {c}, then |-> then, els |-> els]
Loop(op, c, body, next) ==
    [op |-> op, cond |-> {c}, body |-> body, next |-> next]
Try(a, b)          == [op |-> "try", clauses |-> <<a, b>>]
Perhaps(ss)        == [op |-> "perhaps", body |-> ss]
Ret(from)          == [op |-> "return", from |-> from]
Plain(op)          == [op |-> op]

Hole   == Plain("_")
Around == <<Hole>>
Fn(body) == [modifier |-> Around, body |-> body]
UpTo(n, S) == UNION {[1 .. k -> S] : k \in 0 .. n}

-----------------------------------------------------------------------------
Copies  == {SetTo("x", {Val}), SetTo("x", {"u"}), SetTo("r", {"x"}), SetTo("r", {Val})}
Reads   == {UseOf("x"), SetTo(Store, {"x"}), BumpOf("x")}
Joined  == {SetTo("r", {"x", Val}), SetTo("u", {"x"}), SetTo("x", {"x"}),
            Tuple("x", "r", {Val}, {"x"}, TRUE), Tuple("u", "r", {Val}, {"u"}, TRUE),
            Tuple("x", "r", {Val}, {"x"}, FALSE), Tuple("r", Store, {Val}, {"x"}, TRUE),
            Decl("x", {}), Decl("x", {"u"}), Decl("x", {Val})}
Leaving == {Ret({}), Ret({"x"}), Plain("halt")}

Straight == UpTo(3, Copies \cup Reads \cup Joined \cup Leaving)

\* Encrypted ifs, one in the other too.
Before == {<< >>, <<SetTo("x", {Val})>>, <<SetTo("r", {Val})>>}
After  == {<< >>, <<UseOf("x")>>, <<SetTo("r", {"x"})>>}
Small  == UpTo(1, Copies \cup {UseOf("x"), BumpOf("x")})
Arms   == UpTo(2, Copies \cup {UseOf("x")})
Merges == {p \o <<EncIf(c, t, e)>> \o q :
              p \in Before, c \in {Val}, t \in Arms, e \in Arms, q \in After}
Nested == {p \o <<EncIf(Val, <<EncIf(Val, t, e)>> \o a, b)>> \o q :
              p \in {<< >>, <<SetTo("x", {Val})>>}, q \in {<<UseOf("x")>>},
              t \in Small, e \in Small, a \in Small, b \in Small}
Locals == {<<EncIf(Val, <<Decl("x", d)>> \o <<EncIf(Val, t, e)>> \o a, << >>)>> :
              d \in {{}, {Val}, {"u"}}, t \in Small, e \in Small, a \in Small}
Illegal == {<<EncIf("x", <<s>>, << >>)>> : s \in Leaving \cup {Plain("asm"), If(<< >>, << >>)}}

\* Plaintext branches with ways out.
Ends   == Small \cup {<<j>> : j \in Leaving} \cup {<<SetTo("r", {Val}), j>> : j \in Leaving}
Forks  == {p \o <<s>> \o q : p \in Before, q \in After,
              s \in {If(t, e) : t \in Ends, e \in Ends} \cup
                    {Try(t, e) : t \in Ends, e \in Ends} \cup {Perhaps(t) : t \in Small}}

\* Loops.  A copy inside one hands on only what is initialized, and what
\* follows the body is read from a body that cannot `continue' past a write.
InLoop == {SetTo("x", {Val}), SetTo("r", {"x"}), UseOf("x")}
Jumps  == {Plain("break"), Plain("continue"), Ret({}), Plain("halt")}
Jumping == {If(t \o <<j>>, e) : t \in UpTo(1, {SetTo("x", {Val}), SetTo("r", {Val})}),
                                j \in Jumps, e \in {<< >>, <<SetTo("x", {Val})>>}}
Bodies == {<<s>> : s \in InLoop \cup Jumping} \cup
          {<<s, t>> : s \in InLoop \cup Jumping, t \in InLoop} \cup
          {<<s, t, j>> : s \in Jumping, t \in InLoop, j \in {Plain("break"), Plain("continue")}}
\* A local of the body: new in each iteration, unknown outside the loop.
OwnBodies == {<<d, s, t>> : d \in {Decl("x", {}), Decl("x", {Val})},
                            s \in InLoop \cup Jumping, t \in InLoop}
NextOnly == {<<SetTo("x", {Val})>>, << >>}
NoContinue(b) == \A i \in DOMAIN b : b[i].op # "continue" /\
                     (b[i].op = "if" => \A j \in DOMAIN b[i].then : b[i].then[j].op # "continue")
Looped ==
    {p \o <<Loop(k, Val, b, n)>> \o q : p \in Before, q \in After,
        k \in {"while", "do"}, b \in Bodies, n \in {<< >>}} \cup
    {p \o <<Loop("for", Val, b, n)>> \o q : p \in Before, q \in After,
        b \in Bodies, n \in NextOnly} \cup
    {<<Loop(k, "x", b, << >>)>> : k \in Loops, b \in {b \in Bodies : NoContinue(b)}} \cup
    {<<Loop(k, Val, b, << >>)>> \o q : k \in Loops, b \in OwnBodies,
        q \in {<< >>, <<SetTo("r", {Val})>>}} \cup
    {<<Loop("for", Val, b, <<UseOf("x")>>)>> : b \in {b \in Bodies : NoContinue(b)}} \cup
    {<<Loop("for", Val, <<If(t \o <<Plain("continue")>>, e \o <<Plain("break")>>)>>,
            <<UseOf("x")>>)>> : t \in Small, e \in Small}

\* Modifiers around a body that assigns the named return.
Quits  == {Hole, Ret({}), Plain("halt"), Plain("asm")}
Guards == {<<s>> : s \in Quits} \cup {<<If(t, e), s>> : t \in UpTo(2, Quits),
                                       e \in UpTo(1, Quits), s \in Quits} \cup
          {<<Loop(k, Val, t, << >>), s>> : k \in Loops, t \in UpTo(1, Quits), s \in Quits} \cup
          {<<Try(t, e)>> : t \in UpTo(1, Quits), e \in UpTo(1, Quits)}
Guarded == {[modifier |-> g, body |-> b] : g \in Guards,
              b \in {<<SetTo("r", {Val})>>, <<Ret({Val})>>, <<Plain("asm"), SetTo("r", {Val})>>}}

MCInputs ==
    {Fn(b) : b \in Straight \cup Merges \cup Nested \cup Locals \cup Illegal
                   \cup Forks \cup Looped} \cup Guarded

\* A `continue' that skips the write the trailing expression relies on.
SkippingInputs ==
    {Fn(<<SetTo("r", {Val}), Loop("for", Val, <<If(<<Plain("continue")>>, << >>),
                                                SetTo("x", {Val})>>, <<UseOf("x")>>)>>)}
\* The same before the condition of a do.
DoInputs ==
    {Fn(<<SetTo("r", {Val}), Loop("do", "x", <<If(<<Plain("continue")>>, << >>),
                                               SetTo("x", {Val})>>, << >>)>>)}
\* A copy at the end of a loop's body, and a use at its start.
RoundInputs ==
    {Fn(<<SetTo("r", {Val}), SetTo("x", {Val}),
          Loop("while", Val, <<UseOf("x"), SetTo("x", {"u"})>>, << >>)>>)}
=============================================================================
