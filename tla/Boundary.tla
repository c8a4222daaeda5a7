------------------------------ MODULE Boundary ------------------------------
(***************************************************************************)
(* Encrypted values at the edge of a function (spec 2.3, 2.7 and 2.8): the  *)
(* inputs of the caller (in eT, in(proof) eT), the handles another contract *)
(* shares (in shared eT) and the result shared with the caller              *)
(* (returns (shared(msg.sender) eT)).  The checks of sugar.rs, shared.rs    *)
(* and precondition.rs choose the functions that are lowered; expand_sugar  *)
(* and expand_shared (fhec-lower: pass_ops.rs) rewrite them; and the        *)
(* machine runs what they emit beside what the author wrote, statement by   *)
(* statement, with an honest caller.  A function without a body is only     *)
(* declared anew and runs nothing: it is not here.                          *)
(***************************************************************************)
EXTENDS Guard

CONSTANT Functions      \* the functions considered

\* proof is the parameter an in names, or "", and to what the recipient says.
Locations == {"", "memory", "calldata"}
Parameter == [name : STRING, form : {"plain", "in", "shared"}, proof : STRING,
              enc : BOOLEAN, bytes : BOOLEAN, loc : Locations]
Result    == [shared : BOOLEAN, to : STRING, enc : BOOLEAN, loc : Locations, named : BOOLEAN]

\* The names of a list are distinct, and no type is both encrypted and bytes.
ASSUME FunctionAssumption ==
    /\ Functions \subseteq
          [kind : STRING, visibility : STRING, view : BOOLEAN, params : Seq(Parameter),
           args : Seq(Nodes), returns : Seq(Result), body : Seq(Nodes),
           members : SUBSET STRING, opaque : BOOLEAN]
    /\ \A f \in Functions : \A p, q \in Params(f) :
          (p.name = q.name => p = q) /\ ~(p.enc /\ p.bytes)

VARIABLES
    fn,         \* the function: kind, visibility, view, params, args (of its
                \* modifiers), returns, body, members (state variables
                \* named like a builtin), opaque (an unseen base)
    rest,       \* the emitted statements still to run
    scopes,     \* what is declared, innermost first: [name, is, by]
    refers,     \* what the references of the function may refer to
    touched,    \* what was changed beyond the function's own variables
    strays,     \* names that meant something else where they were read
    calls,      \* what crossed the boundary: [op, of]
    ended       \* "no", "returned", "fell", "reverted", "rejected"

vars == <<fn, rest, scopes, refers, touched, strays, calls, ended>>

-----------------------------------------------------------------------------
(* The checks.                                                             *)

InputName(x) == x \o "_input"
WireName(x)  == x \o "_shared"

ASSUME NameAssumption ==
    \A f \in Functions : \A p \in Params(f) :
        {InputName(p.name), WireName(p.name)} \cap {"msg", "inputProof"} = {}

\* The parameters of a form, in order.
OfForm(f, form) ==
    LET upto[i \in 0 .. Len(f.params)] ==
            IF i = 0 THEN << >>
            ELSE IF f.params[i].form = form THEN Append(upto[i - 1], f.params[i])
            ELSE upto[i - 1]
    IN  upto[Len(f.params)]
Inputs(f)  == OfForm(f, "in")
Shareds(f) == OfForm(f, "shared")
Appends(f) == Inputs(f) # << >> /\ Inputs(f)[1].proof = ""

\* Fault: the header is not searched.
OccursInBody(f, x) == \E n \in Inside(f.body) : n.v = x

\* ident_occurs: the parameters, the proofs they name, the modifiers, the body.
Occurs(f, x) ==
    \/ \E p \in Params(f) : x \in {p.name, p.proof}
    \/ \E n \in Inside(f.args) \cup Inside(f.body) : n.v = x

\* Fault: nothing is asked of the header.
AnyHeader(f, x) == TRUE

\* modifier_reference: the header knows the input under its wire name only.
FreeInHeader(f, x) == \A n \in Inside(f.args) : n.v # x

\* Fault: parameters with and without a proof of their own may be mixed.
SomeProof(f) == TRUE

\* proof_mode: one proof for the whole list, a bytes parameter of it.
OneProof(f) ==
    Inputs(f) # << >> =>
        LET proof == Inputs(f)[1].proof
        IN /\ \A i \in DOMAIN Inputs(f) : Inputs(f)[i].proof = proof
           /\ proof # "" => \E p \in Params(f) : /\ p.name = proof
                                                 /\ p.bytes /\ p.loc # ""

\* sugar.rs, scan
InputsOk(f) ==
    /\ Inputs(f) # << >> => f.kind \in {"function", "constructor"} /\ OneProof(f)
    /\ \A p \in Range(Inputs(f)) : p.enc /\ ~Occurs(f, InputName(p.name)) /\ FreeInHeader(f, p.name)
    /\ Appends(f) => ~Occurs(f, "inputProof")

\* shared.rs, scan_params
SharedsOk(f) ==
    Shareds(f) # << >> =>
        /\ f.kind = "function" /\ f.visibility = "external" /\ ~f.view
        /\ Inputs(f) = << >>
        /\ \A p \in Range(Shareds(f)) :
              /\ p.enc /\ p.loc = "" /\ p.proof = ""
              /\ ~Occurs(f, WireName(p.name)) /\ FreeInHeader(f, p.name)

SharesReturn(f) == \E i \in DOMAIN f.returns : f.returns[i].shared

\* Fault: the recipient is told by how it is spelled.
MeansCallerBySpelling(f) == f.returns[1].to = "msg.sender"

\* resolves_to_msg_sender: a parameter or a state variable may be called msg.
MeansCaller(f) ==
    /\ f.returns[1].to = "msg.sender"
    /\ "msg" \notin Names(Params(f)) \cup f.members

\* Fault: a local that shadows it is overlooked.
NeverShadowed(f) == FALSE

\* body_shadows_msg
ShadowsMsg(f) == "msg" \in DeclaredIn(Inside(f.body))

ReturnsIn(s) == {n \in Inside(s) : n.op = "return"}

\* The type recorded for an expression; that of an external call is not known.
Encrypted(e) ==
    \E n \in Reach(e, {"op", "index", "assign"}) :
        \/ n.op = "name" /\ Vars[n.v].nest = "enc"
        \/ n.op = "call" /\ \E c \in Callees[n.v] : c.returns = "enc"

\* incomplete_inheritance_call: the function may be one of an unseen base.
Assumed(f, e) == e.op = "call" /\ f.opaque /\ Resolved(f, e.v) = {}

Assigns(e)   == \E n \in Within(e) : n.op \in {"assign", "step"}

\* An external call takes an encrypted argument, so that the grants of R2 own
\* the statement; an operator on encrypted values asks to be lowered.
Owned(e)   == \E n \in Within(e) : n.op = "external" /\ \E i \in DOMAIN n.kids : Encrypted(n.kids[i])
HasSite(e) == \E n \in Within(e) : n.op = "op" /\ Encrypted(n)

\* Fault: rewrites are expected to happen in a statement R2 owns.
RenderedAnyway(e) == TRUE

\* r2_owned_stmts, rewrite_site_in
Rendered(e) == ~(Owned(e) /\ HasSite(e))

\* collect_returns: the bare body of a condition or a loop has no braces.
Bare(f) == UNION {{n.kids[i] : i \in DOMAIN n.kids} :
                    n \in {m \in Inside(f.body) : m.op \in {"if", "loop"}}}

\* shared.rs, scan_returns
SharedReturnOk(f) ==
    SharesReturn(f) =>
        /\ f.kind = "function" /\ f.visibility \in {"public", "external"} /\ ~f.view
        /\ Len(f.returns) = 1 /\ f.returns[1].loc = ""
        /\ MeansCaller(f) /\ ~ShadowsMsg(f)
        /\ ~f.returns[1].named /\ f.returns[1].enc
        /\ \A n \in ReturnsIn(f.body) :
              /\ n.kids # << >> /\ n \notin Bare(f)
              /\ LET e == n.kids[1]
                 IN ~Assigns(e) /\ Rendered(e) /\ (Encrypted(e) \/ Assumed(f, e))

Accepted(f) ==
    /\ PositionOk(f) /\ Harmless(f)
    /\ InputsOk(f) /\ SharedsOk(f) /\ SharedReturnOk(f)

-----------------------------------------------------------------------------
(* The emitted function.                                                   *)

Gen(op, of, proof) == [op |-> op, of |-> of, proof |-> proof]
NamesOf(ps) == [i \in DOMAIN ps |-> ps[i].name]

\* Fault: every input is converted by a call of its own.
OneByOne(f) ==
    [i \in DOMAIN Inputs(f) |->
        Gen("verify", <<Inputs(f)[i].name>>, IF Appends(f) THEN "inputProof" ELSE Inputs(f)[1].proof)]

\* expand_function_sugar: one verification of the whole list;
\* expand_shared_inputs: each is received on its own.
Prelude(f) ==
    (IF Inputs(f) = << >> THEN << >>
     ELSE <<Gen("verify", NamesOf(Inputs(f)),
                IF Appends(f) THEN "inputProof" ELSE Inputs(f)[1].proof)>>)
    \o [i \in DOMAIN Shareds(f) |-> Gen("receive", <<Shareds(f)[i].name>>, "")]

\* Fault: at the start of the body in any case.
AtStart(f) == 0

\* materialization_point: after the guard, or at the start.
MaterializeAfter(f) == IF HasGuard(f) THEN 1 ELSE 0

Emitted(f) ==
    SubSeq(f.body, 1, MaterializeAfter(f)) \o Prelude(f)
        \o SubSeq(f.body, MaterializeAfter(f) + 1, Len(f.body))

\* The parameter list: a managed input is declared under its wire name, and
\* the implicit form appends the proof.
Entry(name, is, by) == [name |-> name, is |-> is, by |-> by]
Header(f) ==
    (UNION {IF p.form = "plain" THEN {Entry(p.name, <<"param", p.name>>, "both")}
            ELSE {Entry(p.name, <<"param", p.name>>, "source"),
                  Entry(IF p.form = "in" THEN InputName(p.name) ELSE WireName(p.name),
                        <<"wire", p.name>>, "emitted")} : p \in Params(f)})
    \cup (IF Appends(f) THEN {Entry("inputProof", <<"param", "inputProof">>, "emitted")} ELSE {})

-----------------------------------------------------------------------------
(* What names mean, and what expressions do.                               *)

\* What a name means in the source or in the output.
Means(x, side, ss) ==
    LET in(s) == {d \in s : d.name = x /\ d.by \in {side, "both"}}
        at    == {i \in DOMAIN ss : in(ss[i]) # {}}
    IN IF at = {} THEN <<"outer", x>>
       ELSE LET first == in(ss[CHOOSE i \in at : \A j \in at : i <= j])
            IN IF Cardinality(first) = 1 THEN (CHOOSE d \in first : TRUE).is ELSE <<"twice", x>>

Read(e)   == {n.v : n \in {m \in Within(e) : m.op = "name"}}
Astray(e) == {x \in Read(e) : Means(x, "source", scopes) # Means(x, "emitted", scopes)}

\* What lies behind the names of an expression.
Behind(e) == UNION {IF x \in DOMAIN refers THEN refers[x] ELSE {x} :
                      x \in {y \in Read(e) : Vars[y].ref}}

\* The variable itself is the function's own if it is declared in its body.
Own(x) == Means(x, "emitted", scopes)[1] = "local"
Written(lhs) ==
    LET names == {t \in Targets(lhs) : t.op = "name"}
    IN  {x \in {t.v : t \in names} : ~Own(x)} \cup UNION {Behind(t) : t \in Targets(lhs) \ names}

\* What a call of x may run: every overload solc has to choose from.
Choosable(x) == IF \E c \in Callees[x] : c.of \in {"own", "based", "unseen"}
                THEN {c \in Callees[x] : c.of \in {"own", "based"} \/ (c.of = "unseen" /\ fn.opaque)}
                ELSE Callees[x]

\* An operator on encrypted values is an operation of the coprocessor.
MayEncrypt(e) ==
    \E n \in Within(e) : \/ n.op = "name" /\ Vars[n.v].nest # "plain"
                         \/ n.op = "call" /\ \E c \in Choosable(n.v) : c.returns # "plain"

Effect(n) ==
    CASE n.op \in {"assign", "step", "delete"} -> Written(n.kids[1])
      [] n.op = "call" ->
            (IF \E c \in Choosable(n.v) : c.changes THEN {"state"} ELSE {})
            \cup (IF \E c \in Choosable(n.v) : c.memory
                  THEN UNION {Behind(n.kids[i]) : i \in DOMAIN n.kids} ELSE {})
      [] n.op = "op" /\ MayEncrypt(n) -> {"coprocessor"}
      [] n.op \in {"external", "asm", "try"} -> {"state"}
      [] n.op = "emit" -> {"log"}
      [] OTHER -> {}
Effects(e) == UNION {Effect(n) : n \in Within(e)}

\* Rebinding: a variable may refer to all its new value names.
Rebound(e, x) == UNION {Behind(n.kids[2]) : n \in {m \in Within(e) : m.op = "assign" /\ m.kids[1].op = "name" /\ m.kids[1].v = x}}

Eval(e) ==
    /\ touched' = touched \cup Effects(e)
    /\ strays' = strays \cup Astray(e)
    /\ refers' = [x \in DOMAIN refers |-> refers[x] \cup Rebound(e, x)]

-----------------------------------------------------------------------------
Init ==
    /\ fn \in {f \in Functions : Accepted(f)}
    /\ rest = <<Gen("enter", << >>, "")>>
    /\ scopes = <<Header(fn)>>
    /\ refers = [x \in {} |-> {}]
    /\ touched = {} /\ strays = {} /\ calls = << >> /\ ended = "no"

Running(ops) == ended = "no" /\ rest # << >> /\ rest[1].op \in ops
Now == rest[1]
Silent == UNCHANGED <<refers, touched, strays>>
Uncrossed == UNCHANGED <<calls, ended>>

\* The arguments of the modifiers are evaluated in the header.
Enter ==
    /\ Running({"enter"})
    /\ strays' = strays \cup UNION {Astray(fn.args[i]) : i \in DOMAIN fn.args}
    /\ rest' = Emitted(fn) /\ scopes' = <<{}>> \o scopes
    /\ UNCHANGED <<fn, refers, touched>> /\ Uncrossed

Open ==
    /\ Running({"block", "pre"})
    /\ rest' = Now.kids \o <<Gen("close", << >>, "")>> \o Tail(rest)
    /\ scopes' = <<{}>> \o scopes
    /\ UNCHANGED fn /\ Silent /\ Uncrossed

Close ==
    /\ Running({"close"})
    /\ rest' = Tail(rest) /\ scopes' = Tail(scopes)
    /\ UNCHANGED fn /\ Silent /\ Uncrossed

Declaring(d) == scopes' = [scopes EXCEPT ![1] = @ \cup {d}]

\* The initializer is evaluated before its variable is in scope.
Declare ==
    /\ Running({"declare"})
    /\ touched' = touched \cup Effects(Now) /\ strays' = strays \cup Astray(Now)
    /\ refers' = (Now.v :> Behind(Now)) @@ refers
    /\ Declaring(Entry(Now.v, <<"local", Now.v>>, "both"))
    /\ rest' = Tail(rest)
    /\ UNCHANGED fn /\ Uncrossed

Evaluate ==
    /\ Running({"expr", "emit", "asm", "try", "revert"})
    /\ Eval(Now)
    /\ rest' = Tail(rest)
    /\ ended' = IF Now.op = "revert" THEN "reverted" ELSE "no"
    /\ UNCHANGED <<fn, scopes, calls>>

\* A require, or a call that reverts.
Refuse ==
    /\ Running({"expr"})
    /\ ended' = "reverted"
    /\ UNCHANGED <<fn, rest, scopes, refers, touched, strays, calls>>

Branch ==
    /\ Running({"if", "loop"})
    /\ Eval(Now.kids[1])
    /\ LET after == IF Now.op = "loop" THEN rest ELSE Tail(rest)
       IN \/ rest' = Tail(rest)
          \/ \E i \in 2..Len(Now.kids) : rest' = <<Now.kids[i]>> \o after
    /\ UNCHANGED <<fn, scopes>> /\ Uncrossed

\* The caller made one proof for the whole list.
Verify ==
    /\ Running({"verify"})
    /\ ended' = IF /\ Now.of = NamesOf(Inputs(fn))
                   /\ Means(Now.proof, "emitted", scopes) = <<"param", Now.proof>>
                   /\ Now.proof \notin touched
                THEN "no" ELSE "rejected"
    /\ calls' = Append(calls, [op |-> "verify", of |-> Now.of])
    /\ scopes' = [scopes EXCEPT ![1] = @ \cup {Entry(x, <<"param", x>>, "emitted") : x \in Range(Now.of)}]
    /\ rest' = Tail(rest)
    /\ UNCHANGED fn /\ Silent

Receive ==
    /\ Running({"receive"})
    /\ calls' = Append(calls, [op |-> "receive", of |-> Now.of])
    /\ Declaring(Entry(Now.of[1], <<"param", Now.of[1]>>, "emitted"))
    /\ rest' = Tail(rest)
    /\ UNCHANGED <<fn, ended>> /\ Silent

\* Fault: only the returns of the body itself are found.
TopReturns(f) == {f.body[i] : i \in {j \in DOMAIN f.body : f.body[j].op = "return"}}

\* expand_shared_returns: every returned expression is wrapped.  Where R2 owns
\* the statement pass 1 lowers nothing.
Wrapped(f) == IF SharesReturn(f) THEN ReturnsIn(f.body) ELSE {}

Return ==
    /\ Running({"return"})
    /\ Eval(Now)
    /\ calls' = IF Now \in Wrapped(fn)
                THEN Append(calls, [op |-> "share", of |-> Means("msg", "emitted", scopes),
                                    lowered |-> ~(Owned(Now) /\ HasSite(Now))])
                ELSE calls
    /\ ended' = "returned"
    /\ UNCHANGED <<fn, rest, scopes>>

Fall ==
    /\ ended = "no" /\ rest = << >>
    /\ ended' = "fell"
    /\ UNCHANGED <<fn, rest, scopes, refers, touched, strays, calls>>

Over == ended # "no" /\ UNCHANGED vars

Next ==
    \/ Enter \/ Open \/ Close \/ Declare \/ Evaluate \/ Refuse \/ Branch
    \/ Verify \/ Receive \/ Return \/ Fall \/ Over

Spec == Init /\ [][Next]_vars

-----------------------------------------------------------------------------
Pending == \E i \in DOMAIN rest : rest[i].op \in {"enter", "verify", "receive"}

\* Until its inputs are there a function changes nothing but its own variables,
\* whichever overloads solc chooses and whatever its references refer to; it
\* does not return; and a guard the author wrote is through before anything
\* crosses the boundary (check_precondition_block, materialization_point).
GuardHarmless ==
    /\ Managed(fn) # {} /\ Pending => touched = {} /\ ended \in {"no", "reverted"}
    /\ HasGuard(fn) /\ fn.body[1] \in Range(rest) => calls = << >>

\* Every name means what the author meant where he reads it, an input its
\* verified value, and the proof of an honest caller is not refused
\* (sugar.rs, shared.rs: scan; expand_function_sugar).
InputsReady == strays = {} /\ ended # "rejected"

\* What a function with a shared result returns, on any path, is lowered and
\* shared once, with its caller; others share nothing (shared.rs: scan_returns;
\* expand_shared_returns).
SharedOnce ==
    LET shares == {i \in DOMAIN calls : calls[i].op = "share"}
        well   == [op |-> "share", of |-> <<"outer", "msg">>, lowered |-> TRUE]
    IN IF SharesReturn(fn) /\ ended = "returned"
       THEN /\ \E i \in DOMAIN calls : shares = {i} /\ calls[i] = well
            /\ "msg" \notin fn.members
       ELSE shares = {}
=============================================================================
