-------------------------------- MODULE Guard --------------------------------
(***************************************************************************)
(* The precondition block (fhec-check: precondition.rs; spec 2.7): the      *)
(* plaintext guard that runs before a function's encrypted inputs are       *)
(* verified.  Where one may stand, and what may stand in it.                *)
(*                                                                          *)
(* Statements and expressions are nodes [op, v, kids]:                      *)
(*   lit, op (an operator, cast, literal array, payable), index (also a     *)
(*   member), alloc, tuple, name (v), assign, step (++ and --), delete,     *)
(*   call (v is the name called), convert (v says what type it makes),      *)
(*   external (a member call, call options, a creation);                    *)
(*   block, pre, if, loop, declare (v the name), expr, revert, return,      *)
(*   and emit, jump, try and asm.                                           *)
(***************************************************************************)
EXTENDS Naturals, Sequences, FiniteSets, SequencesExt

CONSTANTS
    Vars,       \* of a name: nest ("plain", "enc", "unknown"), ref (whether its
                \* type is a reference), foreign (from outside the unit)
    Callees,    \* the functions of a name: of ("own", "based", "unseen",
                \* "file" or "builtin"), changes, memory, returns
    Nodes,      \* the statements and expressions considered
    Height      \* that of the tallest

Ops == {"lit", "op", "index", "alloc", "tuple", "name", "assign", "step", "delete", "call",
        "convert", "external", "block", "pre", "if", "loop", "declare", "expr", "revert",
        "return", "emit", "jump", "try", "asm"}

Kids(ns) == UNION {Range(n.kids) : n \in ns}

\* A node, and those below it that are reached through nodes of these kinds.
Reach(n, ops) ==
    LET down[d \in 0 .. Height] ==
            IF d = 0 THEN {n}
            ELSE LET up == down[d - 1] IN up \cup Kids({m \in up : m.op \in ops})
    IN  down[Height]

\* A node and all below it.
Within(n) == Reach(n, Ops)
Inside(s) == UNION {Within(s[i]) : i \in DOMAIN s}

\* What is below a node is a node, and none is taller than Height.
ASSUME NodeAssumption ==
    /\ Height \in Nat /\ Nodes \subseteq [op : Ops, v : STRING, kids : Seq(Nodes)]
    /\ \A n \in Nodes :
          /\ Kids(Within(n)) \subseteq Within(n)
          /\ n.op \in {"assign", "step", "delete", "if", "loop"} => n.kids # << >>
          /\ n.op = "return" => Len(n.kids) <= 1

Function == [of : {"own", "based", "unseen", "file", "builtin"}, changes : BOOLEAN,
             memory : BOOLEAN, returns : STRING]
ASSUME CalleeAssumption ==
    /\ \A x \in DOMAIN Callees : Callees[x] \subseteq Function
    /\ \A n \in Nodes : n.op = "call" => n.v \in DOMAIN Callees

Params(fn)  == {fn.params[i] : i \in DOMAIN fn.params}
Managed(fn) == {p \in Params(fn) : p.form # "plain"}
Names(ps)   == {p.name : p \in ps}
HasGuard(fn)  == fn.body # << >> /\ fn.body[1].op = "pre"
GuardOf(fn) == IF HasGuard(fn) THEN Inside(fn.body[1].kids) ELSE {}

-----------------------------------------------------------------------------
(* Where: only as the first statement, and only over a managed input.      *)

\* has_managed_encrypted_input, with the kinds scan takes.
MayGuard(fn) == fn.kind \in {"function", "constructor"} /\ Managed(fn) # {}

\* collect, scan
PositionOk(fn) ==
    \A i \in DOMAIN fn.body :
        /\ \A n \in Inside(fn.body[i].kids) : n.op # "pre"
        /\ fn.body[i].op = "pre" => i = 1 /\ MayGuard(fn)

-----------------------------------------------------------------------------
(* What.                                                                   *)

DeclaredIn(nodes) == {n.v : n \in {m \in nodes : m.op = "declare"}}

\* is_managed_input, pre_ident: not an input that does not exist yet, nor a
\* name from outside the unit, and plain all the way down.
Readable(fn, x) ==
    /\ x \notin Names(Managed(fn)) \ DeclaredIn(GuardOf(fn))
    /\ x \in DeclaredIn(GuardOf(fn)) \cup Names(Params(fn)) \/ ~Vars[x].foreign
    /\ Vars[x].nest = "plain"

\* Fault: any variable of the block may be written through.
WritableThrough(fn, lhs) ==
    LET base == IF lhs.op = "index" THEN lhs.kids[1] ELSE lhs
    IN  base.op = "name" /\ base.v \in DeclaredIn(GuardOf(fn))

\* What an assignment is to: the components of a tuple, or the target itself.
Targets(lhs) == {t \in Reach(lhs, {"tuple"}) : t.op # "tuple"}

\* pre_write, write_target: a whole variable of the block.
Writable(fn, lhs) ==
    \A t \in Targets(lhs) : t.op = "name" /\ t.v \in DeclaredIn(GuardOf(fn))

\* resolve_name: the members of the contract hide those of its bases, and
\* these what the file declares.  Below a base that is not in the unit only a
\* builtin is taken for known.
Of(x, where) == {c \in Callees[x] : c.of = where}
Resolved(fn, x) ==
    CASE Of(x, "own") # {}                    -> Of(x, "own")
      [] Of(x, "own") = {} /\ fn.opaque       -> Of(x, "builtin")
      [] Of(x, "own") = {} /\ Of(x, "based") # {} /\ ~fn.opaque -> Of(x, "based")
      [] OTHER                                -> Of(x, "file") \cup Of(x, "builtin")

\* Fault: a function that only changes memory counts as harmless.
CallableView(fn, x) ==
    /\ Resolved(fn, x) # {}
    /\ \A c \in Resolved(fn, x) : ~c.changes /\ c.returns = "plain"

\* incomplete_overload_set, all_view_or_pure, unusable_return,
\* mutable_memory_param.  An inherited function of a contract with an unseen
\* base, resolved or not, is refused.
Callable(fn, x) ==
    /\ Resolved(fn, x) # {}
    /\ \A c \in Resolved(fn, x) : ~c.changes /\ ~c.memory /\ c.returns = "plain"

\* pre_call: a function known by name, or a conversion to a plain type.
MayCall(fn, n) ==
    \/ n.op = "call" /\ Callable(fn, n.v)
    \/ n.op = "convert" /\ n.v = "plain"

\* pre_decl
Declarable(n) == Vars[n.v].nest = "plain"

\* pre_stmt, pre_walk_expr: the whitelist.
Free == {"lit", "op", "index", "tuple", "alloc", "block", "if", "expr", "revert"}
Plain(fn, n) ==
    \/ n.op \in Free
    \/ n.op = "name" /\ Readable(fn, n.v)
    \/ n.op = "declare" /\ Declarable(n)
    \/ n.op \in {"assign", "step"} /\ Writable(fn, n.kids[1])
    \/ MayCall(fn, n)

\* check_precondition_block
Harmless(fn) == \A n \in GuardOf(fn) : Plain(fn, n)
=============================================================================
