------------------------------- MODULE AclBody -------------------------------
(***************************************************************************)
(* Function bodies as the ACL pass of crates/fhec-lower reads them         *)
(* (src/pass_acl.rs), and its questions about them: which statements are   *)
(* near another (the windows of spec 8.6), what they write, and whether an *)
(* equivalent grant is among them.                                         *)
(*                                                                         *)
(* A body is a function from block names to blocks.  "main" is the body    *)
(* of the function; another block is the body of a plain branch.  The      *)
(* place of a block says whether it has braces: "list" has them, "lone" is *)
(* one statement without, "header" is the initializer of a for.  A         *)
(* statement is a record; op tells the kinds apart:                        *)
(*   set     into = e;                                                     *)
(*   call    into = to.f(e);     an external call, into may be None        *)
(*   return  return into = e;    into may be None, and e may be a value    *)
(*                               computed from to.f(e) when to is not None *)
(*   decl    T name = into = e;  likewise                                  *)
(*   emit    emit E(e);                                                    *)
(*   reader  the state variable the policies name is written               *)
(*   key     k is written        branch  if (c) of block                   *)
(*   grant   FHE.fn(e, to);      guard   if (FHE.isInitialized(e)) calls   *)
(* Blocks nest once: a branch is in main.  Parentheses, method syntax and  *)
(* which library a grant resolves to are left out: two texts are the same  *)
(* or not.                                                                 *)
(***************************************************************************)
EXTENDS Naturals, Sequences, FiniteSets

CONSTANTS
    Slots,        \* texts that name one place in storage: x, m[msg.sender]
    Indexed,      \* texts that name m[k], k a local: m[k], m[k++]
    Stepping,     \* those of them that write k
    SenderKeyed,  \* slots of a mapping keyed by exactly msg.sender
    Policied,     \* state variables whose declaration carries a policy
    Locals,       \* locals and parameters of an encrypted type
    Temps,        \* the names the namer hands out, in order
    EventPolicy,  \* whether the event's parameter carries a policy
    None

Stored == Slots \cup Indexed
Names  == Locals \cup {Temps[i] : i \in DOMAIN Temps}

ASSUME NameAssumption ==
    /\ Stepping \subseteq Indexed /\ SenderKeyed \subseteq Slots
    /\ Policied \subseteq Slots /\ Slots \cap Indexed = {}
    /\ Stored \cap Names = {} /\ None \notin Stored \cup Names
    /\ EventPolicy \in BOOLEAN

-----------------------------------------------------------------------------
(* Statements.                                                             *)

Set(into, e)        == [op |-> "set", into |-> into, e |-> e, to |-> None]
Call(into, e, to)   == [op |-> "call", into |-> into, e |-> e, to |-> to]
Return(into, e, to) == [op |-> "return", into |-> into, e |-> e, to |-> to]
Decl(name, s)       == [op |-> "decl", name |-> name, into |-> s.into,
                        e |-> s.e, to |-> s.to]
Emit(e)             == [op |-> "emit", e |-> e]
Reader(who, form)   == [op |-> "reader", who |-> who, form |-> form]
Key                 == [op |-> "key"]
Branch(b)           == [op |-> "branch", block |-> b]
Grant(fn, e, to)    == [op |-> "grant", fn |-> fn, e |-> e, to |-> to]
Guard(e, calls)     == [op |-> "guard", e |-> e, calls |-> calls]

Computes(s) == s.op \in {"set", "call", "return", "decl"}

\* An identifier may be written twice; any other expression is hoisted.
IsIdent(e) == e \in Slots \ SenderKeyed \/ e \in Names

\* A value that is exactly eT.wrap(x).
Wrapped(s) == s.e = "wrap" /\ s.to = None

-----------------------------------------------------------------------------
(* Windows.  A position is <<block, index>>.                               *)

At(body, p)      == body[p[1]].stmts[p[2]]
After(body, p)   == p[2] + 1 .. Len(body[p[1]].stmts)
Before(body, p)  == 1 .. p[2] - 1
In(body, p, J)   == {body[p[1]].stmts[j] : j \in J}

\* Whether a statement writes the location a text names, in its subtree.
WritesTo(body, s, t) ==
    \/ Computes(s) /\ s.into = t
    \/ /\ s.op = "branch"
       /\ \E i \in DOMAIN body[s.block].stmts :
            LET n == body[s.block].stmts[i] IN Computes(n) /\ n.into = t

\* Up to the next write of the same text, or the end of the block.
ForwardWindow(body, p, t) ==
    In(body, p, {j \in After(body, p) :
                   \A i \in p[2] + 1 .. j :
                       ~WritesTo(body, body[p[1]].stmts[i], t)})

BackwardWindow(body, p) == In(body, p, Before(body, p))

\* Fault: a write of the local does not end the window.
LocalWindowOpen(body, p, l) == In(body, p, Before(body, p))

\* Back to the statement that writes or declares the local.
LocalWindow(body, p, l) ==
    In(body, p, {j \in Before(body, p) :
                   \A i \in j .. p[2] - 1 :
                       LET s == body[p[1]].stmts[i] IN
                       /\ ~WritesTo(body, s, l)
                       /\ ~(s.op = "decl" /\ s.name = l)})

\* Fault: the initialization guard hides the calls in it.
GrantedBare(window, call) == call \in window

\* An equivalent call, in the window or one guard down.
Granted(window, call) ==
    \E s \in window : \/ s = call
                      \/ s.op = "guard" /\ \E i \in DOMAIN s.calls : s.calls[i] = call

\* The local that slot = local; copies.
AssignedLocal(s) == IF s.op = "set" /\ s.e \in Names THEN {s.e} ELSE {}

-----------------------------------------------------------------------------
(* The facts of the checker, and the order the pass takes them in.         *)

RulesOf(s) ==
    CASE Computes(s) ->
             (IF s.into \in Stored THEN <<"R1">> ELSE << >>) \o
             (IF s.to # None THEN <<"R2">> ELSE << >>) \o
             (IF s.op = "return" THEN <<"R3">> ELSE << >>)
      [] OTHER -> << >>

EmitRulesOf(s)   == IF s.op = "emit" THEN <<"R5">> ELSE << >>
ReaderRulesOf(s) ==
    IF s.op = "reader" /\ s.form = "assign" THEN <<"reapply">> ELSE << >>

Elements(s) == {s[i] : i \in DOMAIN s}

\* The elements of a sequence that are in a set.
Those(s, S) ==
    LET upto[i \in 0 .. Len(s)] ==
            IF i = 0 THEN << >>
            ELSE IF s[i] \in S THEN Append(upto[i - 1], s[i]) ELSE upto[i - 1]
    IN  upto[Len(s)]

Concat(ss) ==
    LET upto[i \in 0 .. Len(ss)] == IF i = 0 THEN << >> ELSE upto[i - 1] \o ss[i]
    IN  upto[Len(ss)]

\* The positions of a body in source order.
Positions(body) ==
    LET block(b) == [i \in DOMAIN body[b].stmts |-> <<b, i>>] IN
    Concat([i \in DOMAIN body["main"].stmts |->
              LET s == body["main"].stmts[i] IN
              << <<"main", i>> >> \o
              (IF s.op = "branch" THEN block(s.block) ELSE << >>)])

Duties(ps, rules) ==
    Concat([n \in DOMAIN ps |->
              [r \in DOMAIN rules[n] |-> [rule |-> rules[n][r], at |-> ps[n]]]])

\* Writes, calls and returns first, then the emits, then the writes of a
\* state variable some policy names.
Facts(body) ==
    LET ps == Positions(body) IN
    Duties(ps, [n \in DOMAIN ps |-> RulesOf(At(body, ps[n]))]) \o
    Duties(ps, [n \in DOMAIN ps |-> EmitRulesOf(At(body, ps[n]))]) \o
    Duties(ps, [n \in DOMAIN ps |-> ReaderRulesOf(At(body, ps[n]))])

=============================================================================
