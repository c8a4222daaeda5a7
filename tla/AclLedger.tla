------------------------------ MODULE AclLedger ------------------------------
(***************************************************************************)
(* What running a body of AclBody does: the storage and the locals, the    *)
(* calls, and the ledger of permissions the coprocessor keeps by handle,   *)
(* as crates/fhec-lower/src/pass_acl.rs and spec section 8 use them.  All  *)
(* of it is outside the repository (the EVM and FHE.sol).                  *)
(*                                                                         *)
(* A handle is named after where the function finds it, or numbered in the *)
(* order of the computations that return a new one.  The contract may use  *)
(* a new handle until the end of the transaction; a wrapped handle has no  *)
(* permission of anyone.  A grant reverts unless the contract itself is    *)
(* allowed on the handle.                                                  *)
(***************************************************************************)
EXTENDS AclBody

CONSTANTS
    Callees,   \* contracts that may be called
    Readers,   \* accounts the policies' state variable may name
    Nobody,    \* the zero address, what it holds when it names none
    MaxKey     \* bound on k

This    == "this"
Sender  == "sender"
Public  == "public"
Witness == "witness"   \* the reader a policied event names

Places == {<<t, 0>> : t \in Slots} \cup {<<"m", k>> : k \in 0 .. MaxKey}

Uninitialized == <<"zero", 0>>
NewHandle(n)  == <<"new", n>>

\* The place a text names now.
PlaceOf(m, t) == IF t \in Slots THEN <<t, 0>> ELSE <<"m", m.key>>

\* Evaluating a text, or writing through it, evaluates its key.
Touch(m, t) == IF t \in Stepping THEN [m EXCEPT !.key = @ + 1] ELSE m

NextHandle(m) == NewHandle(m.made + 1)
Made(m)  == [m EXCEPT !.made = @ + 1, !.lent = @ \cup {<<NextHandle(m), This>>}]

\* The value of an expression, and the machine after it is evaluated.
Value(m, e) == CASE e \in Names  -> m.env[e]
                 [] e \in Stored -> m.store[PlaceOf(m, e)]
                 [] e = "zero"   -> Uninitialized
                 [] OTHER        -> NextHandle(m)
Eval(m, e)  == CASE e = "make" -> Made(m)
                 [] e = "wrap" -> [m EXCEPT !.made = @ + 1,
                                            !.wrapped = @ \cup {NextHandle(m)}]
                 [] OTHER      -> Touch(m, e)

Write(m, t, v) == CASE t \in Names  -> [m EXCEPT !.env[t] = v]
                    [] t \in Stored ->
                         Touch([m EXCEPT !.store[PlaceOf(m, t)] = v,
                                         !.filed = @ \cup {<<t, v>>}], t)
                    [] OTHER        -> m

Readable(m, v, who) == \/ v = Uninitialized \/ v \in m.wrapped
                       \/ <<v, who>> \in m.kept \cup m.lent
                       \/ <<v, Public>> \in m.kept

\* Handing a value over: to a callee, to the caller, to the event's reader.
Hand(m, v, who) ==
    [m EXCEPT !.handed = Append(@, <<who, v>>),
              !.blind  = IF Readable(m, v, who) THEN @ ELSE @ \cup {<<who, v>>}]

\* into = e, into = to.f(e): the machine after it, and the value of it all.
Compute(m, s) ==
    LET v    == Value(m, s.e)
        m1   == Eval(m, s.e)
        m2   == IF s.to = None THEN m1 ELSE Made(Hand(m1, v, s.to))
        r    == IF s.to = None THEN v ELSE NewHandle(m2.made)
    IN  [m |-> Write(m2, s.into, r), v |-> r]

Account(m, g) == CASE g.fn = "allowThis"   -> This
                   [] g.fn = "allowSender" -> Sender
                   [] g.fn \in {"allowPublic", "allowGlobal"} -> Public
                   [] g.to = "reader"      -> m.reader
                   [] OTHER                -> g.to

\* A grant to the reader of a policy carries the zero-address guard.
GrantStep(m, g) ==
    LET v == Value(m, g.e)  m1 == Eval(m, g.e)  who == Account(m, g) IN
    CASE who = Nobody -> m
      [] who # Nobody /\ <<v, This>> \notin m.kept \cup m.lent ->
            [m1 EXCEPT !.reverted = TRUE, !.todo = << >>]
      [] OTHER -> IF g.fn = "allowTransient"
                  THEN [m1 EXCEPT !.lent = @ \cup {<<v, who>>}]
                  ELSE [m1 EXCEPT !.kept = @ \cup {<<v, who>>}]

\* The statements a plain branch comes down to, as it is written.
Taken(body, b, yes) ==
    LET ss == body[b].stmts IN
    CASE body[b].place = "list"   -> IF yes THEN ss ELSE << >>
      [] body[b].place = "lone"   -> (IF yes THEN <<ss[1]>> ELSE << >>) \o Tail(ss)
      [] body[b].place = "header" -> ss

\* One statement: m.todo is what is left to run.
Exec(m0, body, yes, returns) ==
    LET s == Head(m0.todo)
        m == [m0 EXCEPT !.todo = Tail(@)] IN
    CASE s.op \in {"set", "call"} -> Compute(m, s).m
      [] s.op = "decl"   -> LET c == Compute(m, s) IN Write(c.m, s.name, c.v)
      [] s.op = "return" ->
            LET c == Compute(m, s) IN
            [(IF returns THEN Hand(c.m, c.v, Sender) ELSE c.m)
                EXCEPT !.todo = << >>, !.result = c.v]
      [] s.op = "emit"   ->
            LET v == Value(m, s.e) IN
            IF EventPolicy THEN Hand(Eval(m, s.e), v, Witness) ELSE Eval(m, s.e)
      [] s.op = "reader" -> [m EXCEPT !.reader = s.who]
      [] s.op = "key"    -> [m EXCEPT !.key = @ + 1]
      [] s.op = "branch" -> [m EXCEPT !.todo = Taken(body, s.block, yes) \o @]
      [] s.op = "grant"  -> GrantStep(m, s)
      [] s.op = "guard"  ->
            [Eval(m, s.e) EXCEPT !.todo = IF Value(m, s.e) = Uninitialized THEN @ ELSE s.calls \o @]

-----------------------------------------------------------------------------
(* The states a call may find the contract in: what is in storage is       *)
(* readable by the contract, and by the readers of its policy; arguments   *)
(* are lent to it.  Cold: nothing was ever written.                        *)

Found(l) == <<l, 0>>     \* the handle a local or a slot holds on entry

Warm(reader) ==
    [todo |-> << >>, key |-> 0, reader |-> reader, made |-> 0,
     store |-> [p \in Places |-> p],
     env |-> [n \in Names |-> IF n \in Locals THEN Found(n) ELSE Uninitialized],
     kept |-> {<<p, This>> : p \in Places}
              \cup {<<Found(t), Sender>> : t \in SenderKeyed}
              \cup {<<Found(t), reader>> : t \in {s \in Policied : reader # Nobody}},
     lent |-> {<<Found(l), This>> : l \in Locals},
     filed |-> {<<t, Found(t)>> : t \in Slots},
     wrapped |-> {}, handed |-> << >>, blind |-> {}, result |-> Uninitialized,
     reverted |-> FALSE]
Cold(reader) == [Warm(reader) EXCEPT !.store = [p \in Places |-> Uninitialized],
                                     !.env = [n \in Names |-> Uninitialized],
                                     !.kept = {}, !.lent = {}, !.filed = {}]
Entries == {Warm(r) : r \in Readers \cup {Nobody}}
           \cup {Cold(r) : r \in Readers \cup {Nobody}}

=============================================================================
