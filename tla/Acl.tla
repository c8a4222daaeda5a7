--------------------------------- MODULE Acl ---------------------------------
(***************************************************************************)
(* The ACL pass of crates/fhec-lower (src/pass_acl.rs): it reads a function *)
(* body and inserts the permission grants its encrypted values need.  The  *)
(* pass runs over the author's body, its patches are spliced in, the pass  *)
(* runs once more over its own output, and then the author's body and the  *)
(* output are run from one and the same state.                             *)
(*                                                                         *)
(* Left out: --acl=suggest (no patches), hoisting of the callee, the       *)
(* lowering of the expressions themselves, statements inside encrypted     *)
(* branches, struct fields (find_struct_reach), calls and events with      *)
(* several encrypted arguments, `public' readers.                          *)
(***************************************************************************)
EXTENDS AclLedger

CONSTANT Inputs      \* the functions considered: kind and body

Kinds == {"public", "internal", "library", "view"}

ASSUME InputAssumption == \A f \in Inputs : f.kind \in Kinds

\* The statements and bodies an author writes: N is the names in them.
Exprs(N)    == Stored \cup N \cup {"make", "wrap", "zero"}
Targets(N)  == Stored \cup N \cup {None}
Parties     == Callees \cup {Sender, Witness, "reader", None}
GrantFns    ==
    {"allowThis", "allow", "allowSender", "allowTransient", "allowPublic", "allowGlobal"}
GrantsOn(N) == [op : {"grant"}, fn : GrantFns, e : Exprs(N), to : Parties]
Writers(N)  ==
    [op : {"set"}, into : Stored \cup N, e : Exprs(N), to : {None}] \cup
    [op : {"call"}, into : Targets(N), e : Exprs(N), to : Callees] \cup
    [op : {"return"}, into : Targets(N), e : Exprs(N), to : Callees \cup {None}] \cup
    [op : {"decl"}, name : N, into : Targets(N), e : Exprs(N), to : Callees \cup {None}]
Guards(N)   == [op : {"guard"}, e : Exprs(N), calls : Seq(GrantsOn(N))]
Emits(N)    == [op : {"emit"}, e : Exprs(N)]
ReaderSets  == [op : {"reader"}, who : Readers \cup {Nobody}, form : {"assign", "tuple"}]
Stmts(N)    == Writers(N) \cup GrantsOn(N) \cup Guards(N) \cup Emits(N) \cup ReaderSets
                  \cup [op : {"key"}]
BranchTo(B) == [op : {"branch"}, block : B]

IsBody(t, N) ==
    /\ t = [b \in DOMAIN t |-> t[b]] /\ "main" \in DOMAIN t
    /\ t["main"] \in [place : {"list"},
                      stmts : Seq(Stmts(N) \cup BranchTo(DOMAIN t \ {"main"}))]
    /\ \A b \in DOMAIN t \ {"main"} :
          t[b] \in [place : {"list", "lone", "header"}, stmts : Seq(Stmts(N))]

\* The author's bodies, and the namer has a name for each fact that is none
\* of his.
Supported ==
    /\ \A f \in Inputs : IsBody(f.body, Locals) /\ Len(Facts(f.body)) <= Len(Temps)
    /\ Temps \in Seq(Elements(Temps))
    /\ Elements(Temps) \cap (Locals \cup {"make", "wrap", "zero"}) = {}
    /\ IsFiniteSet(Policied)

ASSUME AuthorAssumption == Supported

VARIABLES
    kind,     \* visibility, mutability and owner of the function
    body,     \* as the author wrote it
    text,     \* what the pass reads
    round,    \* 1 over the author's body, 2 over the pass's output
    due,      \* the facts not taken yet
    plan,     \* the patches pushed so far
    braced,   \* AclOutcome::braced
    pending,  \* AclOutcome::pending_r1
    used,     \* names taken from the namer
    phase,    \* pass, ready, source, output, done, or the code of a refusal
    yes,      \* whether the branch of the body is taken
    want,     \* the machine that runs body
    m         \* the machine that runs text

reading == <<text, round, kind, body>>
running == <<yes, want, m>>
vars == <<reading, due, plan, braced, pending, used, phase, running>>

-----------------------------------------------------------------------------
(* What each rule finds missing.                                           *)

\* Fault: the sender is taken to own every slot.
WriteCallsSender(t) == <<Grant("allowThis", t, None), Grant("allowSender", t, None)>>

\* allowThis, and the owner's grant where the owner is known.
WriteCalls(t) ==
    <<Grant("allowThis", t, None)>> \o
    (CASE t \in Policied    -> <<Grant("allow", t, "reader")>>
       [] t \in SenderKeyed \ Policied -> <<Grant("allowSender", t, None)>>
       [] OTHER             -> << >>)

\* A grant on the local the slot copies counts too, without a policy.
GrantedAtWrite(p, call) ==
    \/ Granted(ForwardWindow(text, p, call.e), call)
    \/ /\ call.e \notin Policied
       /\ \E l \in AssignedLocal(At(text, p)) :
            LET window == LocalWindow(text, p, l) IN
            \/ Granted(window, [call EXCEPT !.e = l])
            \/ /\ call.fn = "allowThis"
               /\ \E fn \in {"allowPublic", "allowGlobal"} :
                    Granted(window, Grant(fn, l, None))

MissingAtWrite(p) ==
    IF kind = "view" \/ Wrapped(At(text, p)) THEN << >>
    ELSE LET calls == WriteCalls(At(text, p).into)
         IN  Those(calls, {c \in Elements(calls) : ~GrantedAtWrite(p, c)})

EventCalls(t)  == <<Grant("allowThis", t, None), Grant("allow", t, Witness)>>

MissingBefore(p, calls) ==
    Those(calls, {c \in Elements(calls) : ~Granted(BackwardWindow(text, p), c)})
\* Fault: a grant before the write of the reader counts too.
MissingAfterAny(p, calls) ==
    Those(MissingBefore(p, calls),
          {c \in Elements(calls) : ~Granted(ForwardWindow(text, p, c.e), c)})

MissingAfter(p, calls) ==
    Those(calls, {c \in Elements(calls) : ~Granted(ForwardWindow(text, p, c.e), c)})

GuardLines(e, calls) == IF calls = << >> THEN << >> ELSE <<Guard(e, calls)>>

-----------------------------------------------------------------------------
(* Patches.  "before" and "after" insert lines beside the statement,       *)
(* "inner" and "whole" replace it, in part or all of it.                   *)

Patch(p, where, lines) == [at |-> p, where |-> where, lines |-> lines]

Takes(rule) == phase = "pass" /\ due # << >> /\ Head(due).rule = rule
Skip        == due' = Tail(due) /\ UNCHANGED <<plan, braced, used, phase, pending>>
Refuse(code) == phase' = code /\ UNCHANGED <<due, plan, braced, used, pending>>

\* Fault: a lone statement gets no braces.
BraceAndPushBare(p, patches, temps) ==
    /\ plan' = plan \o patches
    /\ used' = used + temps
    /\ due' = Tail(due)
    /\ UNCHANGED <<braced, phase>>

\* brace_lone_stmt, and then the patches.
BraceAndPush(p, patches, temps) ==
    LET place == text[p[1]].place IN
    IF place = "header" THEN Refuse("FHE4004")
    ELSE /\ braced' = IF place = "lone" THEN braced \cup {p[1]} ELSE braced
         /\ plan' = plan \o patches
         /\ used' = used + temps
         /\ due' = Tail(due)
         /\ UNCHANGED phase

NextTemp == Temps[used + 1]

-----------------------------------------------------------------------------
(* The rules, one fact at a time.                                          *)

\* R1 and R4.  At a return the grants are handed to R3.
RuleR1 ==
    /\ Takes("R1")
    /\ LET p     == Head(due).at
           s     == At(text, p)
           lines == GuardLines(s.into, MissingAtWrite(p)) IN
       CASE lines = << >> -> Skip
         [] lines # << >> /\ s.op = "return" ->
              /\ pending' = pending \o lines
              /\ due' = Tail(due)
              /\ UNCHANGED <<plan, braced, used, phase>>
         [] OTHER -> /\ BraceAndPush(p, <<Patch(p, "after", lines)>>, 0)
                     /\ UNCHANGED pending
    /\ UNCHANGED <<reading, running>>

\* R2: the grant precedes the call, and both read a hoisted argument.
RuleR2 ==
    /\ Takes("R2")
    /\ LET p == Head(due).at
           s == At(text, p)
           h == IF IsIdent(s.e) THEN s.e ELSE NextTemp
           lines == GuardLines(h, <<Grant("allowTransient", h, s.to)>>) IN
       IF \/ kind = "view"
          \/ MissingBefore(p, <<Grant("allowTransient", s.e, s.to)>>) = << >>
       THEN Skip
       ELSE /\ IF IsIdent(s.e)
               THEN BraceAndPush(p, <<Patch(p, "before", lines)>>, 0)
               ELSE BraceAndPush(p,
                      <<Patch(p, "before", <<Decl(h, Set(None, s.e))>> \o lines),
                        Patch(p, "inner", <<[s EXCEPT !.e = h]>>)>>, 1)
            /\ UNCHANGED pending
    /\ UNCHANGED <<reading, running>>

\* Fault: a grant on the argument of a call counts for its result.
GrantedAtReturnArg(p) ==
    MissingBefore(p, <<Grant("allowTransient", At(text, p).e, Sender)>>) = << >>

\* The grant R3 would insert is present already.
GrantedAtReturn(p) ==
    LET s == At(text, p) IN
    /\ s.into = None /\ s.to = None
    /\ MissingBefore(p, <<Grant("allowTransient", s.e, Sender)>>) = << >>

\* R3, with the grants R1 handed over; refuse_pending_r1 where R3 is silent.
RuleR3 ==
    /\ Takes("R3")
    /\ LET p == Head(due).at
           s == At(text, p) IN
       CASE (kind # "public" \/ GrantedAtReturn(p)) /\ pending = << >> -> Skip
         [] (kind # "public" \/ GrantedAtReturn(p)) /\ pending # << >> ->
              Refuse("FHE4004")
         [] OTHER ->
              LET lines == <<Decl(NextTemp, s)>> \o pending
                           \o GuardLines(NextTemp,
                                <<Grant("allowTransient", NextTemp, Sender)>>)
                           \o <<Return(None, NextTemp, None)>> IN
              /\ BraceAndPush(p, <<Patch(p, "whole", lines)>>, 1)
              /\ pending' = << >>
    /\ UNCHANGED <<reading, running>>

\* R5: before the emit, as R2 but persistent and to the policy's reader.
RuleR5 ==
    /\ Takes("R5")
    /\ LET p     == Head(due).at
           s     == At(text, p)
           hoist == ~IsIdent(s.e)
           h     == IF hoist THEN NextTemp ELSE s.e
           lines == (IF hoist THEN <<Decl(h, Set(None, s.e))>> ELSE << >>)
                    \o GuardLines(h, MissingBefore(p, EventCalls(h))) IN
       IF ~EventPolicy \/ s.e = "wrap" \/ lines = << >> THEN Skip
       ELSE /\ BraceAndPush(p,
                 <<Patch(p, "before", lines)>> \o
                 (IF hoist THEN <<Patch(p, "inner", <<Emit(h)>>)>> ELSE << >>),
                 IF hoist THEN 1 ELSE 0)
            /\ UNCHANGED pending
    /\ UNCHANGED <<reading, running>>

\* Re-application: the policies that name the variable just written.
PoliciedInOrder == CHOOSE s \in [1 .. Cardinality(Policied) -> Policied] :
                      \A i, j \in DOMAIN s : i # j => s[i] # s[j]

RuleReapply ==
    /\ Takes("reapply")
    /\ LET p     == Head(due).at
           lines == Concat([i \in DOMAIN PoliciedInOrder |->
                      LET t == PoliciedInOrder[i] IN
                      GuardLines(t, MissingAfter(p, WriteCalls(t)))]) IN
       IF lines = << >> THEN Skip
       ELSE BraceAndPush(p, <<Patch(p, "after", lines)>>, 0) /\ UNCHANGED pending
    /\ UNCHANGED <<reading, running>>

-----------------------------------------------------------------------------
(* Splicing, and the second round.                                         *)

PatchesAt(p, where) ==
    LET here == Those(plan, {c \in Elements(plan) : c.at = p /\ c.where = where})
    IN  [i \in DOMAIN here |-> here[i].lines]
InsertedAt(p, where) == Concat(PatchesAt(p, where))

Replaced(p) == InsertedAt(p, "inner") \o InsertedAt(p, "whole")

\* Two patches over the same text, an internal error.
Overlap == \E b \in DOMAIN text : \E i \in DOMAIN text[b].stmts :
              Len(PatchesAt(<<b, i>>, "inner")) + Len(PatchesAt(<<b, i>>, "whole")) > 1

SplicedBlock(b) ==
    Concat([i \in DOMAIN text[b].stmts |->
              InsertedAt(<<b, i>>, "before")
              \o (IF Replaced(<<b, i>>) = << >> THEN <<text[b].stmts[i]>>
                  ELSE Replaced(<<b, i>>))
              \o InsertedAt(<<b, i>>, "after")])

Spliced == [b \in DOMAIN text |->
              [place |-> IF b \in braced THEN "list" ELSE text[b].place,
               stmts |-> SplicedBlock(b)]]

Splice ==
    /\ phase = "pass" /\ due = << >> /\ pending = << >>
    /\ CASE Overlap -> phase' = "FHE9001"
                       /\ UNCHANGED <<text, round, due, plan, braced>>
         [] ~Overlap /\ round = 1 ->
              /\ text' = Spliced /\ round' = 2 /\ due' = Facts(text')
              /\ plan' = << >> /\ braced' = {}
              /\ UNCHANGED phase
         [] OTHER -> phase' = "ready" /\ UNCHANGED <<text, round, due, plan, braced>>
    /\ UNCHANGED <<kind, body, pending, used, running>>

-----------------------------------------------------------------------------
(* Running both.                                                           *)

Branches == \E i \in DOMAIN body["main"].stmts : body["main"].stmts[i].op = "branch"

\* The value returned goes to a caller who is someone else.
HandsBack == kind \in {"public", "view"}

Begin ==
    /\ phase = "ready" /\ phase' = "source"
    /\ \E e \in Entries :
          /\ want' = [e EXCEPT !.todo = body["main"].stmts]
          /\ m'    = [e EXCEPT !.todo = text["main"].stmts]
    /\ yes' \in IF Branches THEN BOOLEAN ELSE {TRUE}
    /\ UNCHANGED <<reading, due, plan, braced, pending, used>>

RunSource ==
    /\ phase = "source"
    /\ want' = Exec(want, body, yes, HandsBack)
    /\ phase' = IF want'.todo = << >> THEN "output" ELSE "source"
    /\ UNCHANGED <<reading, due, plan, braced, pending, used, yes, m>>

RunOutput ==
    /\ phase = "output"
    /\ m' = Exec(m, text, yes, HandsBack)
    /\ phase' = IF m'.todo = << >> THEN "done" ELSE "output"
    /\ UNCHANGED <<reading, due, plan, braced, pending, used, yes, want>>

Init ==
    /\ \E f \in Inputs : kind = f.kind /\ body = f.body /\ text = f.body
    /\ round = 1 /\ due = Facts(body) /\ plan = << >> /\ braced = {}
    /\ pending = << >> /\ used = 0 /\ phase = "pass" /\ yes = TRUE
    /\ want = Cold(Nobody) /\ m = Cold(Nobody)

Next == \/ RuleR1 \/ RuleR2 \/ RuleR3 \/ RuleR5 \/ RuleReapply
        \/ Splice \/ Begin \/ RunSource \/ RunOutput

Spec == Init /\ [][Next]_vars

-----------------------------------------------------------------------------
(* Properties.                                                             *)

\* The pass over its own output has nothing to add and refuses nothing
\* (spec 1.4, T(T(x)) = T(x)): every grant it inserted, guarded, braced,
\* inside a hoisted return or before a hoisted call, is found again.
Idempotent == round = 2 => plan = << >> /\ phase \notin {"FHE4004", "FHE9001"}

\* The statements of the author do what they did: the same values in the
\* same places, the same handles handed over in the same order, the same
\* result, and no revert the author's program did not have.
SameOutcome ==
    phase = "done" /\ ~want.reverted =>
        /\ ~m.reverted
        /\ m.store = want.store /\ m.reader = want.reader /\ m.key = want.key
        /\ m.handed = want.handed /\ m.result = want.result
        /\ \A l \in Locals : m.env[l] = want.env[l]

Ended == phase = "done" /\ ~m.reverted

\* After the function, the contract can use every value in its storage in a
\* later transaction, on whichever path the value got there (R1, R4).
SlotsKept ==
    Ended => \A p \in Places :
        LET v == m.store[p] IN
        v # Uninitialized /\ v \notin m.wrapped =>
            <<v, This>> \in m.kept \/ <<v, Public>> \in m.kept

\* Whoever is handed a value may read it when it is handed over: a callee
\* its argument (R2), the caller of a public function its result (R3), the
\* reader of an event's policy the event's value (R5).
Served == kind # "view" => m.blind = {}

\* The reader a policy names reads the value in its slot, in whatever order
\* the slot and the reader were written (R4 and re-application).
AudienceServed ==
    Ended => \A t \in Policied :
        LET v == m.store[<<t, 0>>] IN
        v # Uninitialized /\ v \notin m.wrapped /\ m.reader # Nobody => <<v, m.reader>> \in m.kept

\* Nobody may read more than the author asked for or the rules prove: the
\* sender a value filed under msg.sender, a policy's reader a value filed
\* in its slot, a callee, the caller or an event's reader what it is handed
\* (spec 8.5).
Asked(v, who) ==
    \/ who = This
    \/ who = Sender /\ \E t \in SenderKeyed : <<t, v>> \in m.filed
    \/ who \in Readers /\ \E t \in Policied : <<t, v>> \in m.filed
    \/ \E i \in DOMAIN m.handed : m.handed[i] = <<who, v>>
NothingUnasked ==
    phase = "done" =>
        \A g \in (m.kept \cup m.lent) \ (want.kept \cup want.lent) : Asked(g[1], g[2])

\* No two patches rewrite the same text.
NoOverlap == phase # "FHE9001"

=============================================================================
