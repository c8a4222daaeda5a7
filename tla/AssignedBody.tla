---------------------------- MODULE AssignedBody ----------------------------
(***************************************************************************)
(* Definite assignment of encrypted locals, crates/fhec-check/src/walk.rs   *)
(* with the reads and writes of exprs.rs and ops.rs: the walk over a        *)
(* function body that must report every use of a handle that some path      *)
(* leaves uninitialized (FHE2007, spec 6).                                  *)
(*                                                                         *)
(* A statement is a record with an op; an expression is the set of places   *)
(* its value may come from (a ternary has two), Val standing for any        *)
(* initialized value.  Names are unique in a body, so slots are the names.  *)
(* Types are encrypted throughout; other types play no part here.           *)
(***************************************************************************)
EXTENDS Naturals, Sequences, FiniteSets

CONSTANTS Slots,      \* encrypted locals and named returns of the function
          Returns     \* those of them that are named returns

Val   == "val"
Store == "store"      \* storage, a field or an element: not tracked

ASSUME SlotAssumption ==
    Returns \subseteq Slots /\ Returns # {} /\ {Val, Store} \cap Slots = {}

Loops == {"while", "do", "for"}

-----------------------------------------------------------------------------
(* The walker's state: a the slots in AState::Assigned, depth the           *)
(* encrypted-branch depth, at the depth each slot was declared at, ended    *)
(* its `terminated', breaks and continues the snapshots of the innermost    *)
(* loop, wrote and early the writes and the unassigned reads logged for     *)
(* the innermost branch, out the reports.                                   *)

Fresh == [a |-> {}, depth |-> 0, at |-> [s \in Slots |-> 0], ended |-> FALSE,
          breaks |-> {}, continues |-> {}, wrote |-> {}, early |-> {}, out |-> {}]

Uninit(st, from) == from \cap (Slots \ st.a)
Outer(st, vs)    == {v \in vs : st.at[v] < st.depth}

\* join_all: what every candidate has assigned; no candidate, no change.
JoinAll(st, candidates) ==
    IF candidates = {} THEN st.a
    ELSE {s \in Slots : \A c \in candidates : s \in c}

Report(st, what)  == [st EXCEPT !.out = @ \cup {what}]
InBranch(st, code) == IF st.depth > 0 THEN Report(st, code) ELSE st

NoteRead(st, from) == [st EXCEPT !.early = @ \cup Outer(st, Uninit(st, from))]

NoteAssign(st, v) ==
    [st EXCEPT !.a = @ \cup {v}, !.wrote = @ \cup Outer(st, {v})]

\* An operand, a select condition, an argument of an external call.
Operand(st, from) ==
    LET read == NoteRead(st, from)
    IN IF Uninit(st, from) = {} THEN read ELSE Report(read, "FHE2007")

\* propagate_or_flag_unassigned_copy: a copy hands its source's state on.
CopyTo(st, v, tainted) ==
    IF v = Store THEN IF tainted THEN Report(st, "FHE2007") ELSE st
    ELSE [NoteAssign(st, v) EXCEPT !.a = IF tainted THEN @ \ {v} ELSE @]

Assign(st, v, from) == CopyTo(NoteRead(st, from), v, Uninit(st, from) # {})

\* (v, w) = (e, f) pairs the components; any other right-hand side taints
\* every component if it reads one unassigned slot.
AssignTuple(st, s) ==
    LET read == NoteRead(st, s.from[1] \cup s.from[2])
        bad(i) == Uninit(st, IF s.paired THEN s.from[i] ELSE s.from[1] \cup s.from[2]) # {}
    IN CopyTo(CopyTo(read, s.to[1], bad(1)), s.to[2], bad(2))

\* += and ++ read their target and then write it.
Compound(st, v) ==
    NoteAssign(IF v \in st.a THEN st ELSE Report(st, "FHE2007"), v)

\* A declaration with or without an initializer (from = {}).
Declare(st, v, from) ==
    LET read == NoteRead(st, from)
    IN [read EXCEPT !.at[v] = st.depth,
                    !.a = IF from # {} /\ Uninit(st, from) = {} THEN @ \cup {v} ELSE @ \ {v}]

\* A bare return and the closing brace hand over the named returns.
ExitCheck(st) == IF Returns \subseteq st.a THEN st ELSE Report(st, "FHE2007")

-----------------------------------------------------------------------------
(* Control flow.                                                           *)

RECURSIVE Walk(_, _)      \* walk_block: stops at what is unreachable

\* A branch of && or || that may not run.
WalkPerhaps(st, s) ==
    LET ran == Walk(st, s.body) IN [ran EXCEPT !.a = @ \cap st.a]

WalkIf(st, s) ==
    LET in   == InBranch(st, "FHE3007")
        then == Walk(in, s.then)
        els  == Walk([then EXCEPT !.a = in.a, !.ended = in.ended], s.els)
    IN [els EXCEPT
          !.a = JoinAll(els, (IF then.ended THEN {} ELSE {then.a}) \cup
                             (IF els.ended THEN {} ELSE {els.a})),
          !.ended = in.ended \/ (then.ended /\ els.ended)]

\* The merge of v reads what v held before the if.
NeedsPre(pre, then, els, v, hasElse) ==
    \/ ~hasElse
    \/ v \notin then.a \/ v \notin els.a
    \/ v \in then.early \cup els.early

\* Fault: a merged slot is taken to be assigned.
MergedAssigned(pre, then, els) ==
    LET wrote == then.wrote \cup els.wrote
    IN (pre.a \cap then.a \cap els.a) \cup wrote

\* The slots assigned after the merge.
Merged(pre, then, els) ==
    LET wrote == then.wrote \cup els.wrote
        join  == then.a \cap els.a
        whole == (then.wrote \cap els.wrote) \cup pre.a
    IN ((pre.a \cap join) \ wrote) \cup {v \in wrote : v \in whole => v \in join}

\* An encrypted if: both arms run, each from the state before it.
WalkEncIf(st, s) ==
    LET pre  == Operand(st, s.cond)
        open == [pre EXCEPT !.depth = @ + 1, !.wrote = {}, !.early = {}]
        then == Walk(open, s.then)
        els  == Walk([then EXCEPT !.a = pre.a, !.wrote = {}, !.early = {}], s.els)
        hasElse == s.els # << >>
        wrote   == then.wrote \cup els.wrote
        bad     == \E v \in wrote \ pre.a : NeedsPre(pre, then, els, v, hasElse)
        closed  == IF bad THEN Report(els, "FHE2007") ELSE els
    IN [closed EXCEPT
          !.a = Merged(pre, then, els), !.depth = pre.depth, !.ended = pre.ended,
          !.wrote = pre.wrote \cup {v \in wrote : pre.depth > 0 /\ closed.at[v] < pre.depth},
          !.early = pre.early]

-----------------------------------------------------------------------------
(* Loops.  The body is walked once.                                        *)

Looping(st) == [st EXCEPT !.breaks = {}, !.continues = {}]
Out(outer, st, candidates, ended) ==
    [st EXCEPT !.a = JoinAll(st, candidates), !.ended = ended,
               !.breaks = outer.breaks, !.continues = outer.continues]
FallsThrough(st) == IF st.ended THEN {} ELSE {st.a}

\* Fault: a break leaves with what the whole body assigns.
LeavesAtEnd(st) == FallsThrough(st)

\* Where the loop may be left, beside not being entered.
Leaves(st) == FallsThrough(st) \cup st.breaks \cup st.continues

WalkWhile(st, s) ==
    LET in   == Operand(InBranch(st, "FHE3007"), s.cond)
        body == Walk(Looping(in), s.body)
    IN Out(in, body, {in.a} \cup Leaves(body), in.ended)

\* A do body runs at least once; its condition is typed after the body.
WalkDo(st, s) ==
    LET in   == InBranch(st, "FHE3007")
        body == Walk(Looping(in), s.body)
        cond == Operand(body, s.cond)
    IN Out(in, cond, Leaves(body), in.ended \/ Leaves(body) = {})

\* The trailing expression is typed from the end of the body or, when the
\* body never reaches its end, from the join of the continues.
WalkNext(body, next) ==
    CASE ~body.ended            -> Walk(body, next)
      [] body.continues = {}    -> body
      [] OTHER ->
            LET typed == Walk([body EXCEPT !.a = JoinAll(body, body.continues),
                                           !.ended = FALSE], next)
            IN [typed EXCEPT !.a = body.a, !.ended = TRUE]

WalkFor(st, s) ==
    LET in   == Operand(InBranch(st, "FHE3007"), s.cond)
        body == Walk(Looping(in), s.body)
        next == WalkNext(body, s.next)
    IN Out(in, next, {in.a} \cup Leaves(next), in.ended)

\* break and continue leave their state with the loop.
WalkBreak(st) ==
    LET in == InBranch(st, "FHE3002")
    IN [in EXCEPT !.ended = TRUE, !.breaks = IF st.depth > 0 THEN @ ELSE @ \cup {st.a}]
WalkContinue(st) ==
    LET in == InBranch(st, "FHE3002")
    IN [in EXCEPT !.ended = TRUE, !.continues = IF st.depth > 0 THEN @ ELSE @ \cup {st.a}]

\* Only the clauses that reach the end of the try are joined.
WalkTry(st, s) ==
    LET in    == InBranch(st, "FHE3007")
        first == Walk(in, s.clauses[1])
        last  == Walk([first EXCEPT !.a = in.a, !.ended = in.ended], s.clauses[2])
        outs  == FallsThrough(first) \cup FallsThrough(last)
    IN [last EXCEPT !.a = JoinAll(last, outs), !.ended = in.ended \/ outs = {}]

WalkReturn(st, s) ==
    LET in == InBranch(st, "FHE3001")
        checked == CASE s.from # {}  -> Operand(in, s.from)
                     [] st.depth > 0 -> in
                     [] OTHER        -> ExitCheck(in)
    IN [checked EXCEPT !.ended = TRUE]

WalkStmt(st, s) ==
    CASE s.op = "decl"     -> Declare(st, s.to, s.from)
      [] s.op = "set"      -> Assign(st, s.to, s.from)
      [] s.op = "tuple"    -> AssignTuple(st, s)
      [] s.op = "bump"     -> Compound(st, s.to)
      [] s.op = "use"      -> Operand(st, s.from)
      [] s.op = "perhaps"  -> WalkPerhaps(st, s)
      [] s.op = "if"       -> WalkIf(st, s)
      [] s.op = "encif"    -> WalkEncIf(st, s)
      [] s.op = "while"    -> WalkWhile(st, s)
      [] s.op = "do"       -> WalkDo(st, s)
      [] s.op = "for"      -> WalkFor(st, s)
      [] s.op = "try"      -> WalkTry(st, s)
      [] s.op = "break"    -> WalkBreak(st)
      [] s.op = "continue" -> WalkContinue(st)
      [] s.op = "return"   -> WalkReturn(st, s)
      [] s.op = "halt"     -> [InBranch(st, "FHE3003") EXCEPT !.ended = TRUE]
      [] s.op = "asm"      -> InBranch(st, "FHE3009")

Walk(st, ss) ==
    IF ss = << >> \/ st.ended THEN st ELSE Walk(WalkStmt(st, Head(ss)), Tail(ss))

-----------------------------------------------------------------------------
(* Modifiers: does the placeholder run on every path?                      *)

RECURSIVE Scan(_, _, _)   \* scan_block: definite so far, and risky
\* Fault: a loop is taken to run.
ScanLoopRuns(s, definite) == Scan(s.body, definite, FALSE)

\* A loop or a try never makes the placeholder definite.
ScanLoop(s, definite) == <<FALSE, Scan(s.body, definite, FALSE)[2]>>

ScanStmt(s, definite) ==
    CASE s.op = "_"      -> <<TRUE, FALSE>>
      [] s.op = "return" -> <<definite, ~definite>>
      [] s.op = "if"     ->
            LET then == Scan(s.then, definite, FALSE)
                els  == IF s.els = << >> THEN <<FALSE, FALSE>>
                        ELSE Scan(s.els, definite, FALSE)
            IN <<then[1] /\ els[1], then[2] \/ els[2]>>
      [] s.op \in Loops  -> ScanLoop(s, definite)
      [] s.op = "try"    ->
            <<FALSE, \E i \in 1 .. 2 : Scan(s.clauses[i], definite, FALSE)[2]>>
      [] OTHER           -> <<FALSE, FALSE>>
Scan(ss, definite, risky) ==
    IF ss = << >> THEN <<definite, risky>>
    ELSE LET r == ScanStmt(Head(ss), definite)
         IN Scan(Tail(ss), definite \/ r[1], risky \/ r[2])

\* contains_assembly
RECURSIVE HasAsm(_)
HasAsm(ss) ==
    \E i \in DOMAIN ss :
        LET s == ss[i] IN
        \/ s.op = "asm"
        \/ s.op \in {"if", "encif"} /\ (HasAsm(s.then) \/ HasAsm(s.els))
        \/ s.op \in Loops /\ HasAsm(s.body)
        \/ s.op = "try" /\ (HasAsm(s.clauses[1]) \/ HasAsm(s.clauses[2]))

MaySkipBody(modifier) ==
    LET r == Scan(modifier, FALSE, FALSE) IN r[2] \/ ~r[1] \/ HasAsm(modifier)

-----------------------------------------------------------------------------
\* FnChecker::run: what the walk of a function ends with.
Checked(modifier, body) ==
    LET walked == Walk(Fresh, body)
        ended  == IF walked.ended THEN walked ELSE ExitCheck(walked)
    IN IF Returns # {} /\ (MaySkipBody(modifier) \/ HasAsm(body))
       THEN Report(ended, "FHE2007") ELSE ended
=============================================================================
