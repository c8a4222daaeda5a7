------------------------------- MODULE Branch -------------------------------
(***************************************************************************)
(* What may stand in an encrypted branch (fhec-check: walk.rs, ops.rs and   *)
(* exprs.rs; spec 7.1).  Both branches always run, so nothing in one may    *)
(* write a plaintext location, emit, revert or leave it; a call is to be    *)
(* only of a function of the same contract that branch_safe has verified.   *)
(* A call names its function plainly, by a contract or library (qualified), *)
(* or is of a member of super, which the walk takes for a builtin.          *)
(* check() walks the functions of the unit one after the other, and         *)
(* branch_safe visits callees depth first, sharing one cache of verdicts    *)
(* between all the functions of the unit: here a stack machine.             *)
(***************************************************************************)
EXTENDS Integers, Sequences, FiniteSets

CONSTANTS
    Contracts,   \* the contracts and libraries of a unit
    Order,       \* the linearization of each, a sequence
    Statements,  \* the statements a body may hold
    Units        \* the units considered

ASSUME OrderAssumption == \A c \in Contracts : Order[c] \in Seq(Contracts)

ASSUME UnitAssumption ==
    \A u \in Units :
        /\ u \in Seq([of : Contracts, base : Nat, plain : Seq(Statements),
                      branch : Seq(Statements), modified : BOOLEAN])
        /\ u # << >>
        /\ \A f \in DOMAIN u : u[f].base \in {0} \cup DOMAIN u
        /\ \A f \in DOMAIN u : \A i \in DOMAIN (u[f].plain \o u[f].branch) :
              LET s == (u[f].plain \o u[f].branch)[i]
              IN s.op \in {"call", "qualified", "super"} =>
                    s.f \in DOMAIN u /\ s.names \in DOMAIN u

VARIABLES
    unit,        \* the functions, a sequence in walk order
    at,          \* the function being walked
    left,        \* what is left of its encrypted branch
    frames,      \* the calls of branch_safe in progress, innermost first
    cache,       \* the verdicts so far
    answers,     \* the verdicts branches were given: [on, callee, safe]
    errors       \* the functions with an error

vars == <<unit, at, left, frames, cache, answers, errors>>

\* A function: its contract, the function it overrides (0: none), whether it
\* has modifiers or no body, the statements of its encrypted branch and the others.  A
\* call has the function the checker finds, f, and the one it names; these
\* differ where f is an overload of the latter: function_by_name finds the first
\* of the contract, and the nearest contract's hide those of its bases.
Functions == DOMAIN unit
Whole(f)  == unit[f].plain \o unit[f].branch

Inherits(c, d) == \E i \in DOMAIN Order[c] : Order[c][i] = d
On             == unit[at].of

-----------------------------------------------------------------------------
(* The two reject lists.                                                   *)

Abrupt == {"emit", "revert", "require", "external", "assembly"}
Flow   == {"return", "jump", "flow"}     \* plaintext control flow
Writes == {"write", "delete"}

\* walk_stmt, plain_write, call: in the branch.  A location declared in the
\* branch may be written; the value of a nested ++ is only typed; a member of
\* super is a builtin, and let through (classify_call).
RefusedHere(s) ==
    \/ s.op \in Abrupt \cup Flow \cup {"named"}
    \/ s.op \in Writes /\ s.root \in {"state", "outer", "tuple"}

\* stmt_branch_safe, expr_branch_safe: in a callee.  A call of a member named
\* like an operation of the library counts as one, and of another is refused.
RefusedThere(s) ==
    \/ s.op \in Abrupt \cup {"qualified", "super"}
    \/ s.op \in Writes \cup {"step"} /\ s.root = "state"

\* CallClass::Internal
IsCall(s) == s.op \in {"call", "qualified"}

\* branch_safe, before the body is looked at.
Sealed(f) == ~Inherits(On, unit[f].of) \/ unit[f].modified

-----------------------------------------------------------------------------
Init ==
    /\ unit \in Units
    /\ at = 1 /\ left = unit[1].branch
    /\ frames = << >> /\ cache = [f \in {} |-> FALSE]
    /\ answers = {} /\ errors = {}

Cached(f)        == f \in DOMAIN cache
Remember(f, safe) == cache' = [g \in DOMAIN cache \cup {f} |-> IF g = f THEN safe ELSE cache[g]]

\* Fault: the verdict is kept only if there is none yet, and the guard's is.
VerdictKept(safe) ==
    /\ frames' = Tail(frames)
    /\ IF Cached(Head(frames).f) THEN cache' = cache ELSE Remember(Head(frames).f, safe)
    /\ UNCHANGED <<unit, at, left, answers, errors>>

\* The verdict of the innermost call.
Verdict(safe) ==
    /\ frames' = Tail(frames)
    /\ Remember(Head(frames).f, safe)
    /\ UNCHANGED <<unit, at, left, answers, errors>>

\* Fault: a function in progress is taken to be safe.
EnterTrusting(f) ==
    /\ Remember(f, TRUE)
    /\ frames' = <<[f |-> f, rest |-> Whole(f)]>> \o frames
    /\ UNCHANGED <<unit, at, left, answers, errors>>

\* A function that is not known yet; while in progress it counts as unsafe.
Enter(f) ==
    /\ Remember(f, FALSE)
    /\ frames' = IF Sealed(f) THEN frames
                 ELSE <<[f |-> f, rest |-> Whole(f)]>> \o frames
    /\ UNCHANGED <<unit, at, left, answers, errors>>

-----------------------------------------------------------------------------
(* branch_safe.                                                            *)

Now == Head(Head(frames).rest)

Finish ==
    /\ frames # << >> /\ Head(frames).rest = << >>
    /\ Verdict(TRUE)

Reject ==
    /\ frames # << >> /\ Head(frames).rest # << >>
    /\ RefusedThere(Now) \/ (IsCall(Now) /\ Cached(Now.f) /\ ~cache[Now.f])
    /\ Verdict(FALSE)

Pass ==
    /\ frames # << >> /\ Head(frames).rest # << >>
    /\ ~RefusedThere(Now)
    /\ IsCall(Now) => Cached(Now.f) /\ cache[Now.f]
    /\ frames' = <<[Head(frames) EXCEPT !.rest = Tail(@)]>> \o Tail(frames)
    /\ UNCHANGED <<unit, at, left, cache, answers, errors>>

Descend ==
    /\ frames # << >> /\ Head(frames).rest # << >>
    /\ ~RefusedThere(Now) /\ IsCall(Now) /\ ~Cached(Now.f)
    /\ Enter(Now.f)

-----------------------------------------------------------------------------
(* The walk of the branch.                                                 *)

Walking == frames = << >> /\ at <= Len(unit)
Stmt    == Head(left)

Take ==
    /\ Walking /\ left # << >> /\ ~IsCall(Stmt)
    /\ left' = Tail(left)
    /\ errors' = IF RefusedHere(Stmt) THEN errors \cup {at} ELSE errors
    /\ UNCHANGED <<unit, at, frames, cache, answers>>

Ask ==
    /\ Walking /\ left # << >> /\ IsCall(Stmt) /\ ~Cached(Stmt.f)
    /\ Enter(Stmt.f)

Answer ==
    /\ Walking /\ left # << >> /\ IsCall(Stmt) /\ Cached(Stmt.f)
    /\ left' = Tail(left)
    /\ answers' = answers \cup {[on |-> On, f |-> Stmt.f, safe |-> cache[Stmt.f]]}
    /\ errors' = IF cache[Stmt.f] THEN errors ELSE errors \cup {at}
    /\ UNCHANGED <<unit, at, frames, cache>>

NextFunction ==
    /\ Walking /\ left = << >>
    /\ at' = at + 1
    /\ left' = IF at < Len(unit) THEN unit[at + 1].branch ELSE << >>
    /\ UNCHANGED <<unit, frames, cache, answers, errors>>

Next == Finish \/ Reject \/ Pass \/ Descend \/ Take \/ Ask \/ Answer \/ NextFunction

Spec == Init /\ [][Next]_vars

-----------------------------------------------------------------------------
(* What a deployed contract c runs.                                        *)

Done == at > Len(unit)

\* What is reached from fs when to[f] is what follows f: the least set of
\* functions that has fs and all that follows its members.
Closed(C, to)   == \A f \in C : to[f] \subseteq C
Closure(fs, to) ==
    {g \in Functions : \A C \in SUBSET Functions : fs \subseteq C /\ Closed(C, to) => g \in C}

\* The function of gs that comes first in c at one of these places, or else f.
FirstOf(c, spots, gs, f) ==
    LET places(g) == {i \in spots : Order[c][i] = unit[g].of}
        all == {g \in gs : places(g) # {}}
    IN IF all = {} THEN f
       ELSE CHOOSE g \in all : \A h \in all : \E i \in places(g) : \A j \in places(h) : i <= j

\* What a call in a function of d runs in c: the most derived override of the
\* function it names; that function itself; the next one after d.
Overridden(g)   == Closure({g}, [h \in Functions |-> {unit[h].base} \ {0}])
Overrides(g, f) == f \in Overridden(g)
Runs(c, f) == FirstOf(c, DOMAIN Order[c], {g \in Functions : Overrides(g, f)}, f)
RunsSuper(c, d, f) ==
    FirstOf(c, {i \in DOMAIN Order[c] : \E j \in 1 .. i - 1 : Order[c][j] = d},
            {g \in Functions : Overridden(g) \cap Overridden(f) # {}}, f)

Target(c, d, s) == CASE s.op = "call"      -> Runs(c, s.names)
                     [] s.op = "qualified" -> s.names
                     [] s.op = "super"     -> RunsSuper(c, d, s.names)

CallsOf(c, d, ss) ==
    {Target(c, d, ss[i]) : i \in {j \in DOMAIN ss : IsCall(ss[j]) \/ ss[j].op = "super"}}
Reached(c, fs)    == Closure(fs, [f \in Functions |-> CallsOf(c, unit[f].of, Whole(f))])

\* Statements that tell which branch ran, or undo the other's effects.
Leaks(s) == \/ s.op \in Abrupt \cup {"named"}
            \/ s.op \in Writes \cup {"step"} /\ s.root \in {"state", "pointer", "tuple"}
LeaksHere(s) == Leaks(s) \/ s.op \in Flow \/ (s.op \in Writes \cup {"step"} /\ s.root = "outer")

Leaky(f) == \E i \in DOMAIN Whole(f) : Leaks(Whole(f)[i])
CleanIn(c, f) ==
    /\ \A i \in DOMAIN unit[f].branch : ~LeaksHere(unit[f].branch[i])
    /\ \A g \in Reached(c, CallsOf(c, unit[f].of, unit[f].branch)) : ~Leaky(g)

\* In every contract that has it, the encrypted branch of an accepted function
\* does nothing, itself or through any call, that shows which way the
\* encrypted condition went (spec 7.1).
BranchesClean ==
    \A f \in Functions, c \in Contracts :
        (Done /\ f \notin errors /\ Inherits(c, unit[f].of)) => CleanIn(c, f)

\* What branch_safe finds of a function with an empty cache: nothing refused
\* is reachable from it, nor a cycle, all within the asking contract.
Calls(ss) == {ss[i].f : i \in {j \in DOMAIN ss : IsCall(ss[j])}}
Called(fs) == Closure(fs, [f \in Functions |-> Calls(Whole(f))])
SafeAlone(c, f) ==
    \A g \in Called({f}) :
        /\ Inherits(c, unit[g].of) /\ ~unit[g].modified
        /\ \A i \in DOMAIN Whole(g) : ~RefusedThere(Whole(g)[i])
        /\ g \notin Called(Calls(Whole(g)))

\* The shared cache is transparent: the answer a branch gets does not depend
\* on which functions and contracts asked before it.
CacheTransparent == \A a \in answers : a.safe = SafeAlone(a.on, a.f)
=============================================================================
