------------------------------ MODULE Assigned ------------------------------
(***************************************************************************)
(* A function that fhec-check has accepted, as its lowered form runs: what   *)
(* definite assignment (AssignedBody) is for.  A handle is good or still    *)
(* uninitialized; a copy hands on what it copies; both arms of an encrypted *)
(* if run, each from the state before it, and a select merges what they     *)
(* wrote.  misused says that an uninitialized handle was an operand, an     *)
(* argument, a merge's previous value, or went to storage or to the caller, *)
(* where CoFHE silently puts a default ciphertext.  Assembly never runs: a   *)
(* function that names a return is refused when it has any (HasAsm).        *)
(***************************************************************************)
EXTENDS AssignedBody

CONSTANTS Inputs,      \* the functions considered: modifier and body
          MaxTrips     \* bound on the loop iterations of a run

VARIABLES
    fn,       \* the function
    walked,   \* what the checker's walk of it ended with
    todo,     \* what is left to run, a sequence of statements and marks
    good,     \* the slots that hold an initialized handle
    arms,     \* the encrypted ifs being run, innermost first
    trips,    \* iterations so far
    misused,
    fell      \* the run came to the closing brace of the body

vars == <<fn, walked, todo, good, arms, trips, misused, fell>>

Accepted == walked.out = {}
Running  == Accepted /\ todo # << >>
Now      == Head(todo)
Rest     == Tail(todo)

Mark(op, of) == [op |-> op, of |-> of]
Good(e) == e \notin Slots \/ e \in good

\* What the run does to a slot inside an arm is merged when the arm ends.
Wrote(v) ==
    IF arms = << >> \/ v \in Head(arms).own THEN arms
    ELSE <<[Head(arms) EXCEPT !.wrote = @ \cup {v}]>> \o Tail(arms)

Settled == UNCHANGED <<fn, walked, fell>>

-----------------------------------------------------------------------------
Init ==
    /\ fn \in Inputs
    /\ walked = Checked(fn.modifier, fn.body)
    /\ todo = fn.modifier
    /\ good = {} /\ arms = << >> /\ trips = 0
    /\ misused = FALSE /\ fell = FALSE

\* The placeholder of the modifier runs the body.
EnterBody ==
    /\ Running /\ Now.op = "_"
    /\ todo' = fn.body \o <<Mark("leave", fn)>> \o Rest
    /\ UNCHANGED <<good, arms, trips, misused>> /\ Settled

LeaveBody ==
    /\ Running /\ Now.op = "leave"
    /\ todo' = Rest
    /\ fell' = TRUE
    /\ UNCHANGED <<fn, walked, good, arms, trips, misused>>

Put(v, ok) ==
    /\ good' = IF v = Store THEN good ELSE IF ok THEN good \cup {v} ELSE good \ {v}
    /\ arms' = IF v = Store THEN arms ELSE Wrote(v)
    /\ misused' = (misused \/ (v = Store /\ ~ok))

Set ==
    /\ Running /\ Now.op = "set"
    /\ \E e \in Now.from : Put(Now.to, Good(e))
    /\ todo' = Rest /\ UNCHANGED trips /\ Settled

SetTuple ==
    /\ Running /\ Now.op = "tuple"
    /\ \E e \in Now.from[1], f \in Now.from[2] :
          LET v == Now.to[1]
              w == Now.to[2]
              ok == {x \in {v, w} : Good(IF x = w THEN f ELSE e)}
          IN /\ good' = (good \ {v, w}) \cup (ok \cap Slots)
             /\ misused' = (misused \/ (Store \in {v, w} /\ Store \notin ok))
             /\ arms' = IF arms = << >> THEN arms
                        ELSE <<[Head(arms) EXCEPT
                                  !.wrote = @ \cup (({v, w} \cap Slots) \ Head(arms).own)]>>
                             \o Tail(arms)
    /\ todo' = Rest /\ UNCHANGED trips /\ Settled

Bump ==
    /\ Running /\ Now.op = "bump"
    /\ good' = good \cup {Now.to}
    /\ arms' = Wrote(Now.to)
    /\ misused' = (misused \/ ~Good(Now.to))
    /\ todo' = Rest /\ UNCHANGED trips /\ Settled

\* A local is new, and zero, each time its declaration runs.
Declared ==
    /\ Running /\ Now.op = "decl"
    /\ \/ Now.from = {} /\ good' = good \ {Now.to}
       \/ \E e \in Now.from :
             good' = IF Good(e) THEN good \cup {Now.to} ELSE good \ {Now.to}
    /\ arms' = IF arms = << >> THEN arms
               ELSE <<[Head(arms) EXCEPT !.own = @ \cup {Now.to}]>> \o Tail(arms)
    /\ todo' = Rest /\ UNCHANGED <<trips, misused>> /\ Settled

Use ==
    /\ Running /\ Now.op = "use"
    /\ \E e \in Now.from : misused' = (misused \/ ~Good(e))
    /\ todo' = Rest /\ UNCHANGED <<good, arms, trips>> /\ Settled

Step(next) == todo' = next /\ UNCHANGED <<good, arms, trips, misused>> /\ Settled

\* A plaintext condition, a short circuit, a try: one way is taken.
Branch ==
    /\ Running
    /\ \/ Now.op = "if" /\ (Step(Now.then \o Rest) \/ Step(Now.els \o Rest))
       \/ Now.op = "perhaps" /\ (Step(Now.body \o Rest) \/ Step(Rest))
       \/ Now.op = "try" /\ \E i \in 1 .. 2 : Step(Now.clauses[i] \o Rest)

-----------------------------------------------------------------------------
(* Encrypted ifs.                                                          *)

OpenArms ==
    /\ Running /\ Now.op = "encif"
    /\ \E e \in Now.cond : misused' = (misused \/ ~Good(e))
    /\ arms' = <<[pre |-> good, then |-> {}, first |-> {}, wrote |-> {}, own |-> {}]>> \o arms
    /\ todo' = Now.then \o <<Mark("turn", Now)>> \o Rest
    /\ UNCHANGED <<good, trips>> /\ Settled

TurnArms ==
    /\ Running /\ Now.op = "turn"
    /\ LET top == Head(arms) IN
       /\ arms' = <<[top EXCEPT !.then = good, !.first = top.wrote, !.wrote = {}]>>
                  \o Tail(arms)
       /\ good' = top.pre
    /\ todo' = Now.of.els \o <<Mark("merge", Now.of)>> \o Rest
    /\ UNCHANGED <<trips, misused>> /\ Settled

\* v = select(cond, then's v or the previous one, else's v or the previous one)
MergeArms ==
    /\ Running /\ Now.op = "merge"
    /\ LET top   == Head(arms)
           wrote == top.first \cup top.wrote
           once  == wrote \ (top.first \cap top.wrote)
           outer == Tail(arms)
       IN /\ good' = (top.pre \ wrote) \cup (wrote \cap top.then \cap good)
          /\ misused' = (misused \/ ~(once \subseteq top.pre))
          /\ arms' = IF outer = << >> THEN outer
                     ELSE <<[outer[1] EXCEPT !.wrote = @ \cup (wrote \ outer[1].own)]>>
                          \o Tail(outer)
    /\ todo' = Rest
    /\ UNCHANGED trips /\ Settled

-----------------------------------------------------------------------------
(* Loops and jumps.                                                        *)

\* A do loop starts with its body, the others with their condition.
EnterLoop ==
    /\ Running /\ Now.op \in Loops
    /\ Step(IF Now.op = "do" THEN Now.body \o <<Mark("again", Now)>> \o Rest
                             ELSE <<Mark("test", Now)>> \o Rest)

Again == Running /\ Now.op = "again" /\ Step(Now.of.next \o <<Mark("test", Now.of)>> \o Rest)

Test ==
    /\ Running /\ Now.op = "test"
    /\ \E e \in Now.of.cond : misused' = (misused \/ ~Good(e))
    /\ \/ todo' = Rest /\ UNCHANGED trips
       \/ /\ trips < MaxTrips
          /\ trips' = trips + 1
          /\ todo' = Now.of.body \o <<Mark("again", Now.of)>> \o Rest
    /\ UNCHANGED <<good, arms>> /\ Settled

\* What follows the first mark m in todo, the mark included.
From(m) ==
    LET ends == {i \in DOMAIN todo : todo[i].op = m}
        end  == CHOOSE i \in ends : \A j \in ends : i <= j
    IN SubSeq(todo, end, Len(todo))

Jump ==
    /\ Running
    /\ \/ Now.op = "break" /\ Step(Tail(From("again")))
       \/ Now.op = "continue" /\ Step(From("again"))

\* A return in the body goes on behind the placeholder; one in the modifier
\* ends the call.  return e sets what is handed over.
Return ==
    /\ Running /\ Now.op = "return"
    /\ todo' = IF \E i \in DOMAIN todo : todo[i].op = "leave" THEN Tail(From("leave"))
               ELSE << >>
    /\ \/ Now.from = {} /\ UNCHANGED good
       \/ \E e \in Now.from :
             good' = IF Good(e) THEN good \cup Returns ELSE good \ Returns
    /\ UNCHANGED <<arms, trips, misused>> /\ Settled

\* A revert: nothing is handed over.
Halt ==
    /\ Running /\ Now.op = "halt"
    /\ todo' = <<Mark("reverted", fn)>>
    /\ UNCHANGED <<good, arms, trips, misused>> /\ Settled

Next ==
    \/ EnterBody \/ LeaveBody \/ Set \/ SetTuple \/ Bump \/ Declared \/ Use
    \/ Branch \/ OpenArms \/ TurnArms \/ MergeArms
    \/ EnterLoop \/ Again \/ Test \/ Jump \/ Return \/ Halt

Spec == Init /\ [][Next]_vars

-----------------------------------------------------------------------------
(* Properties.                                                             *)

\* FHE2007 (walk.rs, spec 6): when the walk reports nothing, no path uses an
\* uninitialized handle as an operand, a condition, a previous value of a
\* merge, or a value that goes to storage.
NothingMisused == ~misused

\* check_named_returns_unassigned and the modifier scan (issue #82): when the
\* walk reports nothing, whatever way the call ends, through the body, a
\* return in it, or a modifier that leaves it out, the handles handed to the
\* caller are initialized.
NothingLeaks == Accepted /\ todo = << >> => Returns \subseteq good

\* The walk's final state is about every run that comes to the closing
\* brace: it is not `terminated', and the slots it holds assigned are.
EndIsKnown ==
    fell /\ todo = << >> => ~walked.ended /\ walked.a \subseteq good
=============================================================================
