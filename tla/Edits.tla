-------------------------------- MODULE Edits ---------------------------------
(***************************************************************************)
(* What a plan promises (the module documentation of plan.rs and           *)
(* splice.rs): its patches are made one at a time, in ANY order, each at   *)
(* its place in the author's text whatever was made before, and a plan     *)
(* with a patch that does not fit is refused as a whole.                   *)
(***************************************************************************)
EXTENDS Patches

VARIABLES plan,     \* the plan
          text,     \* the text so far; nothing once the plan is refused
          pending,  \* the patches still to be made
          state     \* "open", "done" or "refused"

vars == <<plan, text, pending, state>>

\* two patches claim the same bytes, or one inserts inside what the other replaces
Conflict(p, q) == p.start < q.end /\ q.start < p.end

\* at one offset: insertions before replacements, then by InsertOrder, then
\* in the order of the plan
Precedes(i, j) ==
    LET p == plan[i]  q == plan[j]
    IN \/ p.start < q.start
       \/ p.start = q.start /\ IsInsertion(p) /\ ~IsInsertion(q)
       \/ /\ p.start = q.start /\ IsInsertion(p) = IsInsertion(q)
          /\ p.order < q.order \/ (p.order = q.order /\ i < j)

\* a byte of the text stands before patch i; patch i takes it away
Before(b, i) == IF b.from = 0 THEN b.at <= plan[i].start ELSE Precedes(b.from, i)
Taken(b, i)  == b.from = 0 /\ plan[i].start < b.at /\ b.at <= plan[i].end

Made == DOMAIN plan \ pending
Fits(i) == Sound(plan[i]) /\ \A j \in Made : ~Conflict(plan[i], plan[j])

Init == /\ IsPlan(plan)
        /\ text = Source
        /\ pending = DOMAIN plan
        /\ state = "open"

Make(i) ==
    /\ state = "open" /\ i \in pending /\ Fits(i)
    /\ \E a, b \in 0..Len(text) :
          /\ \A k \in DOMAIN text : (k <= a) <=> Before(text[k], i)
          /\ \A k \in DOMAIN text : (a < k /\ k <= b) <=> Taken(text[k], i)
          /\ a <= b
          /\ text' = SubSeq(text, 1, a) \o Text(plan, i) \o SubSeq(text, b + 1, Len(text))
    /\ pending' = pending \ {i}
    /\ UNCHANGED <<plan, state>>

Refuse(i) ==
    /\ state = "open" /\ i \in pending /\ ~Fits(i)
    /\ state' = "refused" /\ text' = << >>
    /\ UNCHANGED <<plan, pending>>

Finish ==
    /\ state = "open" /\ pending = {}
    /\ state' = "done"
    /\ UNCHANGED <<plan, text, pending>>

Next == (\E i \in pending : Make(i) \/ Refuse(i)) \/ Finish

Safely == Init /\ [][Next]_vars
Spec   == Safely /\ WF_vars(Next)
=============================================================================
