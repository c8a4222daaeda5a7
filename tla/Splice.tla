-------------------------------- MODULE Splice --------------------------------
(***************************************************************************)
(* The splicer (crates/fhec-emit/src/splice.rs): one walk over the sorted  *)
(* plan that copies, replaces and records where each patch came to lie,    *)
(* and the way back (remap_range of crates/fhec-cli/src/gate.rs and        *)
(* remapRange of the Hardhat plugin): a position in the output, which is   *)
(* where solc reports, to the author's text.                               *)
(***************************************************************************)
EXTENDS Patches

VARIABLES plan,     \* file.plan
          todo,     \* the patches still to apply, in canonical order
          cursor,   \* bytes of the source consumed
          out,      \* the output so far
          applied,  \* where each patch lies in the output and in the source
          state     \* "unsorted", "open", "done" or "refused"

vars == <<plan, todo, cursor, out, applied, state>>

\* Fault: the order tags of insertions are not looked at.
SortKeyUntagged(p) == <<p.start, IF IsInsertion(p) THEN 0 ELSE 1, 0>>

\* lexicographic: start, replacements after insertions, then InsertOrder; the
\* sort is stable, so that plan order breaks the ties that are left
SortKey(p) == <<p.start, IF IsInsertion(p) THEN 0 ELSE 1, p.order>>
KeyLess(k, l) ==
    \/ k[1] < l[1]
    \/ k[1] = l[1] /\ k[2] < l[2]
    \/ k[1] = l[1] /\ k[2] = l[2] /\ k[3] < l[3]
SortsBefore(i, j) ==
    \/ KeyLess(SortKey(plan[i]), SortKey(plan[j]))
    \/ SortKey(plan[i]) = SortKey(plan[j]) /\ i < j

Init == /\ IsPlan(plan)
        /\ todo = << >> /\ cursor = 0 /\ out = << >> /\ applied = << >>
        /\ state = "unsorted"

Sort ==
    /\ state = "unsorted"
    /\ \E order \in [1..Len(plan) -> 1..Len(plan)] :
          /\ \A m, n \in 1..Len(plan) : m < n => SortsBefore(order[m], order[n])
          /\ todo' = order
    /\ state' = "open"
    /\ UNCHANGED <<plan, cursor, out, applied>>

Copied(from, upto) == SubSeq(Source, from + 1, upto)

\* patch.range.start < cursor: an earlier patch already consumed it
Overlaps(p) == p.start < cursor

\* Fault: where the text lies is taken before what stands between is copied.
LyingEarly(p, at) == [outStart |-> cursor, outEnd |-> cursor + p.size,
                      srcStart |-> p.start, srcEnd |-> p.end]

\* where a replacement comes to lie
Lying(p, at) == [outStart |-> at, outEnd |-> at + p.size,
                 srcStart |-> p.start, srcEnd |-> p.end]

Apply ==
    /\ state = "open" /\ todo # << >>
    /\ LET i == Head(todo)  p == plan[i]  kept == out \o Copied(cursor, p.start)
       IN /\ Sound(p) /\ ~Overlaps(p)
          /\ out' = kept \o Text(plan, i)
          /\ applied' = Append(applied, Lying(p, Len(kept)))
          /\ cursor' = p.end
    /\ todo' = Tail(todo)
    /\ UNCHANGED <<plan, state>>

\* PatchOutOfBounds, PatchSplitsUtf8, PatchOverlap: no output at all
Reject ==
    /\ state = "open" /\ todo # << >>
    /\ LET p == plan[Head(todo)] IN ~Sound(p) \/ Overlaps(p)
    /\ state' = "refused"
    /\ UNCHANGED <<plan, todo, cursor, out, applied>>

Finish ==
    /\ state = "open" /\ todo = << >>
    /\ out' = out \o Copied(cursor, Size)
    /\ cursor' = Size
    /\ state' = "done"
    /\ UNCHANGED <<plan, todo, applied>>

Next == Sort \/ Apply \/ Reject \/ Finish

Spec == Init /\ [][Next]_vars /\ WF_vars(Next)

-----------------------------------------------------------------------------
(***************************************************************************)
(* The way back.                                                           *)
(***************************************************************************)

Larger(m, n)   == IF m < n THEN n ELSE m
NoLess(m)      == Larger(0, m)

\* Fault: the end of a mapping counts as inside it.
HoldsItsEnd(m, at) == m.outStart <= at /\ at <= m.outEnd

\* a mapping of no bytes holds the one position it stands at
Holds(m, at) == m.outStart <= at /\ at < Larger(m.outEnd, m.outStart + 1)
FirstHolding(at) ==
    CHOOSE n \in DOMAIN applied : /\ Holds(applied[n], at)
                                  /\ \A k \in 1..n-1 : ~Holds(applied[k], at)

\* the leading mappings that end at or before a position; the last of them
Passed(at) == {n \in DOMAIN applied : \A k \in 1..n : applied[k].outEnd <= at}
Delta(at)  == IF Passed(at) = {} THEN 0
              ELSE LET last == CHOOSE n \in Passed(at) : \A k \in Passed(at) : k <= n
                   IN applied[last].outEnd - applied[last].srcEnd

RemapRange(start, end) ==
    IF \E n \in DOMAIN applied : Holds(applied[n], start)
    THEN LET m == applied[FirstHolding(start)]
         IN [start |-> m.srcStart, end |-> m.srcEnd, inside |-> TRUE]
    ELSE [start |-> NoLess(start - Delta(start)), end |-> NoLess(end - Delta(start)),
          inside |-> FALSE]
-----------------------------------------------------------------------------
(***************************************************************************)
(* Properties.                                                             *)
(***************************************************************************)

\* Every variable holds what the splicer may put there.
TypeOK ==
    /\ IsPlan(plan)
    /\ todo \in Seq(DOMAIN plan)
    /\ cursor \in 0..Size
    /\ out \in Seq(Byte)
    /\ applied \in Seq([outStart : Nat, outEnd : Nat, srcStart : Nat, srcEnd : Nat])
    /\ state \in {"unsorted", "open", "done", "refused"}

\* The walk over the sorted plan comes to what its patches promise when they
\* are made one at a time in any order: splice.rs and its sort against the
\* plan invariants of plan.rs.
SoFar == IF state = "refused" THEN << >> ELSE out \o Copied(cursor, Size)
Ahead == IF state = "unsorted" THEN DOMAIN plan ELSE {todo[n] : n \in DOMAIN todo}
E == INSTANCE Edits WITH text <- SoFar, pending <- Ahead,
                         state <- IF state = "unsorted" THEN "open" ELSE state
Implements == E!Spec

\* Between the patches the output is the author's text, shifted: what every
\* consumer of the manifest relies on (manifest.rs, gate.rs, remap.ts).
\* After mapping n and before the next, byte k of the output is the source's
\* byte k - (outEnd - srcEnd) of that mapping.
After(n)  == IF n = 0 THEN 0 ELSE applied[n].outEnd
Shift(n)  == IF n = 0 THEN 0 ELSE applied[n].outEnd - applied[n].srcEnd
Until(n)  == IF n = Len(applied) THEN Len(out) ELSE applied[n+1].outStart
CopiedExactly ==
    \A n \in 0..Len(applied) : \A k \in After(n)+1 .. Until(n) :
        out[k] = [from |-> 0, at |-> k - Shift(n)]

Origin(b) == IF b.from = 0 THEN [start |-> b.at - 1, end |-> b.at]
             ELSE [start |-> plan[b.from].start, end |-> plan[b.from].end]
NothingDeleted == \A n \in DOMAIN plan : plan[n].size > 0

\* A byte of the output is traced to the byte it was copied from, or to the
\* construct it was generated from; next to a deletion (the precondition
\* marker, pass_ops.rs:250) the blame may fall on the deletion it touches, and
\* never further away.
TracedToSource ==
    state = "done" =>
        \A at \in 0..Len(out)-1 :
            LET b == out[at+1]  r == RemapRange(at, at + 1)
            IN /\ ~r.inside => /\ b.from = 0
                               /\ r.start = Origin(b).start /\ r.end = Origin(b).end
               /\ r.inside => r.start <= Origin(b).start /\ Origin(b).start <= r.end
               /\ r.inside /\ NothingDeleted =>
                     /\ b.from # 0
                     /\ r.start = Origin(b).start /\ r.end = Origin(b).end

\* Both ends of a span between mappings shift by the delta of the mappings
\* before them (the comment on remap_range).
SpanTraced ==
    state = "done" =>
        \A start, last \in 1..Len(out) :
            start <= last /\ out[start].from = 0 /\ out[last].from = 0 =>
                LET r == RemapRange(start - 1, last)
                IN r.inside \/ r.end = out[last].at
=============================================================================
