------------------------------- MODULE MCSplice -------------------------------
(***************************************************************************)
(* A text of four bytes, the middle two of which are one character, and    *)
(* every plan of up to three patches: replacements of whole characters, a  *)
(* deletion (only the precondition marker is one, and two never touch),    *)
(* insertions of every order, and two patches no pass should leave, one    *)
(* that splits the character and one past the end.                         *)
(***************************************************************************)
EXTENDS Splice

MCBoundaries == {0, 1, 3, 4}

Replacements == [start : MCBoundaries, end : MCBoundaries, size : {2}, order : {Normal}]
Deletion == [start |-> 1, end |-> 3, size |-> 0, order |-> Normal]
Insertions == [start : MCBoundaries, end : MCBoundaries, size : {1}, order : BlockOpen..BlockClose]
Unfit == {[start |-> 1, end |-> 2, size |-> 1, order |-> Normal],
          [start |-> 3, end |-> 5, size |-> 1, order |-> Normal]}
MCPatches == {p \in Replacements : p.start < p.end}
             \cup {p \in Insertions : IsInsertion(p)}
             \cup {Deletion} \cup Unfit
=============================================================================
