------------------------------- MODULE Patches --------------------------------
(***************************************************************************)
(* The rewrite plan of one file (crates/fhec-ir/src/plan.rs) as the passes *)
(* leave it: byte ranges of the author's text and what replaces them.      *)
(* Neither the bytes nor the replacements are read by anyone downstream,   *)
(* so a byte is its place in the text it comes from, and two texts are     *)
(* equal exactly when every byte of one comes from where the other's does. *)
(***************************************************************************)
EXTENDS Integers, Sequences

CONSTANTS Size,        \* the length of the author's text in bytes
          Boundaries,  \* the offsets between two characters (UTF-8)
          Patches,     \* the patches the passes may leave
          MaxPatches   \* bound: how many of them a plan has

\* InsertOrder: what is inserted first at one offset
BlockOpen   == 0
Declaration == 1
Normal      == 2
BlockClose  == 3

Patch == [start : Nat, end : Nat, size : Nat, order : BlockOpen..BlockClose]

ASSUME SizeAssumption == Size \in Nat
ASSUME PatchAssumption == Patches \subseteq Patch /\ MaxPatches \in Nat

\* where a byte comes from: the author's text (0) or the patch of that index,
\* and its place there, from 1
Byte == [from : Nat, at : Nat]
Source == [n \in 1..Size |-> [from |-> 0, at |-> n]]
Text(plan, i) == [n \in 1..plan[i].size |-> [from |-> i, at |-> n]]

IsPlan(p) == \E n \in 0..MaxPatches : p \in [1..n -> Patches]

IsInsertion(p) == p.start = p.end

\* the invariants a plan must have, which the splicer enforces
Outside(p) == p.start > p.end \/ p.end > Size
Splits(p)  == p.start \notin Boundaries \/ p.end \notin Boundaries
Sound(p)   == ~Outside(p) /\ ~Splits(p)
=============================================================================
