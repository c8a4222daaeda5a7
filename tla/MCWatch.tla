------------------------------- MODULE MCWatch -------------------------------
(***************************************************************************)
(* A project with out nested in src, and the configurations its author may *)
(* change to.                                                              *)
(***************************************************************************)
EXTENDS Watch

\* s and t are source directories, s/o and s/n are inside s
MCDir == {"s", "t", "s/o", "s/n"}
MCUnder(c, d) == c = d \/ (d = "s" /\ c \in {"s/o", "s/n"})
MCUnsafe(c) == c.src = c.out
MCBroken(c) == c.opt = 2

Safe   == [src |-> "s", out |-> "s/o", opt |-> 0]
Option == [Safe EXCEPT !.opt = 1]
Garbled == [Safe EXCEPT !.opt = 2]     \* does not load
Moved  == [Safe EXCEPT !.src = "t"]    \* src moves
Fresh  == [Safe EXCEPT !.out = "s/n"]  \* out moves to another directory inside src
Same   == [Safe EXCEPT !.out = "s"]    \* refused
Inside == [src |-> "s/o", out |-> "s", opt |-> 0]  \* src is inside out

MCConfig    == {Safe, Option, Garbled, Moved, Fresh, Same, Inside}
JustSafe    == {Safe}
AnyStart    == {Safe, Same, Garbled}
JustInside  == {Inside}
SameDirs    == {Safe, Option, Garbled}
MovedSrc    == {Moved}
MovedOut    == {Fresh}
=============================================================================
