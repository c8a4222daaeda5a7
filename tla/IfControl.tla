------------------------------ MODULE IfControl ------------------------------
(***************************************************************************)
(* The walk both semantics of a body share: the source executed statement  *)
(* by statement, and the lowered text, whose branches run one after the    *)
(* other in the order render_frame and render_branch visit them.  encl is  *)
(* the stack of enclosing encrypted ifs (the recursion of render_frame),   *)
(* with the arm being walked.                                              *)
(***************************************************************************)
EXTENDS IfProgram

VARIABLES prog,  \* the body
          cell,  \* the run-time place of every lvalue
          pc,    \* the next statement
          depth, \* how many encrypted ifs enclose it
          encl   \* for each of them, outermost first, its position and arm

control == <<prog, cell, pc, depth, encl>>

Here      == prog[pc]

\* the arm of the i-th enclosing if that is being walked
ArmFirst(i) == IF encl[i].arm = "then" THEN encl[i].at + 1
                                       ELSE prog[encl[i].at].els
ArmEnd(i)   == IF encl[i].arm = "then" THEN prog[encl[i].at].els
                                       ELSE prog[encl[i].at].end
ArmSpan(i)  == ArmFirst(i) .. ArmEnd(i)

Limit     == ArmEnd(depth)
InArm     == pc <= Len(prog) /\ (depth > 0 => pc < Limit)
Outermost == IF depth = 0 THEN pc ELSE encl[1].at

\* the enclosing ifs are ifs of the body, each in the arm of the one before it
\* that is being walked, and pc is inside the innermost
ControlOK ==
    /\ prog \in Seq(Stmt) /\ WellNested(prog)
    /\ cell \in [LValue -> Cell]
    /\ pc \in 1..Len(prog) + 1
    /\ depth \in Nat
    /\ encl \in [1..depth -> [at : Nat, arm : {"then", "else"}]]
    /\ \A i \in 1..depth : /\ encl[i].at \in DOMAIN prog
                            /\ prog[encl[i].at].op = "if"
                            /\ pc \in ArmSpan(i)
    /\ \A i, j \in 1..depth : i < j =>
          /\ encl[j].at \in ArmSpan(i)
          /\ prog[encl[j].at].end \in ArmSpan(i)

ControlInit == /\ prog \in Programs
               /\ cell \in Layouts
               /\ pc = 1
               /\ depth = 0
               /\ encl = << >>

Advance == /\ pc' = pc + 1
           /\ UNCHANGED <<prog, cell, depth, encl>>

Enter == /\ pc' = pc + 1
         /\ depth' = depth + 1
         /\ encl' = [i \in 1..depth+1 |-> IF i <= depth THEN encl[i]
                                          ELSE [at |-> pc, arm |-> "then"]]
         /\ UNCHANGED <<prog, cell>>

\* the whole if in one step
JumpOver == /\ pc' = Here.end
            /\ UNCHANGED <<prog, cell, depth, encl>>

AtElse == depth > 0 /\ encl[depth].arm = "then" /\ pc = Limit
AtEnd  == depth > 0 /\ encl[depth].arm = "else" /\ pc = Limit

Turn == /\ AtElse
        /\ encl' = [encl EXCEPT ![depth].arm = "else"]
        /\ UNCHANGED <<prog, cell, pc, depth>>

Leave == /\ AtEnd
         /\ depth' = depth - 1
         /\ encl' = [i \in 1..depth-1 |-> encl[i]]
         /\ UNCHANGED <<prog, cell, pc>>
=============================================================================
