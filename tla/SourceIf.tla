------------------------------ MODULE SourceIf -------------------------------
(***************************************************************************)
(* What the author of an .fsol body means by it (spec.md, 1.3 and 5): an   *)
(* encrypted if runs the arm its condition selects and no other.  This is  *)
(* the abstract specification the lowered text of IfSelect must implement. *)
(* A statement of an arm that is not selected is passed over.              *)
(***************************************************************************)
EXTENDS IfControl

VARIABLES mem,  \* the value of every place
          cond  \* for each enclosing if, whether its condition held

sourceVars == <<control, mem, cond>>

SourceInit == /\ ControlInit
              /\ mem \in [Cell -> Val]
              /\ cond = << >>

\* the arm being walked of every enclosing if is the one that was selected
Selected(i) == cond[i] = (encl[i].arm = "then")
Running     == \A i \in 1..depth : Selected(i)

SourceVal(s) == Apply(s.fn, [k \in 1..Arity |-> mem[cell[s.args[k]]]])

\* declaring a storage pointer names a place and writes none
Writes(s) == s.op = "set" \/ s.lv.root \notin Pointers

SourceAssign ==
    /\ InArm /\ Here.op \in {"set", "decl"}
    /\ mem' = IF Running /\ Writes(Here)
              THEN [mem EXCEPT ![cell[Here.lv]] = SourceVal(Here)]
              ELSE mem
    /\ UNCHANGED cond
    /\ Advance

SourceOpen ==
    /\ InArm /\ Here.op = "if"
    /\ cond' = [i \in 1..depth+1 |->
                  IF i <= depth THEN cond[i]
                  ELSE Running /\ SourceVal(Here) = TrueVal]
    /\ UNCHANGED mem
    /\ Enter

\* an if whose arms are one assignment each, in one step
SourceChoose ==
    /\ InArm /\ Here.op = "if" /\ DirectShape(prog, Outermost, pc)
    /\ LET arm == IF SourceVal(Here) = TrueVal THEN prog[pc+1] ELSE prog[pc+2]
       IN mem' = IF Running
                 THEN [mem EXCEPT ![cell[arm.lv]] = SourceVal(arm)]
                 ELSE mem
    /\ UNCHANGED cond
    /\ JumpOver

SourceElse  == Turn /\ UNCHANGED <<mem, cond>>

SourceClose == /\ Leave
               /\ cond' = [i \in 1..depth-1 |-> cond[i]]
               /\ UNCHANGED mem

SourceNext == \/ SourceAssign \/ SourceOpen \/ SourceChoose
              \/ SourceElse \/ SourceClose

SourceSpec == SourceInit /\ [][SourceNext]_sourceVars
=============================================================================
