------------------------------ MODULE MCSweep -------------------------------
(* Small instances of Sweep for TLC: a shell that runs the tool, and two    *)
(* other processes.                                                         *)
EXTENDS Sweep, TLC

CONSTANTS shell, outlaw, game, editor, p1, p2, p3, p4

MCFacts ==
  [p \in Program |->
     [name |-> p, leaf |-> p, yours |-> TRUE, path |-> TRUE]]

MCListed ==
  [l \in List |-> IF l = "ours" THEN {outlaw} ELSE IF l = "holds work" THEN {editor} ELSE {}]

Desk ==
  [p \in Pid |->
     IF p = p1 THEN [runs |-> shell, born |-> 0, parent |-> None, young |-> FALSE]
     ELSE IF p = p2 THEN [runs |-> outlaw, born |-> 1, parent |-> p1, young |-> FALSE]
     ELSE IF p = p3 THEN [runs |-> game, born |-> 2, parent |-> p1, young |-> FALSE]
     ELSE [runs |-> game, born |-> 3, parent |-> p3, young |-> FALSE]]
=============================================================================
