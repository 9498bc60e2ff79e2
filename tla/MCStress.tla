------------------------------ MODULE MCStress ------------------------------
(* Small instances of Stress for TLC. *)
EXTENDS Stress, TLC

CONSTANTS r1, r2

\* One run of the processor and the memory, and one of the processor.
BothThenCore == [r \in Run |-> IF r = r1 THEN Worker ELSE Core]
=============================================================================
