---------------------------- MODULE MCFixEngine ----------------------------
(* Small instances of FixEngine for TLC.                                    *)
EXTENDS FixEngine, TLC

CONSTANTS i1, i2, rmA, svc, adv, bad, pA, f1, r1, r2

MCKindOf ==
  [a \in Action |-> IF a \in {rmA, bad} THEN "remove"
                    ELSE IF a = svc THEN "restart" ELSE "manual"]
MCTargetOf == [a \in Action |-> pA]
MCFindingOf == [i \in Item |-> f1]
MCSeverity == [i \in Item |-> IF i = i1 THEN 0 ELSE 1]

\* Every kind of candidate; both problems can be answered by removing one file.
LoopCandidates ==
  [i \in Item |-> IF i = i1 THEN {rmA, adv} ELSE {rmA, svc, bad}]

\* A problem whose fixes can be tested, and one whose fix cannot.
PairCandidates == [i \in Item |-> IF i = i1 THEN {rmA} ELSE {svc, adv}]

\* Two problems answered by removing the same file.
SharedFile == [i \in Item |-> {rmA}]

Window == [r \in Runner |-> "window"]
Terminal == [r \in Runner |-> "terminal"]

RunnerSymmetry == Permutations(Runner)
=============================================================================
