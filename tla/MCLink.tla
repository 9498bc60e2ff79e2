------------------------------- MODULE MCLink -------------------------------
(* Small instances of Link for TLC. *)
EXTENDS Link, TLC

Interchangeable == Permutations(Joiner)
=============================================================================
