------------------------------ MODULE MCWatch -------------------------------
(* Small instances of Watch for TLC. *)
EXTENDS Watch, TLC

\* A check that can always tell, one that cannot, and one whose findings name a
\* probe that does not run here.
Checks ==
  {c \in [by : Probe, names : Probe \cup {Elsewhere}, sure : BOOLEAN] :
     c.names = c.by \/ (c.names = Elsewhere /\ ~ c.sure)}
=============================================================================
