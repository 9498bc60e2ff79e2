------------------------------ MODULE MCOutlaw ------------------------------
(* Small instances of Outlaw for TLC. *)
EXTENDS Outlaw, TLC

CONSTANTS terminal, window

Plain == {[command |-> c, flags |-> {}] : c \in {"boot", "stress", "scan"}}
Fixing == {[command |-> "fix", flags |-> f] : f \in {{"apply", "json"}, {"apply", "no_boot"}}}
Clearing == {[command |-> "report", flags |-> {"clear"}]}

\* one command in a terminal, and the window
OneOfEach ==
  [p \in Proc |-> IF p = window THEN {[command |-> "window", flags |-> {}]}
                  ELSE Plain \cup Fixing \cup Clearing]
=============================================================================
