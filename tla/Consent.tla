------------------------------ MODULE Consent ------------------------------
(***************************************************************************)
(* What the desktop application promises about asking for permission,      *)
(* whatever windows, locks, channels and threads carry the question:       *)
(* one question at a time, each settled once, and never with a yes nobody  *)
(* said to that very question.                                             *)
(***************************************************************************)
CONSTANTS Question, RunOf(_)

VARIABLES
  verdict,   \* [Question -> Verdict]
  said,      \* the <<question, answer>> a person gave
  stopped    \* the runs a person stopped

Answer == {"approve", "decline", "stop"}
Verdict == {"unasked", "open"} \cup Answer

Init == /\ verdict = [q \in Question |-> "unasked"]
        /\ said = {}
        /\ stopped = {}

Put(q) ==
  /\ verdict[q] = "unasked"
  /\ \A p \in Question : verdict[p] # "open"
  /\ verdict' = [verdict EXCEPT ![q] = "open"]
  /\ UNCHANGED <<said, stopped>>

Say(q, a) ==
  /\ verdict[q] # "unasked"
  /\ said' = said \cup {<<q, a>>}
  /\ UNCHANGED <<verdict, stopped>>

Stop(q) ==
  /\ stopped' = stopped \cup {RunOf(q)}
  /\ UNCHANGED <<verdict, said>>

\* A refusal needs no reason; a yes and a stop do.
Settle(q, a) ==
  /\ verdict[q] = "open"
  /\ a = "approve" => <<q, a>> \in said
  /\ a = "stop" => <<q, a>> \in said \/ RunOf(q) \in stopped
  /\ verdict' = [verdict EXCEPT ![q] = a]
  /\ UNCHANGED <<said, stopped>>

Next == \E q \in Question :
          \/ Put(q) \/ Stop(q)
          \/ \E a \in Answer : Say(q, a) \/ Settle(q, a)

Spec == Init /\ [][Next]_<<verdict, said, stopped>>
=============================================================================
