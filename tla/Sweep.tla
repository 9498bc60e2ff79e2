------------------------------- MODULE Sweep --------------------------------
(***************************************************************************)
(* Stopping programs: crates/ork-fix/src/processes.rs (stop_these, judge)  *)
(* and crates/ork-core/src/processes/stop.rs, asked for at the terminal    *)
(* (crates/ork-cli/src/processes.rs, sweep) or in the window (process_stop *)
(* of commands.rs).  Meanwhile programs end and start, come to the front   *)
(* and are pinned, and identifiers are handed out again.                   *)
(***************************************************************************)
EXTENDS Standing

CONSTANTS
  Tool,       \* the identifier this tool runs under
  Before,     \* the machine as the person sits down at it
  MaxStarts,  \* bound: processes that start meanwhile
  Pinnable,   \* bound: the names that are pinned and unpinned
  Faults      \* subset of {"survey", "audit", "refused"}

ASSUME SweepAssumption ==
  /\ Tool \in Pid /\ Before \in Machine /\ Before[Tool] # None
  /\ MaxStarts \in Nat /\ Pinnable \subseteq Leaf
  /\ IsFiniteSet(Pid) /\ None \notin Process
  /\ \A p, q \in Running(Before) :
       Before[p].born < Cardinality(Pid) /\ (Before[p].born = Before[q].born => p = q)

VARIABLES
  machine,   \* what is running
  starts,    \* how many processes have started meanwhile
  front,     \* the process in front of the person, None if it cannot be told
  pins,      \* `[processes] pinned` in the settings
  stage,     \* how far the sweep is
  pinned,    \* the pins this sweep read
  agreed,    \* the targets the person agreed to
  todo,      \* those not tried yet
  target,    \* the one being tried
  outcome,   \* what became of it
  asked,     \* history: the processes this sweep asked to end
  written,   \* history: the processes whose attempt is in the audit log
  changed    \* history: the target's identifier went to another process since it was judged

vars == <<machine, starts, front, pins, stage, pinned, agreed, todo, target, outcome,
          asked, written, changed>>
world == <<machine, starts, front, pins>>

Target == [pid : Pid, name : Name]
Stage == {"idle", "shown", "next", "judged", "asked", "writing"}
Outcome == {"none", "allowed", "stopped", "already gone", "something else now",
            "no longer offered", "refused", "still running"}

TypeOK ==
  /\ machine \in Machine /\ machine[Tool] # None
  /\ starts \in Nat
  /\ front \in Pid \cup {None}
  /\ pins \subseteq Pinnable /\ pinned \subseteq Pinnable
  /\ stage \in Stage
  /\ agreed \subseteq Target /\ todo \subseteq agreed
  /\ target \in Target \cup {None}
  /\ outcome \in Outcome
  /\ asked \subseteq Nat /\ written \subseteq Nat
  /\ changed \in BOOLEAN

Init ==
  /\ machine = Before /\ starts = 0 /\ front \in Running(Before) \cup {None}
  /\ pins = {} /\ pinned = {}
  /\ stage = "idle" /\ agreed = {} /\ todo = {} /\ target = None /\ outcome = "none"
  /\ asked = {} /\ written = {} /\ changed = FALSE

Now == Here(machine, Tool, front, pinned)

\* what really started the tool, as many steps up as the tool looks: a parent
\* is older than what it started, so an identifier handed out again names nobody
Started(p) == {q \in Pid : /\ machine[q] # None /\ machine[p] # None
                          /\ q = machine[p].parent /\ machine[q].born < machine[p].born}
StartedBy(n, c) == c[0] = Tool /\ \A i \in 1 .. n : c[i] \in Started(c[i - 1])
OwnLineage == {q \in Pid : \E n \in 0 .. Reach :
                             \E c \in [0 .. n -> Pid] : StartedBy(n, c) /\ c[n] = q}

Oldest == Cardinality(Pid)   \* what was there before has a smaller number

-----------------------------------------------------------------------------
(* The machine and the person.                                             *)

sweeping == <<stage, pinned, agreed, todo, target, outcome, asked, written>>

\* what a process leaves behind: its children keep its identifier as their
\* parent on Windows, and are given another on Linux
Orphaned(m, p) == {m} \cup {[q \in Pid |-> IF m[q] # None /\ m[q].parent = p
                                             THEN [m[q] EXCEPT !.parent = None] ELSE m[q]]}
Ended(p) == machine' \in Orphaned([machine EXCEPT ![p] = None], p)

Ends(p) ==
  /\ p \in Running(machine) \ {Tool} /\ Ended(p)
  /\ front' = IF front = p THEN None ELSE front
  /\ UNCHANGED <<starts, pins, changed>> /\ UNCHANGED sweeping

Starts(p, program, parent) ==
  /\ p \notin Running(machine) /\ starts < MaxStarts
  /\ parent \in Running(machine)
  /\ machine' = [machine EXCEPT ![p] =
       [runs |-> program, born |-> Oldest + starts, parent |-> parent, young |-> TRUE]]
  /\ starts' = starts + 1
  /\ changed' = (changed \/ (stage = "judged" /\ target.pid = p))
  /\ UNCHANGED <<front, pins>> /\ UNCHANGED sweeping

GrowsUp(p) ==
  /\ p \in Running(machine) /\ machine[p].young
  /\ machine' = [machine EXCEPT ![p].young = FALSE]
  /\ UNCHANGED <<starts, front, pins, changed>> /\ UNCHANGED sweeping

ComesForward ==
  /\ front' \in Running(machine) \cup {None}
  /\ UNCHANGED <<machine, starts, pins, changed>> /\ UNCHANGED sweeping

\* set_pinned, process_pin: by the name the person gives
Pin(leaf) ==
  /\ pins' \in {pins \cup {leaf}, pins \ {leaf}}
  /\ UNCHANGED <<machine, starts, front, changed>> /\ UNCHANGED sweeping

-----------------------------------------------------------------------------
(* The sweep.                                                              *)

Goes(from, to) == stage = from /\ stage' = to

\* the settings are read once, the machine is looked at, the list is shown
Show ==
  /\ Goes("idle", "shown") /\ pinned' = pins
  /\ agreed' = {[pid |-> p, name |-> NameOf(machine, p)] :
                  p \in Offered(machine, Here(machine, Tool, front, pins))}
  /\ todo' = agreed' /\ asked' = {} /\ written' = {}
  /\ target' = None /\ outcome' = "none"
  /\ UNCHANGED changed /\ UNCHANGED world

Agree ==
  /\ todo # {} /\ Goes("shown", "next")
  /\ UNCHANGED <<pinned, agreed, todo, target, outcome, asked, written, changed>>
  /\ UNCHANGED world

Decline ==
  /\ Goes("shown", "idle")
  /\ UNCHANGED <<pinned, agreed, todo, target, outcome, asked, written, changed>>
  /\ UNCHANGED world

VerdictByIdentifier(t) ==
  IF t.pid \notin Running(machine) THEN "already gone"
  ELSE IF Classify(machine, t.pid, Now) # Candidate THEN "no longer offered"
  ELSE "allowed"

\* judge, against a look that is taken for this one target
Verdict(t) ==
  IF t.pid \notin Running(machine) THEN "already gone"
  ELSE IF NameOf(machine, t.pid) # t.name THEN "something else now"
  ELSE IF Classify(machine, t.pid, Now) # Candidate THEN "no longer offered"
  ELSE "allowed"

Judge(t) ==
  /\ t \in todo /\ stage = "next"
  /\ target' = t /\ todo' = todo \ {t} /\ outcome' = Verdict(t) /\ changed' = FALSE
  /\ stage' = IF outcome' = "allowed" THEN "judged" ELSE "writing"
  /\ UNCHANGED <<pinned, agreed, asked, written>> /\ UNCHANGED world

\* a look that cannot be taken ends the sweep
LookFails ==
  /\ "survey" \in Faults /\ todo # {} /\ Goes("next", "idle")
  /\ UNCHANGED <<pinned, agreed, todo, target, outcome, asked, written, changed>>
  /\ UNCHANGED world

\* stop_process looks the identifier up again, and nothing but the identifier
FindsNobody ==
  /\ Goes("judged", "writing") /\ target.pid \notin Running(machine)
  /\ outcome' = "already gone"
  /\ UNCHANGED <<pinned, agreed, todo, target, asked, written, changed>> /\ UNCHANGED world

Refused ==
  /\ "refused" \in Faults
  /\ Goes("judged", "writing") /\ target.pid \in Running(machine)
  /\ outcome' = "refused"
  /\ UNCHANGED <<pinned, agreed, todo, target, asked, written, changed>> /\ UNCHANGED world

\* it is asked to end, once; nothing escalates
Ask ==
  /\ Goes("judged", "asked") /\ target.pid \in Running(machine)
  /\ asked' = asked \cup {machine[target.pid].born}
  /\ UNCHANGED <<pinned, agreed, todo, target, outcome, written, changed>> /\ UNCHANGED world

\* three seconds of watching the identifier
Watch ==
  /\ Goes("asked", "writing")
  /\ \/ /\ target.pid \notin Running(machine) /\ outcome' = "stopped"
     \/ target.pid \in Running(machine) /\ outcome' = "still running"
  /\ UNCHANGED <<pinned, agreed, todo, target, asked, written, changed>> /\ UNCHANGED world

WriteDownOnGoing ==
  /\ stage = "writing" /\ stage' = "next"
  /\ \/ written' = written \cup asked
     \/ "audit" \in Faults /\ UNCHANGED written
  /\ UNCHANGED <<pinned, agreed, todo, target, outcome, asked, changed>> /\ UNCHANGED world

\* the attempt is written down before the next one; if it cannot be, the
\* sweep ends there
WriteDown ==
  /\ stage = "writing"
  /\ \/ /\ stage' = "next" /\ written' = written \cup asked
     \/ "audit" \in Faults /\ stage' = "idle" /\ UNCHANGED written
  /\ UNCHANGED <<pinned, agreed, todo, target, outcome, asked, changed>> /\ UNCHANGED world

Report ==
  /\ todo = {} /\ Goes("next", "idle")
  /\ UNCHANGED <<pinned, agreed, todo, target, outcome, asked, written, changed>>
  /\ UNCHANGED world

-----------------------------------------------------------------------------
Sweeps ==
  \/ Show \/ Agree \/ Decline
  \/ \E t \in todo : Judge(t)
  \/ LookFails \/ FindsNobody \/ Refused \/ Ask \/ Watch \/ WriteDown \/ Report
Lives ==
  \/ \E p \in Pid :
       \/ Ends(p) \/ GrowsUp(p)
       \/ \E program \in Program, parent \in Pid : Starts(p, program, parent)
  \/ ComesForward
  \/ \E leaf \in Pinnable : Pin(leaf)

Next == Sweeps \/ Lives

Spec == Init /\ [][Next]_vars

-----------------------------------------------------------------------------
(* Properties.                                                             *)

Asked(p) == machine[p] # None /\ machine[p].born \in asked' \ asked

\* Neither the tool nor anything that really started it is ever asked to end,
\* not even when identifiers change hands between the look and the asking
\* (standing.rs:306-320, stop.rs:61-80).
OursIsSpared == [][\A p \in Pid : Asked(p) => p \notin OwnLineage]_vars

\* Unless its identifier changed hands in that moment, what is asked to end
\* is on the list the person agreed to, under the name it had there, is no
\* program the tool protects and none that was pinned when the list was
\* drawn, whatever else has happened to the machine since
\* (processes.rs:148-260).
OnlyWhatWasAgreed ==
  [][\A p \in Pid : Asked(p) /\ ~ changed =>
       /\ [pid |-> p, name |-> NameOf(machine, p)] \in agreed
       /\ ProtectionFor(LeafName(machine, p)) = None
       /\ LeafName(machine, p) \notin pinned]_vars

\* At most one process was ever asked to end without the audit log saying so,
\* and then nothing more is asked in that sweep (processes.rs:160-187).
StopsAreWrittenDown ==
  /\ Cardinality(asked \ written) <= 1
  /\ asked \ written # {} => stage \in {"asked", "writing", "idle"}
=============================================================================
