------------------------------- MODULE Stress -------------------------------
(***************************************************************************)
(* The stress test: StressTest::run and its workers                        *)
(* (crates/ork-core/src/stress/mod.rs), started, stopped and cleared away   *)
(* by the window (apps/desktop/src-tauri/src/stressing.rs).                 *)
(*                                                                         *)
(* A run has a supervisor, a worker for each core it was asked to burn, and *)
(* one that fills the memory.  Supervisor and workers share a flag, `halt`, *)
(* a deadline, and the channel on which workers report what went wrong.     *)
(***************************************************************************)
EXTENDS Integers

CONSTANTS
  Run,
  Core,      \* the workers that burn a core each
  Memory,    \* the worker that fills the memory
  Asked,     \* [Run -> the workers its plan asks for]
  Sensors,   \* can a temperature be read on this machine?
  None

Worker == Core \cup Memory

ASSUME StressAssumption ==
  /\ Core \cap Memory = {}
  /\ Asked \in [Run -> SUBSET Worker]
  /\ Sensors \in BOOLEAN
  /\ None \notin Run

VARIABLES
  running,   \* StressState::running: the run whose token is in there
  cancelled, \* the runs whose token is cancelled
  pc,        \* [Run -> where run() is]
  halt,      \* [Run -> the flag]
  late,      \* [Run -> has the deadline passed?]
  work,      \* [Run -> [Worker -> what it does, or did]]
  channel,   \* [Run -> the workers whose fault is on its way]
  faults,    \* [Run -> the workers whose fault the supervisor has heard]
  ending,    \* [Run -> why the supervisor stopped watching]
  report,    \* [Run -> what it reported, or None]
  hot,       \* is a part of the machine at its ceiling?
  wrong      \* history: [Run -> the workers that got something wrong]

vars == <<running, cancelled, pc, halt, late, work, channel, faults,
          ending, report, hot, wrong>>
slot == <<running, cancelled>>
heard == <<channel, faults, wrong>>
result == <<ending, report>>

PC == {"off", "starting", "watching", "joining", "done", "dropped"}
Ending == {"completed", "cancelled", "too-hot"}

\* A worker that is "spent" has reported its fault and keeps its core busy.
Busy == {"working", "spent"}

\* The memory was not to be tested, was tested, or could not be.
Summary == {"not asked", "ran", "not run"}

Report == [ending : Ending, faults : SUBSET Worker, memory : Summary]

TypeOK ==
  /\ running \in Run \cup {None}
  /\ cancelled \subseteq Run
  /\ pc \in [Run -> PC]
  /\ halt \in [Run -> BOOLEAN]
  /\ late \in [Run -> BOOLEAN]
  /\ work \in [Run -> [Worker -> Busy \cup {"idle", "ended", "refused"}]]
  /\ channel \in [Run -> SUBSET Worker]
  /\ faults \in [Run -> SUBSET Worker]
  /\ ending \in [Run -> Ending]
  /\ report \in [Run -> Report \cup {None}]
  /\ hot \in BOOLEAN
  /\ wrong \in [Run -> SUBSET Worker]

Loading(r) == \E w \in Worker : work[r][w] \in Busy
AllEnded(r) == ~ Loading(r)

Moves(r, from, to) == pc[r] = from /\ pc' = [pc EXCEPT ![r] = to]

-----------------------------------------------------------------------------
(* The window's commands.                                                   *)

StressStart(r) ==
  /\ running = None
  /\ Moves(r, "off", "starting")
  /\ running' = r
  /\ UNCHANGED <<cancelled, halt, late, work, heard, result, hot>>

StressStop ==
  /\ running # None
  /\ cancelled' = cancelled \cup {running}
  /\ running' = None
  /\ UNCHANGED <<pc, halt, late, work, heard, result, hot>>

\* What the supervisors of the runs R kept for themselves goes out of scope.
Forgets(R) ==
  /\ late' = [r \in Run |-> IF r \in R THEN FALSE ELSE late[r]]
  /\ channel' = [r \in Run |-> IF r \in R THEN {} ELSE channel[r]]
  /\ faults' = [r \in Run |-> IF r \in R THEN {} ELSE faults[r]]
  /\ wrong' = [r \in Run |-> IF r \in R THEN {} ELSE wrong[r]]
  /\ ending' = [r \in Run |-> IF r \in R THEN "completed" ELSE ending[r]]
  /\ report' = [r \in Run |-> IF r \in R THEN None ELSE report[r]]

Ends(r, from) ==
  /\ Moves(r, from, "off")
  /\ Forgets({r})
  /\ halt' = [halt EXCEPT ![r] = FALSE]
  /\ work' = [work EXCEPT ![r] = [w \in Worker |-> "idle"]]
  /\ UNCHANGED hot

\* The task that ran the test empties the slot, whoever is in there by now.
Clear(r) ==
  /\ Ends(r, "done")
  /\ running' = None
  /\ cancelled' = cancelled \ {r}

Underway == {"starting", "watching", "joining"}

\* Every run is dropped.
Dropped ==
  /\ \E r \in Run : pc[r] \in Underway
  /\ pc' = [r \in Run |-> IF pc[r] = "off" THEN "off" ELSE "dropped"]
  /\ running' = None
  /\ cancelled' = {}
  /\ Forgets(Run)
  /\ UNCHANGED <<work, hot>>

\* Mutation: nothing halts the workers of a run that is dropped.
CloseWithoutDeadman == Dropped /\ UNCHANGED halt

\* Closing the window drops the runs; what goes out of scope with each of them
\* is its Deadman, which halts the workers.
Close ==
  /\ Dropped
  /\ halt' = [r \in Run |-> halt[r] \/ pc[r] \in Underway]

\* The process has ended, and with it what workers it still had.
Gone(r) == Ends(r, "dropped") /\ UNCHANGED slot

-----------------------------------------------------------------------------
(* Starting the workers.                                                    *)

\* How much memory is free is asked for first, and could not be read.
CannotMeasure(r) ==
  /\ Asked[r] \cap Memory # {}
  /\ Moves(r, "starting", "done")
  /\ UNCHANGED <<slot, halt, late, work, heard, result, hot>>

\* The memory is left alone when not enough of it is free.
Spawn(r) ==
  /\ Moves(r, "starting", "watching")
  /\ \E started \in {Asked[r], Asked[r] \ Memory} :
       work' = [work EXCEPT ![r] =
                  [w \in Worker |-> IF w \in started THEN "working" ELSE "idle"]]
  /\ UNCHANGED <<slot, halt, late, heard, result, hot>>

-----------------------------------------------------------------------------
(* The workers.                                                             *)

WorkerGoes(r, w, to) ==
  /\ work' = [work EXCEPT ![r][w] = to]
  /\ UNCHANGED <<slot, pc, halt, late, faults, result, hot>>

\* A block came back wrong, or a cell did: one report from each worker.  A run
\* that was dropped has nobody to send it to.
WrongAnswer(r, w) ==
  /\ work[r][w] = "working"
  /\ LET sent == {w} \ {v \in Worker : pc[r] = "dropped"} IN
       /\ channel' = [channel EXCEPT ![r] = @ \cup sent]
       /\ wrong' = [wrong EXCEPT ![r] = @ \cup sent]
  /\ WorkerGoes(r, w, IF w \in Core THEN "spent" ELSE "ended")

\* Mutation: only the deadline ends a worker, and the flag does not.
WorkerEndsAtDeadline(r, w) ==
  /\ work[r][w] \in Busy
  /\ late[r]
  /\ WorkerGoes(r, w, "ended")
  /\ UNCHANGED <<channel, wrong>>

WorkerEnds(r, w) ==
  /\ work[r][w] \in Busy
  /\ halt[r] \/ late[r]
  /\ WorkerGoes(r, w, "ended")
  /\ UNCHANGED <<channel, wrong>>

\* The machine gives up no memory at all.
MemoryRefused(r, w) ==
  /\ w \in Memory
  /\ work[r][w] = "working"
  /\ WorkerGoes(r, w, "refused")
  /\ UNCHANGED <<channel, wrong>>

-----------------------------------------------------------------------------
(* The supervisor.                                                          *)

\* It stops watching, halts the workers and waits for them.
StopWatching(r, why) ==
  /\ Moves(r, "watching", "joining")
  /\ ending' = [ending EXCEPT ![r] = why]
  /\ halt' = [halt EXCEPT ![r] = TRUE]
  /\ UNCHANGED <<slot, late, work, heard, report, hot>>

\* Mutation: a stopped run ends like one that was completed.
SeesStopUnmarked(r) == r \in cancelled /\ StopWatching(r, ending[r])

SeesStop(r) == r \in cancelled /\ StopWatching(r, "cancelled")

\* Mutation: the heat is noted and nothing is stopped.
SeesHeatOnly(r) ==
  /\ Sensors /\ hot
  /\ pc[r] = "watching"
  /\ ending' = [ending EXCEPT ![r] = "too-hot"]
  /\ UNCHANGED <<slot, pc, halt, late, work, heard, report, hot>>

SeesHeat(r) == Sensors /\ hot /\ StopWatching(r, "too-hot")

\* The channel is empty, and every worker has dropped its sender.
SeesAllEnded(r) == channel[r] = {} /\ AllEnded(r) /\ StopWatching(r, ending[r])

Hears(r, w) ==
  /\ pc[r] = "watching"
  /\ w \in channel[r]
  /\ channel' = [channel EXCEPT ![r] = @ \ {w}]
  /\ faults' = [faults EXCEPT ![r] = @ \cup {w}]
  /\ UNCHANGED <<slot, pc, halt, late, work, result, hot, wrong>>

\* What fill_memory says, or what is said where it was never begun.
MemorySummary(r) ==
  IF Asked[r] \cap Memory = {} THEN "not asked"
  ELSE IF \E w \in Memory : work[r][w] = "ended" THEN "ran"
  ELSE "not run"

\* Mutation: what arrived after the supervisor stopped listening is not looked at.
PublishHeard(r) ==
  /\ AllEnded(r)
  /\ Moves(r, "joining", "done")
  /\ report' = [report EXCEPT ![r] = [ending |-> ending[r], faults |-> faults[r],
                                    memory |-> MemorySummary(r)]]
  /\ UNCHANGED <<slot, halt, late, work, heard, ending, hot>>

\* Every worker is waited for, and then the channel is emptied.
Publish(r) ==
  /\ AllEnded(r)
  /\ Moves(r, "joining", "done")
  /\ faults' = [faults EXCEPT ![r] = @ \cup channel[r]]
  /\ channel' = [channel EXCEPT ![r] = {}]
  /\ report' = [report EXCEPT ![r] = [ending |-> ending[r], faults |-> faults'[r],
                                    memory |-> MemorySummary(r)]]
  /\ UNCHANGED <<slot, halt, late, work, wrong, ending, hot>>

-----------------------------------------------------------------------------
(* What a report tells, in the shape of a scan's findings.                  *)

FaultFindings(rep) ==
  {IF w \in Core THEN "stress.cpu-wrong-answer" ELSE "stress.memory-corruption" : w \in rep.faults}

Clean(rep) == rep.faults = {}

If(holds, id) == IF holds THEN {id} ELSE {}

Caveats(rep) ==
  If(rep.ending = "too-hot", "stress.overheated") \cup
  If(~ Sensors, "stress.no-temperature-readings") \cup
  If(rep.memory = "not run", "stress.memory-not-tested")

findings(rep) ==
  FaultFindings(rep) \cup Caveats(rep) \cup
  If(Clean(rep) /\ rep.ending = "completed", "stress.clean")

-----------------------------------------------------------------------------
(* Time, and the machine.                                                   *)

\* Once the workers are halted it makes no difference.
DeadlinePasses(r) ==
  /\ pc[r] \in {"starting", "watching"}
  /\ ~ late[r]
  /\ late' = [late EXCEPT ![r] = TRUE]
  /\ UNCHANGED <<slot, pc, halt, work, heard, result, hot>>

HeatChanges ==
  /\ hot' = ~ hot
  /\ UNCHANGED <<slot, pc, halt, late, work, heard, result, wrong>>

-----------------------------------------------------------------------------
Init ==
  /\ running = None
  /\ cancelled = {}
  /\ pc = [r \in Run |-> "off"]
  /\ halt = [r \in Run |-> FALSE]
  /\ late = [r \in Run |-> FALSE]
  /\ work = [r \in Run |-> [w \in Worker |-> "idle"]]
  /\ channel = [r \in Run |-> {}]
  /\ faults = [r \in Run |-> {}]
  /\ ending = [r \in Run |-> "completed"]
  /\ report = [r \in Run |-> None]
  /\ hot \in BOOLEAN
  /\ wrong = [r \in Run |-> {}]

Supervisor(r) ==
  \/ CannotMeasure(r) \/ Spawn(r)
  \/ SeesStop(r) \/ SeesHeat(r) \/ SeesAllEnded(r)
  \/ \E w \in Worker : Hears(r, w)
  \/ Publish(r)
  \/ Clear(r)

Next ==
  \/ \E r \in Run : StressStart(r)
  \/ StressStop
  \/ Close
  \/ HeatChanges
  \/ \E r \in Run : Supervisor(r) \/ Gone(r) \/ DeadlinePasses(r)
  \/ \E r \in Run, w \in Worker : WrongAnswer(r, w) \/ WorkerEnds(r, w) \/ MemoryRefused(r, w)

Spec == Init /\ [][Next]_vars

\* Threads that can go on do, and a supervisor that keeps being able to read the
\* temperature reads it.  A deadline may be too far away to matter.
FairSpec ==
  /\ Spec
  /\ \A r \in Run : WF_vars(Supervisor(r)) /\ WF_vars(SeesHeat(r))
  /\ \A r \in Run, w \in Worker : WF_vars(WorkerEnds(r, w))

-----------------------------------------------------------------------------
(* What must hold.                                                          *)

\* "Detached work that is heating somebody's computer with nothing left watching
\* the temperature" (stress/mod.rs:566-568) does not exist: a worker that has not
\* been told to halt has a supervisor that watches.
HeatIsWatched == \A r \in Run : Loading(r) /\ ~ halt[r] => pc[r] = "watching"

\* "Losing one of these would mean a run that found a hardware fault and did not
\* mention it" (stress/mod.rs:678-680): a report has every fault of its run, and
\* tells of the part that is failing.
FaultsReported ==
  \A r \in Run :
    report[r] # None =>
      /\ report[r].faults = wrong[r]
      /\ "stress.cpu-wrong-answer" \in findings(report[r]) <=> wrong[r] \cap Core # {}
      /\ "stress.memory-corruption" \in findings(report[r]) <=> wrong[r] \cap Memory # {}

\* "Nothing went wrong" is told of a run that got nothing wrong and was neither
\* stopped nor cut short: it worked the processor until its time was up, and
\* where the memory was asked for it was tested, or that it was not is told with
\* it ("never a silent absence", stress/mod.rs:186, 349-369).
CleanMeansWorked ==
  \A r \in Run :
    report[r] # None /\ "stress.clean" \in findings(report[r]) =>
      /\ wrong[r] = {}
      /\ (\E c \in Core : work[r][c] # "idle") => late[r]
      /\ Asked[r] \cap Memory # {} =>
           \/ \E w \in Memory : work[r][w] = "ended"
           \/ "stress.memory-not-tested" \in findings(report[r])

\* "Stopping is instant" (docs/stress.md:83) and "the run ends when the requested
\* work is done" (stress/mod.rs:42-43): either way it lets go of the machine.
RunEnds ==
  \A r \in Run :
    pc[r] \in Underway /\ (r \in cancelled \/ late[r]) ~> pc[r] \notin Underway

\* "It stops itself if the machine gets too hot" (docs/stress.md:67).
HeatEndsLoad ==
  \A r \in Run : Sensors /\ hot /\ pc[r] = "watching" ~> ~ hot \/ ~ Loading(r)

\* "Stopping is instant and always available" (stress/mod.rs:31): Stop reaches
\* every run that loads the machine and has not been stopped.
StopIsAvailable ==
  \A r \in Run : pc[r] = "watching" => running = r \/ r \in cancelled
=============================================================================
