---------------------------- MODULE StressProofs ----------------------------
(***************************************************************************)
(* The stress test for any number of runs, cores and memory workers.        *)
(*                                                                         *)
(* All four theorems rest on one inductive invariant, Sound: a conjunction  *)
(* of facts about each run by itself.  What happens to one run is proved    *)
(* once for each step, and Elsewhere says that the others keep theirs.      *)
(***************************************************************************)
EXTENDS Stress, TLAPS

\* A run that has not started its workers has nothing in it.
Fresh(r) ==
  pc[r] \in {"off", "starting"} =>
    /\ ~ halt[r]
    /\ \A w \in Worker : work[r][w] = "idle"
    /\ ending[r] = "completed"

\* A fault that was sent has been heard or is on its way.
NoneLost(r) == wrong[r] = faults[r] \cup channel[r]

\* A report is made when nothing more can arrive.
Final(r) ==
  report[r] # None =>
    /\ pc[r] = "done"
    /\ channel[r] = {}
    /\ report[r] = [ending |-> ending[r], faults |-> faults[r], memory |-> MemorySummary(r)]

\* Who loads the machine is watched, or has been told to stop.
Watched(r) ==
  /\ Loading(r) /\ ~ halt[r] => pc[r] = "watching"
  /\ pc[r] = "done" => ~ Loading(r)

\* A core is never refused.  While the run is watched nothing but the deadline ends a core's work, and a
\* run that ends by itself ends after that.
Worked(r) ==
  /\ \A c \in Core : work[r][c] # "refused"
  /\ pc[r] = "watching" => ~ halt[r] /\ ending[r] = "completed"
  /\ pc[r] = "watching" => \A c \in Core : work[r][c] = "ended" => late[r]
  /\ pc[r] \in {"joining", "done"} /\ ending[r] = "completed" =>
       \A c \in Core : work[r][c] # "idle" => late[r]

SoundRun(r) == Fresh(r) /\ NoneLost(r) /\ Final(r) /\ Watched(r) /\ Worked(r)

Sound == TypeOK /\ \A r \in Run : SoundRun(r)

-----------------------------------------------------------------------------
(* Types.                                                                   *)

\* Every step keeps the types.
LEMMA TypeStep ==
  ASSUME TypeOK, [Next]_vars
  PROVE  TypeOK'
<1> USE DEF TypeOK, PC, Ending, Busy
<1>1. ASSUME NEW r \in Run, StressStart(r) PROVE TypeOK'
  BY <1>1 DEF StressStart, Moves, heard, result
<1>2. ASSUME NEW r \in Run, Clear(r) PROVE TypeOK'
  BY <1>2 DEF Clear, Ends, Forgets, Moves
<1>3. ASSUME NEW r \in Run, Gone(r) PROVE TypeOK'
  BY <1>3 DEF Gone, Ends, Forgets, Moves, slot
<1>4. ASSUME NEW r \in Run, CannotMeasure(r) PROVE TypeOK'
  BY <1>4 DEF CannotMeasure, Moves, slot, heard, result
<1>5. ASSUME NEW r \in Run, Spawn(r) PROVE TypeOK'
  BY <1>5 DEF Spawn, Moves, slot, heard, result
<1>6. ASSUME NEW r \in Run, SeesStop(r) PROVE TypeOK'
  BY <1>6 DEF SeesStop, StopWatching, Moves, slot, heard
<1>7. ASSUME NEW r \in Run, SeesHeat(r) PROVE TypeOK'
  BY <1>7 DEF SeesHeat, StopWatching, Moves, slot, heard
<1>8. ASSUME NEW r \in Run, SeesAllEnded(r) PROVE TypeOK'
  BY <1>8 DEF SeesAllEnded, StopWatching, Moves, slot, heard
<1>9. ASSUME NEW r \in Run, Publish(r) PROVE TypeOK'
  BY <1>9 DEF Publish, Moves, slot, Report, MemorySummary, Summary
<1>10. ASSUME NEW r \in Run, DeadlinePasses(r) PROVE TypeOK'
  BY <1>10 DEF DeadlinePasses, slot, heard, result
<1>11. ASSUME NEW r \in Run, NEW w \in Worker, Hears(r, w) PROVE TypeOK'
  BY <1>11 DEF Hears, slot, result
<1>12. ASSUME NEW r \in Run, NEW w \in Worker, WrongAnswer(r, w) PROVE TypeOK'
  BY <1>12 DEF WrongAnswer, WorkerGoes, slot, result
<1>13. ASSUME NEW r \in Run, NEW w \in Worker, WorkerEnds(r, w) PROVE TypeOK'
  BY <1>13 DEF WorkerEnds, WorkerGoes, slot, result
<1>14. ASSUME NEW r \in Run, NEW w \in Worker, MemoryRefused(r, w) PROVE TypeOK'
  BY <1>14 DEF MemoryRefused, WorkerGoes, slot, result
<1>15. CASE StressStop
  BY <1>15 DEF StressStop, heard, result
<1>16. CASE Close
  BY <1>16 DEF Close, Dropped, Forgets
<1>17. CASE HeatChanges
  BY <1>17 DEF HeatChanges, slot, heard, result
<1>18. CASE UNCHANGED vars
  BY <1>18 DEF vars
<1> QED
  BY <1>1, <1>2, <1>3, <1>4, <1>5, <1>6, <1>7, <1>8, <1>9, <1>10, <1>11, <1>12,
     <1>13, <1>14, <1>15, <1>16, <1>17, <1>18 DEF Next, Supervisor

-----------------------------------------------------------------------------
(* One run at a time.                                                       *)

\* Nothing of run q changes.
Same(q) ==
  /\ pc'[q] = pc[q] /\ halt'[q] = halt[q] /\ late'[q] = late[q]
  /\ work'[q] = work[q] /\ channel'[q] = channel[q] /\ faults'[q] = faults[q]
  /\ ending'[q] = ending[q] /\ report'[q] = report[q] /\ wrong'[q] = wrong[q]

\* A run that a step leaves alone stays sound.
LEMMA Elsewhere ==
  ASSUME NEW q \in Run, SoundRun(q), Same(q)
  PROVE  SoundRun(q)'
BY DEF SoundRun, Fresh, NoneLost, Final, MemorySummary, Watched, Worked, Loading, Same

\* From here on: each step leaves its own run sound, and the others alone.
LEMMA StressStartSound ==
  ASSUME Sound, NEW r \in Run, StressStart(r)
  PROVE  \A q \in Run : SoundRun(q)'
<1>1. TypeOK /\ SoundRun(r)
  BY DEF Sound
<1>2. ASSUME NEW q \in Run, q # r PROVE SoundRun(q)'
  <2>1. Same(q)
    BY <1>1, <1>2 DEF Same, StressStart, Moves, heard, result
  <2> QED
    BY <2>1, Elsewhere DEF Sound
<1>3. Fresh(r)'
  BY <1>1 DEF SoundRun, Fresh, StressStart, Moves, result
<1>4. NoneLost(r)'
  BY <1>1 DEF SoundRun, NoneLost, StressStart, heard
<1>5. Final(r)'
  BY <1>1 DEF SoundRun, Final, MemorySummary, StressStart, Moves, result
<1>6. Watched(r)'
  BY <1>1 DEF SoundRun, Watched, Loading, StressStart, Moves
<1>7. Worked(r)'
  BY <1>1 DEF SoundRun, Worked, StressStart, Moves
<1> QED
  BY <1>2, <1>3, <1>4, <1>5, <1>6, <1>7 DEF SoundRun

LEMMA ClearSound ==
  ASSUME Sound, NEW r \in Run, Clear(r)
  PROVE  \A q \in Run : SoundRun(q)'
<1>1. TypeOK /\ SoundRun(r)
  BY DEF Sound
<1>2. ASSUME NEW q \in Run, q # r PROVE SoundRun(q)'
  <2>1. Same(q)
    BY <1>1, <1>2 DEF Same, Clear, Ends, Forgets, Moves
  <2> QED
    BY <2>1, Elsewhere DEF Sound
<1>3. Fresh(r)'
  BY <1>1 DEF TypeOK, Fresh, Clear, Ends, Forgets
<1>4. NoneLost(r)'
  BY <1>1 DEF NoneLost, Clear, Ends, Forgets
<1>5. Final(r)'
  BY <1>1 DEF Final, MemorySummary, Clear, Ends, Forgets
<1>6. Watched(r)'
  BY <1>1 DEF TypeOK, Watched, Loading, Clear, Ends, Busy
<1>7. Worked(r)'
  BY <1>1 DEF TypeOK, Worked, Clear, Ends, Moves, Worker
<1> QED
  BY <1>2, <1>3, <1>4, <1>5, <1>6, <1>7 DEF SoundRun

LEMMA GoneSound ==
  ASSUME Sound, NEW r \in Run, Gone(r)
  PROVE  \A q \in Run : SoundRun(q)'
<1>1. TypeOK /\ SoundRun(r)
  BY DEF Sound
<1>2. ASSUME NEW q \in Run, q # r PROVE SoundRun(q)'
  <2>1. Same(q)
    BY <1>1, <1>2 DEF Same, Gone, Ends, Forgets, Moves
  <2> QED
    BY <2>1, Elsewhere DEF Sound
<1>3. Fresh(r)'
  BY <1>1 DEF TypeOK, Fresh, Gone, Ends, Forgets
<1>4. NoneLost(r)'
  BY <1>1 DEF NoneLost, Gone, Ends, Forgets
<1>5. Final(r)'
  BY <1>1 DEF Final, MemorySummary, Gone, Ends, Forgets
<1>6. Watched(r)'
  BY <1>1 DEF TypeOK, Watched, Loading, Gone, Ends, Busy
<1>7. Worked(r)'
  BY <1>1 DEF TypeOK, Worked, Gone, Ends, Moves, Worker
<1> QED
  BY <1>2, <1>3, <1>4, <1>5, <1>6, <1>7 DEF SoundRun

LEMMA CannotMeasureSound ==
  ASSUME Sound, NEW r \in Run, CannotMeasure(r)
  PROVE  \A q \in Run : SoundRun(q)'
<1>1. TypeOK /\ SoundRun(r)
  BY DEF Sound
<1>2. ASSUME NEW q \in Run, q # r PROVE SoundRun(q)'
  <2>1. Same(q)
    BY <1>1, <1>2 DEF Same, CannotMeasure, Moves, heard, result
  <2> QED
    BY <2>1, Elsewhere DEF Sound
<1>3. Fresh(r)'
  BY <1>1 DEF TypeOK, Fresh, CannotMeasure, Moves
<1>4. NoneLost(r)'
  BY <1>1 DEF SoundRun, NoneLost, CannotMeasure, heard
<1>5. Final(r)'
  BY <1>1 DEF SoundRun, Final, MemorySummary, CannotMeasure, Moves, result
<1>6. Watched(r)'
  BY <1>1 DEF SoundRun, Watched, Loading, CannotMeasure, Moves, Fresh
<1>7. Worked(r)'
  BY <1>1 DEF SoundRun, Worked, CannotMeasure, Moves, Worker, Fresh
<1> QED
  BY <1>2, <1>3, <1>4, <1>5, <1>6, <1>7 DEF SoundRun

LEMMA SpawnSound ==
  ASSUME Sound, NEW r \in Run, Spawn(r)
  PROVE  \A q \in Run : SoundRun(q)'
<1>1. TypeOK /\ SoundRun(r)
  BY DEF Sound
<1>2. ASSUME NEW q \in Run, q # r PROVE SoundRun(q)'
  <2>1. Same(q)
    BY <1>1, <1>2 DEF Same, Spawn, Moves, heard, result
  <2> QED
    BY <2>1, Elsewhere DEF Sound
<1>3. Fresh(r)'
  BY <1>1 DEF TypeOK, Fresh, Spawn, Moves
<1>4. NoneLost(r)'
  BY <1>1 DEF SoundRun, NoneLost, Spawn, heard
<1>5. Final(r)'
  BY <1>1 DEF SoundRun, Final, MemorySummary, Spawn, Moves, result
<1>6. Watched(r)'
  BY <1>1 DEF TypeOK, Watched, Spawn, Moves
<1>7. Worked(r)'
  BY <1>1 DEF SoundRun, Worked, Spawn, Moves, result, Worker, Fresh
<1> QED
  BY <1>2, <1>3, <1>4, <1>5, <1>6, <1>7 DEF SoundRun

LEMMA SeesStopSound ==
  ASSUME Sound, NEW r \in Run, SeesStop(r)
  PROVE  \A q \in Run : SoundRun(q)'
<1>1. TypeOK /\ SoundRun(r)
  BY DEF Sound
<1>2. ASSUME NEW q \in Run, q # r PROVE SoundRun(q)'
  <2>1. Same(q)
    BY <1>1, <1>2 DEF Same, SeesStop, StopWatching, Moves, heard
  <2> QED
    BY <2>1, Elsewhere DEF Sound
<1>3. Fresh(r)'
  BY <1>1 DEF Fresh, SeesStop, StopWatching, Moves
<1>4. NoneLost(r)'
  BY <1>1 DEF SoundRun, NoneLost, SeesStop, StopWatching, heard
<1>5. Final(r)'
  BY <1>1 DEF SoundRun, Final, MemorySummary, SeesStop, StopWatching, Moves
<1>6. Watched(r)'
  BY <1>1 DEF TypeOK, Watched, SeesStop, StopWatching, Moves
<1>7. Worked(r)'
  BY <1>1 DEF TypeOK, SoundRun, Worked, SeesStop, StopWatching, Moves
<1> QED
  BY <1>2, <1>3, <1>4, <1>5, <1>6, <1>7 DEF SoundRun

LEMMA SeesHeatSound ==
  ASSUME Sound, NEW r \in Run, SeesHeat(r)
  PROVE  \A q \in Run : SoundRun(q)'
<1>1. TypeOK /\ SoundRun(r)
  BY DEF Sound
<1>2. ASSUME NEW q \in Run, q # r PROVE SoundRun(q)'
  <2>1. Same(q)
    BY <1>1, <1>2 DEF Same, SeesHeat, StopWatching, Moves, heard
  <2> QED
    BY <2>1, Elsewhere DEF Sound
<1>3. Fresh(r)'
  BY <1>1 DEF Fresh, SeesHeat, StopWatching, Moves
<1>4. NoneLost(r)'
  BY <1>1 DEF SoundRun, NoneLost, SeesHeat, StopWatching, heard
<1>5. Final(r)'
  BY <1>1 DEF SoundRun, Final, MemorySummary, SeesHeat, StopWatching, Moves
<1>6. Watched(r)'
  BY <1>1 DEF TypeOK, Watched, SeesHeat, StopWatching, Moves
<1>7. Worked(r)'
  BY <1>1 DEF TypeOK, SoundRun, Worked, SeesHeat, StopWatching, Moves
<1> QED
  BY <1>2, <1>3, <1>4, <1>5, <1>6, <1>7 DEF SoundRun

LEMMA SeesAllEndedSound ==
  ASSUME Sound, NEW r \in Run, SeesAllEnded(r)
  PROVE  \A q \in Run : SoundRun(q)'
<1>1. TypeOK /\ SoundRun(r)
  BY DEF Sound
<1>2. ASSUME NEW q \in Run, q # r PROVE SoundRun(q)'
  <2>1. Same(q)
    BY <1>1, <1>2 DEF Same, SeesAllEnded, StopWatching, Moves, heard
  <2> QED
    BY <2>1, Elsewhere DEF Sound
<1>3. Fresh(r)'
  BY <1>1 DEF Fresh, SeesAllEnded, StopWatching, Moves
<1>4. NoneLost(r)'
  BY <1>1 DEF SoundRun, NoneLost, SeesAllEnded, StopWatching, heard
<1>5. Final(r)'
  BY <1>1 DEF SoundRun, Final, MemorySummary, SeesAllEnded, StopWatching, Moves
<1>6. Watched(r)'
  BY <1>1 DEF Watched, Loading, SeesAllEnded, AllEnded, StopWatching
<1>7. Worked(r)'
  BY <1>1 DEF TypeOK, SoundRun, Worked, Loading, SeesAllEnded, AllEnded,
     StopWatching, Moves, Worker
<1> QED
  BY <1>2, <1>3, <1>4, <1>5, <1>6, <1>7 DEF SoundRun

LEMMA PublishSound ==
  ASSUME Sound, NEW r \in Run, Publish(r)
  PROVE  \A q \in Run : SoundRun(q)'
<1>1. TypeOK /\ SoundRun(r)
  BY DEF Sound
<1>2. ASSUME NEW q \in Run, q # r PROVE SoundRun(q)'
  <2>1. Same(q)
    BY <1>1, <1>2 DEF Same, Publish, Moves
  <2> QED
    BY <2>1, Elsewhere DEF Sound
<1>3. Fresh(r)'
  BY <1>1 DEF Fresh, Publish, Moves
<1>4. NoneLost(r)'
  BY <1>1 DEF TypeOK, SoundRun, NoneLost, Publish
<1>5. Final(r)'
  BY <1>1 DEF TypeOK, Final, MemorySummary, Publish, Moves
<1>6. Watched(r)'
  BY <1>1 DEF Watched, Loading, Publish, AllEnded
<1>7. Worked(r)'
  BY <1>1 DEF SoundRun, Worked, Publish, Moves
<1> QED
  BY <1>2, <1>3, <1>4, <1>5, <1>6, <1>7 DEF SoundRun

LEMMA DeadlinePassesSound ==
  ASSUME Sound, NEW r \in Run, DeadlinePasses(r)
  PROVE  \A q \in Run : SoundRun(q)'
<1>1. TypeOK /\ SoundRun(r)
  BY DEF Sound
<1>2. ASSUME NEW q \in Run, q # r PROVE SoundRun(q)'
  <2>1. Same(q)
    BY <1>1, <1>2 DEF Same, DeadlinePasses, heard, result
  <2> QED
    BY <2>1, Elsewhere DEF Sound
<1>3. Fresh(r)'
  BY <1>1 DEF SoundRun, Fresh, DeadlinePasses, result
<1>4. NoneLost(r)'
  BY <1>1 DEF SoundRun, NoneLost, DeadlinePasses, heard
<1>5. Final(r)'
  BY <1>1 DEF SoundRun, Final, MemorySummary, DeadlinePasses, result
<1>6. Watched(r)'
  BY <1>1 DEF SoundRun, Watched, Loading, DeadlinePasses
<1>7. Worked(r)'
  BY <1>1 DEF SoundRun, Worked, DeadlinePasses, result
<1> QED
  BY <1>2, <1>3, <1>4, <1>5, <1>6, <1>7 DEF SoundRun

LEMMA HearsSound ==
  ASSUME Sound, NEW r \in Run, NEW w \in Worker, Hears(r, w)
  PROVE  \A q \in Run : SoundRun(q)'
<1>1. TypeOK /\ SoundRun(r)
  BY DEF Sound
<1>2. ASSUME NEW q \in Run, q # r PROVE SoundRun(q)'
  <2>1. Same(q)
    BY <1>1, <1>2 DEF Same, Hears, result
  <2> QED
    BY <2>1, Elsewhere DEF Sound
<1>3. Fresh(r)'
  BY <1>1 DEF Fresh, Hears
<1>4. NoneLost(r)'
  BY <1>1 DEF TypeOK, SoundRun, NoneLost, Hears
<1>5. Final(r)'
  BY <1>1 DEF SoundRun, Final, MemorySummary, Hears, result
<1>6. Watched(r)'
  BY <1>1 DEF Watched, Hears
<1>7. Worked(r)'
  BY <1>1 DEF SoundRun, Worked, Hears, result
<1> QED
  BY <1>2, <1>3, <1>4, <1>5, <1>6, <1>7 DEF SoundRun

LEMMA WrongAnswerSound ==
  ASSUME Sound, NEW r \in Run, NEW w \in Worker, WrongAnswer(r, w)
  PROVE  \A q \in Run : SoundRun(q)'
<1>1. TypeOK /\ SoundRun(r)
  BY DEF Sound
<1>2. ASSUME NEW q \in Run, q # r PROVE SoundRun(q)'
  <2>1. Same(q)
    BY <1>1, <1>2 DEF Same, WrongAnswer, WorkerGoes, result
  <2> QED
    BY <2>1, Elsewhere DEF Sound
<1>3. Fresh(r)'
  BY <1>1 DEF SoundRun, Fresh, WrongAnswer, WorkerGoes
<1>4. NoneLost(r)'
  BY <1>1 DEF TypeOK, SoundRun, NoneLost, WrongAnswer, WorkerGoes
<1>5. Final(r)'
  <2>1. work[r][w] \in Busy
    BY DEF WrongAnswer, Busy
  <2>2. report[r] = None
    BY <1>1, <2>1 DEF SoundRun, Final, Watched, Loading
  <2>3. QED
    BY <2>2 DEF Final, WrongAnswer, WorkerGoes, result
<1>6. Watched(r)'
  BY <1>1 DEF TypeOK, SoundRun, Watched, Loading, WrongAnswer, WorkerGoes, result
<1>7. Worked(r)'
  BY <1>1 DEF SoundRun, Worked, WrongAnswer, WorkerGoes, result
<1> QED
  BY <1>2, <1>3, <1>4, <1>5, <1>6, <1>7 DEF SoundRun

LEMMA WorkerEndsSound ==
  ASSUME Sound, NEW r \in Run, NEW w \in Worker, WorkerEnds(r, w)
  PROVE  \A q \in Run : SoundRun(q)'
<1>1. TypeOK /\ SoundRun(r)
  BY DEF Sound
<1>2. ASSUME NEW q \in Run, q # r PROVE SoundRun(q)'
  <2>1. Same(q)
    BY <1>1, <1>2 DEF Same, WorkerEnds, WorkerGoes, result
  <2> QED
    BY <2>1, Elsewhere DEF Sound
<1>3. Fresh(r)'
  BY <1>1 DEF SoundRun, Fresh, WorkerEnds, WorkerGoes, Busy
<1>4. NoneLost(r)'
  BY <1>1 DEF SoundRun, NoneLost, WorkerEnds, WorkerGoes
<1>5. Final(r)'
  <2>1. work[r][w] \in Busy
    BY DEF WorkerEnds, Busy
  <2>2. report[r] = None
    BY <1>1, <2>1 DEF SoundRun, Final, Watched, Loading
  <2>3. QED
    BY <2>2 DEF Final, WorkerEnds, WorkerGoes, result
<1>6. Watched(r)'
  BY <1>1 DEF SoundRun, Watched, Loading, WorkerEnds, WorkerGoes
<1>7. Worked(r)'
  BY <1>1 DEF SoundRun, Worked, WorkerEnds, WorkerGoes, result, Busy
<1> QED
  BY <1>2, <1>3, <1>4, <1>5, <1>6, <1>7 DEF SoundRun

LEMMA MemoryRefusedSound ==
  ASSUME Sound, NEW r \in Run, NEW w \in Worker, MemoryRefused(r, w)
  PROVE  \A q \in Run : SoundRun(q)'
<1>1. TypeOK /\ SoundRun(r)
  BY DEF Sound
<1>2. ASSUME NEW q \in Run, q # r PROVE SoundRun(q)'
  <2>1. Same(q)
    BY <1>1, <1>2 DEF Same, MemoryRefused, WorkerGoes, result
  <2> QED
    BY <2>1, Elsewhere DEF Sound
<1>3. Fresh(r)'
  BY <1>1 DEF SoundRun, Fresh, MemoryRefused, WorkerGoes
<1>4. NoneLost(r)'
  BY <1>1 DEF SoundRun, NoneLost, MemoryRefused, WorkerGoes
<1>5. Final(r)'
  <2>1. work[r][w] \in Busy
    BY DEF MemoryRefused, Busy
  <2>2. report[r] = None
    BY <1>1, <2>1 DEF SoundRun, Final, Watched, Loading
  <2>3. QED
    BY <2>2 DEF Final, MemoryRefused, WorkerGoes, result
<1>6. Watched(r)'
  BY <1>1 DEF TypeOK, SoundRun, Watched, Loading, MemoryRefused, WorkerGoes
<1>7. Worked(r)'
  BY <1>1, StressAssumption DEF SoundRun, Worked, MemoryRefused, WorkerGoes, result
<1> QED
  BY <1>2, <1>3, <1>4, <1>5, <1>6, <1>7 DEF SoundRun

\* Closing the window drops every run, and its Deadman halts what it had.
LEMMA CloseSound ==
  ASSUME Sound, Close
  PROVE  \A q \in Run : SoundRun(q)'
<1> SUFFICES ASSUME NEW q \in Run PROVE SoundRun(q)'
  OBVIOUS
<1>1. TypeOK /\ SoundRun(q)
  BY DEF Sound
<1>2. Fresh(q)' /\ Final(q)' /\ NoneLost(q)' /\ Worked(q)'
  BY <1>1 DEF SoundRun, Fresh, Final, NoneLost, Worked, Close, Dropped, Forgets,
     Underway
<1>3. Watched(q)'
  <2>1. Loading(q)' <=> Loading(q)
    BY DEF Loading, Close, Dropped
  <2>2. Loading(q) /\ ~ halt[q] => q \in Run /\ pc[q] \in Underway
    BY <1>1 DEF SoundRun, Watched, Underway
  <2>3. halt'[q] = (halt[q] \/ pc[q] \in Underway)
    BY <1>1 DEF Close
  <2>4. pc'[q] # "done"
    BY <1>1 DEF Close, Dropped
  <2> QED
    BY <2>1, <2>2, <2>3, <2>4 DEF Watched
<1> QED
  BY <1>2, <1>3 DEF SoundRun

-----------------------------------------------------------------------------
(* The invariant, and what follows from it.                                 *)

LEMMA SoundInit == Init => Sound
<1> SUFFICES ASSUME Init PROVE Sound
  OBVIOUS
<1>1. TypeOK
  BY DEF Init, TypeOK, PC, Ending
<1>2. ASSUME NEW r \in Run PROVE SoundRun(r)
  BY <1>2 DEF Init, SoundRun, Fresh, NoneLost, Final, Watched, Worked, Loading, Busy,
     Worker
<1> QED
  BY <1>1, <1>2 DEF Sound

LEMMA SoundStep == Sound /\ [Next]_vars => Sound'
<1> SUFFICES ASSUME Sound, [Next]_vars PROVE Sound'
  OBVIOUS
<1>1. TypeOK'
  BY TypeStep DEF Sound
<1> SUFFICES \A q \in Run : SoundRun(q)'
  BY <1>1 DEF Sound
<1>2. CASE \E r \in Run : StressStart(r)
  BY <1>2, StressStartSound
<1>3. CASE \E r \in Run : Clear(r)
  BY <1>3, ClearSound
<1>4. CASE \E r \in Run : Gone(r)
  BY <1>4, GoneSound
<1>5. CASE \E r \in Run : CannotMeasure(r)
  BY <1>5, CannotMeasureSound
<1>6. CASE \E r \in Run : Spawn(r)
  BY <1>6, SpawnSound
<1>7. CASE \E r \in Run : SeesStop(r)
  BY <1>7, SeesStopSound
<1>8. CASE \E r \in Run : SeesHeat(r)
  BY <1>8, SeesHeatSound
<1>9. CASE \E r \in Run : SeesAllEnded(r)
  BY <1>9, SeesAllEndedSound
<1>10. CASE \E r \in Run : Publish(r)
  BY <1>10, PublishSound
<1>11. CASE \E r \in Run : DeadlinePasses(r)
  BY <1>11, DeadlinePassesSound
<1>12. CASE \E r \in Run, w \in Worker : Hears(r, w)
  BY <1>12, HearsSound
<1>13. CASE \E r \in Run, w \in Worker : WrongAnswer(r, w)
  BY <1>13, WrongAnswerSound
<1>14. CASE \E r \in Run, w \in Worker : WorkerEnds(r, w)
  BY <1>14, WorkerEndsSound
<1>15. CASE \E r \in Run, w \in Worker : MemoryRefused(r, w)
  BY <1>15, MemoryRefusedSound
<1>16. CASE Close
  BY <1>16, CloseSound
<1>17. CASE StressStop \/ HeatChanges \/ UNCHANGED vars
  <2>1. \A q \in Run : Same(q)
    BY <1>17 DEF Same, StressStop, HeatChanges, vars, heard, result
  <2> QED
    BY <2>1, Elsewhere DEF Sound
<1> QED
  BY <1>2, <1>3, <1>4, <1>5, <1>6, <1>7, <1>8, <1>9, <1>10, <1>11, <1>12, <1>13,
     <1>14, <1>15, <1>16, <1>17 DEF Next, Supervisor

\* Every reachable state of the specification is sound.
THEOREM AlwaysSound == Spec => []Sound
BY SoundInit, SoundStep, PTL DEF Spec

\* Every variable keeps its type, for any sets of runs and workers.
THEOREM TypeCorrect == Spec => []TypeOK
BY AlwaysSound, PTL DEF Sound

LEMMA SoundWatches == Sound => HeatIsWatched
BY DEF Sound, SoundRun, Watched, HeatIsWatched

\* Nothing heats the machine unwatched, however the run is stopped, ends or is
\* dropped (stress/mod.rs:566-569).
THEOREM HeatWatched == Spec => []HeatIsWatched
BY AlwaysSound, SoundWatches, PTL

LEMMA SoundReports == Sound => FaultsReported
<1> SUFFICES ASSUME Sound, NEW r \in Run, report[r] # None
             PROVE  /\ report[r].faults = wrong[r]
                    /\ "stress.cpu-wrong-answer" \in findings(report[r])
                         <=> wrong[r] \cap Core # {}
                    /\ "stress.memory-corruption" \in findings(report[r])
                         <=> wrong[r] \cap Memory # {}
  BY DEF FaultsReported
<1>1. /\ channel[r] = {} /\ report[r].faults = faults[r]
  <2>1. /\ channel[r] = {}
        /\ report[r] = [ending |-> ending[r], faults |-> faults[r], memory |-> MemorySummary(r)]
    BY DEF Sound, SoundRun, Final
  <2>2. QED
    BY <2>1
<1>2. wrong[r] = faults[r] /\ wrong[r] \subseteq Worker
  BY <1>1 DEF Sound, SoundRun, NoneLost, TypeOK
<1>3. \A id \in {"stress.cpu-wrong-answer", "stress.memory-corruption"} :
        id \in findings(report[r]) <=> id \in FaultFindings(report[r])
  BY DEF findings, Caveats, If
<1>4. "stress.cpu-wrong-answer" \in FaultFindings(report[r]) <=> wrong[r] \cap Core # {}
  BY <1>1, <1>2 DEF FaultFindings
<1>5. "stress.memory-corruption" \in FaultFindings(report[r]) <=> wrong[r] \cap Memory # {}
  BY <1>1, <1>2, StressAssumption DEF FaultFindings, Worker
<1> QED
  BY <1>1, <1>2, <1>3, <1>4, <1>5

\* No fault is missing from a report or from what it tells, whatever order the workers, the heat and
\* Stop came in (stress/mod.rs:678-686).
THEOREM AllFaultsReported == Spec => []FaultsReported
BY AlwaysSound, SoundReports, PTL

LEMMA SoundWorks == Sound => CleanMeansWorked
<1> SUFFICES ASSUME Sound, NEW r \in Run, report[r] # None,
                    "stress.clean" \in findings(report[r])
             PROVE  /\ wrong[r] = {}
                    /\ (\E c \in Core : work[r][c] # "idle") => late[r]
                    /\ Asked[r] \cap Memory # {} =>
                         \/ \E w \in Memory : work[r][w] = "ended"
                         \/ "stress.memory-not-tested" \in findings(report[r])
  BY DEF CleanMeansWorked
<1>1. /\ pc[r] = "done" /\ channel[r] = {}
      /\ report[r].ending = ending[r] /\ report[r].faults = faults[r]
      /\ report[r].memory = MemorySummary(r)
  <2>1. /\ pc[r] = "done" /\ channel[r] = {}
        /\ report[r] = [ending |-> ending[r], faults |-> faults[r], memory |-> MemorySummary(r)]
    BY DEF Sound, SoundRun, Final
  <2>2. QED
    BY <2>1
<1>2. report[r].faults = {} /\ report[r].ending = "completed"
  BY DEF findings, FaultFindings, Caveats, Clean, If
<1>3. wrong[r] = {}
  BY <1>1, <1>2 DEF Sound, SoundRun, NoneLost
<1>4. (\E c \in Core : work[r][c] # "idle") => late[r]
  BY <1>1, <1>2 DEF Sound, SoundRun, Worked
<1>5. report[r].memory = "not run" => "stress.memory-not-tested" \in findings(report[r])
  BY DEF findings, Caveats, If
<1>6. Asked[r] \cap Memory # {} /\ report[r].memory # "not run"
        => \E w \in Memory : work[r][w] = "ended"
  BY <1>1 DEF MemorySummary
<1> QED
  BY <1>3, <1>4, <1>5, <1>6

\* A run that says nothing went wrong got nothing wrong, worked its cores until
\* the deadline, and does not keep quiet about memory it did not test
\* (stress/mod.rs:361-366, 604-646).
THEOREM CleanWorked == Spec => []CleanMeansWorked
BY AlwaysSound, SoundWorks, PTL
=============================================================================
