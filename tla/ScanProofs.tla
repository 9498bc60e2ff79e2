----------------------------- MODULE ScanProofs -----------------------------
(* Proofs about Scan, for any probes, any stall window and any number of    *)
(* blind looks: what is given up as stuck is silent, what kept a check from *)
(* going the whole way is told, findings stay at home unless they may       *)
(* leave, and only what a person has reviewed carries an action.            *)
EXTENDS Scan, FiniteSetTheorems, WellFoundedInduction, TLAPS

End == {"none", "runs", "gone", "exited", "stalled", "cancelled"}

Child(c) == \E N, S : c \in [name : N, state : End, said : S]

Shape ==
  /\ Child(child)
  /\ quiet \in Nat /\ unseen \in Nat /\ silent \in 0 .. Window
  /\ did \in BOOLEAN /\ late \in BOOLEAN /\ cancelled \in BOOLEAN /\ stage \in Stage

(* What the supervisor has counted since a look saw the program work is     *)
(* time it was silent, unless it has worked since and no look saw it; and   *)
(* where no sleep ran over it is never more than a window above the time    *)
(* that could not be looked at: a look that sees nothing cannot be the one  *)
(* that decides.                                                            *)
Watching ==
  /\ OnlySilenceIsStuck
  /\ stage = "supervised" /\ child.state = "runs" =>
       /\ late = FALSE => quiet <= unseen + Window
       /\ did = FALSE => silent >= Window \/ quiet <= silent

-----------------------------------------------------------------------------
(* The supervisor.                                                          *)

LEMMA ShapeInit == Init => Shape /\ Watching
<1> SUFFICES ASSUME Init PROVE Shape /\ Watching
  OBVIOUS
<1>1. NoChild \in [name : {None}, state : End, said : {"nothing"}]
  BY DEF NoChild, End
<1>2. Child(child) /\ child.state = "none"
  BY <1>1 DEF Child, Init, NoChild
<1>3. /\ quiet = 0 /\ unseen = 0 /\ silent = 0
      /\ did = FALSE /\ late = FALSE /\ cancelled = FALSE /\ stage = "none"
  BY DEF Init
<1>4. quiet \in Nat /\ unseen \in Nat /\ silent \in 0 .. Window
  BY <1>3, ScanAssumption
<1>5. Shape
  BY <1>2, <1>3, <1>4 DEF Shape, Stage
<1>6. Watching
  BY <1>2, <1>3 DEF Watching, OnlySilenceIsStuck
<1>7. QED
  BY <1>5, <1>6

LEMMA ChildMoves ==
  ASSUME Child(child), NEW how \in End, child' = [child EXCEPT !.state = how]
  PROVE  Child(child') /\ child'.state = how
<1>1. PICK N, S : child \in [name : N, state : End, said : S]
  BY DEF Child
<1>2. child' \in [name : N, state : End, said : S] /\ child'.state = how
  BY <1>1
<1>3. QED
  BY <1>2 DEF Child

\* What a judgement keeps, and the sleep after it: what was counted is a
\* silence, and a look that sees nothing decides only where a sleep ran over.
LEMMA JudgeKeeps ==
  ASSUME Shape, Watching, stage = "supervised", child.state = "runs",
         NEW q \in Nat, NEW u \in Nat, Judge(q, u),
         unseen' = u, did' \in BOOLEAN, cancelled' = cancelled,
         did' = FALSE => silent >= Window \/ q <= silent,
         did' = TRUE /\ late = FALSE => Idle(q, u) < Window
  PROVE  Shape' /\ Watching'
<1>1. CASE Idle(q, u) >= Window /\ Over("stalled") /\ quiet' = q /\ UNCHANGED <<silent, late>>
  <2>1. stage' = "answered" /\ child' = [child EXCEPT !.state = "stalled"]
    BY <1>1 DEF Over
  <2>2. "stalled" \in End
    BY DEF End
  <2>3. Child(child') /\ child'.state = "stalled"
    BY <2>1, <2>2, ChildMoves DEF Shape
  <2>4. Shape'
    BY <1>1, <2>1, <2>3 DEF Shape, Stage
  <2>5. CASE did' = FALSE
    <3>1. q >= Window
      BY <1>1, ScanAssumption DEF Idle
    <3>2. silent' >= Window
      BY <1>1, <2>5, <3>1, ScanAssumption DEF Shape
    <3>3. QED
      BY <2>1, <2>4, <3>2 DEF Watching, OnlySilenceIsStuck
  <2>6. CASE did' = TRUE
    <3>1. ~ (late = FALSE)
      BY <1>1, <2>6, ScanAssumption DEF Idle
    <3>2. late' = TRUE
      BY <1>1, <3>1 DEF Shape
    <3>3. OnlySilenceIsStuck'
      BY <2>6, <3>2 DEF OnlySilenceIsStuck
    <3>4. QED
      BY <2>1, <2>4, <3>3 DEF Watching
  <2>7. QED
    BY <2>5, <2>6
<1>2. ASSUME NEW slept \in {1, 2}, Idle(q, u) < Window, UNCHANGED <<stage, child>>,
             quiet' = q + slept, silent' = Later(silent + slept),
             late' = (slept > 1 \/ (late /\ q > 0))
      PROVE  Shape' /\ Watching'
  <2>1. silent' \in 0 .. Window /\ (silent' >= Window \/ silent' = silent + slept)
    BY <1>2, ScanAssumption DEF Later, Shape
  <2>2. quiet' \in Nat /\ unseen' \in Nat
    BY <1>2
  <2>3. late' \in BOOLEAN
    BY <1>2
  <2>4. Shape'
    BY <1>2, <2>1, <2>2, <2>3 DEF Shape
  <2>5. late' = FALSE => quiet' <= unseen' + Window
    <3>1. late' = FALSE => slept = 1
      <4>1. slept > 1 => late' = TRUE
        BY <1>2, Zenon
      <4>2. slept = 1 \/ slept > 1
        OBVIOUS
      <4>3. QED
        BY <4>1, <4>2
    <3>2. q < u + Window
      BY <1>2, ScanAssumption DEF Idle
    <3>3. slept = 1 => quiet' <= unseen' + Window
      BY <1>2, <3>2, ScanAssumption
    <3>4. QED
      BY <3>1, <3>3
  <2>6. did' = FALSE => silent' >= Window \/ quiet' <= silent'
    BY <1>2, <2>1, ScanAssumption DEF Shape
  <2>7. OnlySilenceIsStuck'
    BY <1>2 DEF OnlySilenceIsStuck
  <2>8. QED
    BY <2>4, <2>5, <2>6, <2>7 DEF Watching
<1>3. \/ Idle(q, u) >= Window /\ Over("stalled") /\ quiet' = q /\ UNCHANGED <<silent, late>>
      \/ \E slept \in {1, 2} :
           /\ Idle(q, u) < Window /\ UNCHANGED <<stage, child>>
           /\ quiet' = q + slept /\ silent' = Later(silent + slept)
           /\ late' = (slept > 1 \/ (late /\ q > 0))
  <2>1. (IF "slow" \in Faults THEN {1, 2} ELSE {1}) \subseteq {1, 2}
    OBVIOUS
  <2>2. QED
    BY <2>1, Zenon DEF Judge
<1>4. QED
  BY <1>1, <1>2, <1>3

LEMMA LookKeeps ==
  ASSUME Shape, Watching, Look \/ LookSeesNothing
  PROVE  Shape' /\ Watching'
<1>1. stage = "supervised" /\ child.state = "runs" /\ cancelled' = cancelled
  BY DEF Look, LookSeesNothing
<1>2. CASE Look
  <2> DEFINE q == IF did THEN 0 ELSE quiet
  <2>1. Judge(q, unseen) /\ did' = FALSE /\ unseen' = unseen
    BY <1>2 DEF Look
  <2>2. q \in Nat /\ (silent >= Window \/ q <= silent)
    <3>1. CASE did = TRUE
      <4>1. q = 0
        BY <3>1
      <4>2. QED
        BY <4>1, ScanAssumption DEF Shape
    <3>2. CASE did = FALSE
      <4>1. q = quiet
        BY <3>2
      <4>2. QED
        BY <1>1, <3>2, <4>1 DEF Shape, Watching
    <3>3. QED
      BY <3>1, <3>2 DEF Shape
  <2> HIDE DEF q
  <2>3. unseen \in Nat
    BY DEF Shape
  <2>4. QED
    BY <1>1, <2>1, <2>2, <2>3, JudgeKeeps
<1>3. CASE LookSeesNothing
  <2>1. Judge(quiet, unseen + 1) /\ did' = did /\ unseen' = unseen + 1
    BY <1>3 DEF LookSeesNothing
  <2>2. quiet \in Nat /\ unseen + 1 \in Nat /\ did \in BOOLEAN
    BY DEF Shape
  <2>3. late = FALSE => Idle(quiet, unseen + 1) < Window
    BY <1>1, ScanAssumption DEF Idle, Shape, Watching
  <2>4. did = FALSE => silent >= Window \/ quiet <= silent
    BY <1>1 DEF Watching
  <2>5. QED
    BY <1>1, <2>1, <2>2, <2>3, <2>4, JudgeKeeps
<1>4. QED
  BY <1>2, <1>3

\* A step that leaves the program and its supervisor alone.
LEMMA PassesBy ==
  ASSUME Shape, Watching, UNCHANGED program, cancelled' \in BOOLEAN, stage' \in Stage,
         stage' = "supervised" => stage = "supervised"
  PROVE  Shape' /\ Watching'
<1>1. Shape'
  BY DEF Shape, program
<1>2. Watching'
  BY DEF Watching, OnlySilenceIsStuck, program
<1>3. QED
  BY <1>1, <1>2

\* A step that sets how the program stands, and no more.
LEMMA Stands ==
  ASSUME Shape, Watching, NEW how \in End \ {"runs", "stalled"},
         Child(child'), child'.state = how,
         quiet' \in Nat, unseen' \in Nat, silent' \in 0 .. Window, did' \in BOOLEAN, late' \in BOOLEAN,
         cancelled' \in BOOLEAN, stage' \in Stage
  PROVE  Shape' /\ Watching'
<1>1. Shape'
  BY DEF Shape
<1>2. Watching'
  BY DEF Watching, OnlySilenceIsStuck
<1>3. QED
  BY <1>1, <1>2

LEMMA OverKeeps ==
  ASSUME Shape, Watching, Terminate \/ Exited
  PROVE  Shape' /\ Watching'
<1>1. PICK how \in {"cancelled", "exited"} : Over(how)
  BY DEF Terminate, Exited
<1>2. how \in End \ {"runs", "stalled"}
  BY DEF End
<1>3. Child(child') /\ child'.state = how
  BY <1>1, <1>2, ChildMoves DEF Over, Shape
<1>4. UNCHANGED <<cancelled, quiet, unseen, did, silent, late>>
  BY DEF Terminate, Exited
<1>5. stage' \in Stage
  BY <1>1 DEF Over, Stage
<1>6. QED
  BY <1>2, <1>3, <1>4, <1>5, Stands DEF Shape

LEMMA EndsKeeps ==
  ASSUME Shape, Watching, NEW said, Ends(said)
  PROVE  Shape' /\ Watching'
<1>1. PICK N, S : child \in [name : N, state : End, said : S]
  BY DEF Shape, Child
<1>2. child' = [child EXCEPT !.state = "gone", !.said = said]
  BY DEF Ends
<1>3. child' \in [name : N, state : End, said : S \cup {said}] /\ child'.state = "gone"
  BY <1>1, <1>2 DEF End
<1>4. Child(child')
  BY <1>3 DEF Child
<1>5. UNCHANGED <<cancelled, stage, quiet, unseen, late>> /\ did' = TRUE /\ silent' = 0
  BY DEF Ends
<1>6. silent' \in 0 .. Window /\ did' \in BOOLEAN
  BY <1>5, ScanAssumption
<1>7. "gone" \in End \ {"runs", "stalled"}
  BY DEF End
<1>8. QED
  BY <1>3, <1>4, <1>5, <1>6, <1>7, Stands DEF Shape

LEMMA AnsweredKeeps ==
  ASSUME Shape, Watching, Answered
  PROVE  Shape' /\ Watching'
<1>1. /\ child' = NoChild /\ quiet' = 0 /\ unseen' = 0 /\ did' = FALSE /\ silent' = 0 /\ late' = FALSE
      /\ cancelled' = cancelled /\ stage' = "programs"
  BY DEF Answered
<1>2. NoChild \in [name : {None}, state : End, said : {"nothing"}] /\ NoChild.state = "none"
  BY DEF NoChild, End
<1>3. Child(child') /\ child'.state = "none"
  BY <1>1, <1>2 DEF Child
<1>4. quiet' \in Nat /\ unseen' \in Nat /\ silent' \in 0 .. Window
  BY <1>1, ScanAssumption
<1>5. did' \in BOOLEAN /\ late' \in BOOLEAN /\ stage' \in Stage
  BY <1>1 DEF Stage
<1>6. "none" \in End \ {"runs", "stalled"}
  BY DEF End
<1>7. QED
  BY <1>1, <1>3, <1>4, <1>5, <1>6, Stands DEF Shape

LEMMA SpawnKeeps ==
  ASSUME Shape, Watching, NEW name, Spawn(name)
  PROVE  Shape' /\ Watching'
<1>1. child' = [name |-> name, state |-> "runs", said |-> "nothing"]
      /\ quiet' = 0 /\ unseen' = 0 /\ did' = FALSE /\ silent' = 0 /\ late' = FALSE
      /\ cancelled' = cancelled /\ stage' = "supervised"
  BY DEF Spawn
<1>2. child' \in [name : {name}, state : End, said : {"nothing"}] /\ child'.state = "runs"
  BY <1>1 DEF End
<1>3. Child(child')
  BY <1>2 DEF Child
<1>4. quiet' \in Nat /\ unseen' \in Nat /\ silent' \in 0 .. Window
  BY <1>1, ScanAssumption
<1>5. did' \in BOOLEAN /\ late' \in BOOLEAN /\ stage' \in Stage
  BY <1>1 DEF Stage
<1>6. Shape'
  BY <1>1, <1>3, <1>4, <1>5 DEF Shape
<1>7. quiet' <= unseen' + Window /\ quiet' <= silent'
  BY <1>1, ScanAssumption
<1>8. Watching'
  BY <1>2, <1>7 DEF Watching, OnlySilenceIsStuck
<1>9. QED
  BY <1>6, <1>8

LEMMA WorksKeeps ==
  ASSUME Shape, Watching, Works
  PROVE  Shape' /\ Watching'
<1>1. did' = TRUE /\ silent' = 0 /\ UNCHANGED <<cancelled, stage, child, quiet, unseen, late>>
  BY DEF Works
<1>2. silent' \in 0 .. Window /\ did' \in BOOLEAN
  BY <1>1, ScanAssumption
<1>3. Shape'
  BY <1>1, <1>2 DEF Shape
<1>4. child.state = "runs"
  BY DEF Works
<1>5. Watching'
  BY <1>1, <1>4 DEF Watching, OnlySilenceIsStuck
<1>6. QED
  BY <1>3, <1>5

LEMMA OthersPassBy ==
  ASSUME Shape, Watching,
         \/ StartScan \/ Skip \/ DroppedByCancel \/ BeginProbe \/ Read \/ ProbeFails
         \/ \E name \in todo : NothingToAsk(name)
         \/ ProbeReturns \/ Report
         \/ \E tier \in Scope : RunScan(tier)
         \/ CancelScan
         \/ \E c \in Configs : Route(c)
         \/ \E reply \in Replies : Explain(reply)
  PROVE  Shape' /\ Watching'
<1>1. UNCHANGED program
  BY DEF StartScan, Skip, DroppedByCancel, BeginProbe, Read, ProbeFails, NothingToAsk,
         ProbeReturns, Report, RunScan, CancelScan, Route, Explain
<1>2. cancelled' \in BOOLEAN
  BY DEF Shape, StartScan, Skip, DroppedByCancel, BeginProbe, Read, ProbeFails, NothingToAsk,
         ProbeReturns, Report, RunScan, CancelScan, Route, Explain
<1>3. stage' \in {"probes", "reading", "programs", "none", "asked", stage}
  BY DEF StartScan, Skip, DroppedByCancel, BeginProbe, Read, ProbeFails, NothingToAsk,
         ProbeReturns, Report, RunScan, CancelScan, Route, Explain, Considered
<1>4. stage' \in Stage /\ (stage' = "supervised" => stage = "supervised")
  BY <1>3 DEF Shape, Stage
<1>5. QED
  BY <1>1, <1>2, <1>4, PassesBy

LEMMA WatchingKeeps == Shape /\ Watching /\ [Next]_vars => Shape' /\ Watching'
<1> SUFFICES ASSUME Shape, Watching, [Next]_vars PROVE Shape' /\ Watching'
  OBVIOUS
<1>1. CASE UNCHANGED vars
  BY <1>1, PassesBy DEF vars, program, Shape
<1>2. CASE Scans
  BY <1>2, LookKeeps, SpawnKeeps, OverKeeps, AnsweredKeeps, OthersPassBy DEF Scans
<1>3. CASE Programs
  BY <1>3, WorksKeeps, EndsKeeps DEF Programs
<1>4. CASE Person
  BY <1>4, OthersPassBy DEF Person
<1>5. QED
  BY <1>1, <1>2, <1>3, <1>4 DEF Next

-----------------------------------------------------------------------------
\* What is given up as stuck has done nothing for a whole stall window,
\* however often it could not be looked at and however late the looks came,
\* but where it worked unseen and the sleeps ran over (exec.rs:296-369).
THEOREM SilenceOnly == Spec => []OnlySilenceIsStuck
<1> DEFINE W == Shape /\ Watching
<1>1. Init => W
  BY ShapeInit
<1>2. W /\ [Next]_vars => W'
  BY WatchingKeeps
<1>3. W => OnlySilenceIsStuck
  BY DEF Watching
<1>4. QED
  BY <1>1, <1>2, <1>3, PTL DEF Spec

-----------------------------------------------------------------------------
(* What a report tells.                                                     *)

Sequence(x) == \E S : x \in Seq(S)
Busy == stage \in {"probes", "reading", "programs", "supervised", "answered"}
AtPrograms == stage \in {"programs", "supervised", "answered"}

(* One outcome for every probe that was considered, each of them telling    *)
(* what it left out unless the scan was cancelled.                          *)
Counted ==
  /\ Sequence(outcomes) /\ Sequence(found)
  /\ Len(outcomes) = at - 1 /\ at \in 1 .. Len(Probes) + 1
  /\ stage # "probes" => at <= Len(Probes)
  /\ ~ cancelled => \A i \in 1 .. Len(outcomes) : Vouched(outcomes[i], Probes[i])

(* So does the probe at work, as far as it got; and a program that was      *)
(* stopped was stopped by the token.                                        *)
Open == ~ cancelled /\ found = <<>> => gaps \subseteq Hidden(Probes[at])
AtItsOwn ==
  /\ stage = "reading" => Probes[at].does = "reads"
  /\ AtPrograms => Probes[at].does \in {"starts programs", "verifies files"}
Ended ==
  stage = "answered" =>
    child.state \in {"exited", "stalled", "cancelled"} /\ (child.state = "cancelled" => cancelled)

Progress ==
  /\ stage \in Stage
  /\ Busy => Counted /\ Open /\ AtItsOwn
  /\ Ended
  /\ GapsAreTold

LEMMA ConsideredKeeps ==
  ASSUME Progress, Busy, stage = "probes" => at <= Len(Probes), NEW o, Considered(o, "probes"),
         ~ cancelled => Vouched(o, Probes[at]),
         UNCHANGED <<cancelled, report>>
  PROVE  Progress'
<1>1. at \in 1 .. Len(Probes) /\ Len(Probes) \in Nat
  <2>1. at \in 1 .. Len(Probes) + 1 /\ at <= Len(Probes)
    BY DEF Progress, Counted
  <2>2. QED
    BY <2>1, ScanAssumption
<1>2. PICK S : outcomes \in Seq(S)
  BY DEF Progress, Counted, Sequence
<1>3. outcomes' = Append(outcomes, o) /\ at' = at + 1 /\ found' = <<>> /\ gaps' = {} /\ stage' = "probes"
  BY DEF Considered
<1>4. outcomes \in Seq(S \cup {o})
  BY <1>2
<1>5. /\ outcomes' \in Seq(S \cup {o}) /\ Len(outcomes') = Len(outcomes) + 1
      /\ outcomes'[Len(outcomes) + 1] = o
      /\ \A i \in 1 .. Len(outcomes) : outcomes'[i] = outcomes[i]
  BY <1>3, <1>4
<1>6. found' \in Seq({})
  BY <1>3
<1>7. Sequence(outcomes') /\ Sequence(found')
  BY <1>5, <1>6 DEF Sequence
<1>8. Len(outcomes) = at - 1
  BY DEF Progress, Counted
<1>9. ~ cancelled => \A i \in 1 .. Len(outcomes') : Vouched(outcomes'[i], Probes[i])
  <2>1. ~ cancelled => \A i \in 1 .. Len(outcomes) : Vouched(outcomes[i], Probes[i])
    BY DEF Progress, Counted
  <2>2. Len(outcomes) + 1 = at
    BY <1>1, <1>8
  <2>3. ASSUME ~ cancelled, NEW i \in 1 .. Len(outcomes')
        PROVE  Vouched(outcomes'[i], Probes[i])
    <3>1. CASE i = at
      BY <1>5, <2>2, <2>3, <3>1
    <3>2. CASE i # at
      <4>1. i \in 1 .. Len(outcomes)
        BY <1>1, <1>5, <1>8, <3>2
      <4>2. QED
        BY <1>5, <2>1, <2>3, <4>1
    <3>3. QED
      BY <3>1, <3>2
  <2>4. QED
    BY <2>3
<1>10. Counted'
  BY <1>1, <1>3, <1>5, <1>7, <1>8, <1>9 DEF Counted
<1>11. GapsAreTold'
  BY DEF Progress, GapsAreTold
<1>12. Open' /\ AtItsOwn' /\ Ended'
  BY <1>3 DEF Open, AtItsOwn, AtPrograms, Ended
<1>13. QED
  BY <1>3, <1>10, <1>11, <1>12 DEF Progress, Stage

\* A step that moves no probe on.
LEMMA ProgressStays ==
  ASSUME Progress, UNCHANGED <<outcomes, at, report, found, gaps>>, stage' \in Stage,
         Busy' => Busy /\ (stage' # "probes" => at <= Len(Probes)),
         cancelled' = cancelled \/ cancelled' = TRUE,
         AtItsOwn', Ended'
  PROVE  Progress'
<1>1. GapsAreTold'
  BY DEF Progress, GapsAreTold
<1>2. Busy' => Counted'
  BY DEF Progress, Counted
<1>3. Busy' => Open'
  BY DEF Progress, Open
<1>4. QED
  BY <1>1, <1>2, <1>3 DEF Progress

LEMMA ProbeEnds ==
  ASSUME Progress, Skip \/ DroppedByCancel \/ Read \/ ProbeFails \/ ProbeReturns
  PROVE  Progress'
<1>1. stage \in {"probes", "reading", "programs"} /\ (stage = "probes" => at <= Len(Probes))
      /\ UNCHANGED <<cancelled, report>>
  BY DEF Skip, DroppedByCancel, Read, ProbeFails, ProbeReturns, window
<1>2. Busy
  BY <1>1 DEF Busy
<1>3. ASSUME Skip \/ DroppedByCancel \/ ProbeFails
      PROVE  \E o : Considered(o, "probes") /\ Vouched(o, Probes[at])
  <2>1. \A status, findings, missed :
          status # "completed" => Vouched(Outcome(status, findings, missed), Probes[at])
    BY DEF Vouched, Outcome
  <2>2. QED
    BY <1>3, <2>1 DEF Skip, DroppedByCancel, ProbeFails
<1>4. ASSUME Read
      PROVE  \E o : Considered(o, "probes") /\ Vouched(o, Probes[at])
  <2>1. stage = "reading" /\ Probes[at].does = "reads"
    BY <1>2, <1>4 DEF Read, Progress, AtItsOwn
  <2>2. PICK findings, unread :
          /\ unread # {} => Probes[at].unsure
          /\ Considered(Outcome("completed", findings, IF unread = {} THEN {} ELSE {"unread"}), "probes")
    BY <1>4 DEF Read
  <2> DEFINE missed == IF unread = {} THEN {} ELSE {"unread"}
  <2>3. missed \subseteq Hidden(Probes[at])
    BY <2>1, <2>2 DEF Hidden
  <2>4. Vouched(Outcome("completed", findings, missed), Probes[at])
    BY <2>3, Zenon DEF Vouched, Outcome
  <2>5. QED
    BY <2>2, <2>4
<1>5. ASSUME ProbeReturns
      PROVE  \E o : Considered(o, "probes") /\ (~ cancelled => Vouched(o, Probes[at]))
  <2> DEFINE o == Outcome("completed", found, gaps \cup (IF todo = {} THEN {} ELSE {"stopped"}))
  <2>1. Considered(o, "probes") /\ (todo = {} \/ cancelled) /\ stage = "programs"
    BY <1>5 DEF ProbeReturns
  <2>2. o.findings = found /\ (todo = {} => o.gaps = gaps)
    BY DEF Outcome
  <2>3. ~ cancelled /\ found = <<>> => gaps \subseteq Hidden(Probes[at])
    BY <1>2 DEF Progress, Open
  <2>4. ~ cancelled => Vouched(o, Probes[at])
    <3> HIDE DEF o
    <3> QED
      BY <2>1, <2>2, <2>3 DEF Vouched
  <2>5. QED
    BY <2>1, <2>4
<1>6. QED
  BY <1>1, <1>2, <1>3, <1>4, <1>5, ConsideredKeeps

LEMMA BeginProbeProgress == ASSUME Progress, BeginProbe PROVE Progress'
<1>1. /\ stage = "probes" /\ at <= Len(Probes)
      /\ stage' = IF Probes[at].does = "reads" THEN "reading" ELSE "programs"
      /\ UNCHANGED <<cancelled, at, found, gaps, outcomes, report, child>>
  BY DEF BeginProbe, window, program
<1>2. at \in 1 .. Len(Probes)
  <2>1. at \in 1 .. Len(Probes) + 1
    BY <1>1 DEF Progress, Busy, Counted
  <2>2. QED
    BY <1>1, <2>1, ScanAssumption
<1>3. Probes[at].does \in {"reads", "starts programs", "verifies files"}
  BY <1>2, ProbesAssumption
<1>4. AtItsOwn' /\ Ended'
  BY <1>1, <1>3 DEF AtItsOwn, AtPrograms, Ended
<1>5. stage' \in Stage /\ Busy /\ (stage' # "probes" => at <= Len(Probes))
  BY <1>1 DEF Stage, Busy
<1>6. QED
  BY <1>1, <1>4, <1>5, ProgressStays

LEMMA SpawnProgress == ASSUME Progress, NEW name, Spawn(name) PROVE Progress'
<1>1. stage = "programs" /\ stage' = "supervised"
      /\ UNCHANGED <<cancelled, at, found, gaps, outcomes, report>>
  BY DEF Spawn, window
<1>2. stage' \in Stage /\ Busy /\ (stage' # "probes" => at <= Len(Probes))
  BY <1>1 DEF Stage, Busy, Progress, Counted
<1>3. AtItsOwn' /\ Ended'
  BY <1>1, <1>2 DEF Progress, AtItsOwn, AtPrograms, Ended
<1>4. QED
  BY <1>1, <1>2, <1>3, ProgressStays

\* What a probe hears is noted with the probe still at work.
LEMMA Noted ==
  ASSUME Progress, stage \in {"programs", "answered"}, stage' = "programs", Sequence(found'),
         UNCHANGED <<outcomes, at, report, cancelled>>, Open'
  PROVE  Progress'
<1>1. Counted /\ AtItsOwn
  BY DEF Progress, Busy
<1>2. Counted'
  BY <1>1 DEF Counted
<1>3. GapsAreTold'
  BY DEF Progress, GapsAreTold
<1>4. AtItsOwn' /\ Ended'
  BY <1>1 DEF AtItsOwn, AtPrograms, Ended
<1>5. QED
  BY <1>2, <1>3, <1>4 DEF Progress, Stage

LEMMA NothingToAskProgress == ASSUME Progress, NEW name, NothingToAsk(name) PROVE Progress'
<1> DEFINE f == <<Finding("system.files-unverified", None)>>
<1>1. stage = "programs" /\ stage' = stage
      /\ UNCHANGED <<outcomes, at, report, cancelled>>
  BY DEF NothingToAsk, window
<1>2. Busy /\ Sequence(found) /\ Sequence(f)
  <2>1. f \in Seq({Finding("system.files-unverified", None)})
    OBVIOUS
  <2>2. QED
    BY <1>1, <2>1 DEF Progress, Busy, Counted, Sequence
<1>3. CASE /\ Probes[at].does = "starts programs"
           /\ UNCHANGED found /\ gaps' \in {gaps, gaps \cup {"untested"}}
  <2>1. "untested" \in Hidden(Probes[at])
    BY <1>3 DEF Hidden
  <2>2. Open'
    BY <1>1, <1>2, <1>3, <2>1 DEF Progress, Open
  <2>3. QED
    BY <1>1, <1>2, <1>3, <2>2, Noted
<1>4. CASE found' = f
  <2>1. found' # <<>>
    BY <1>4
  <2>2. Open'
    BY <2>1 DEF Open
  <2>3. QED
    BY <1>1, <1>2, <1>4, <2>2, Noted
<1>5. QED
  BY <1>3, <1>4 DEF NothingToAsk

\* A check that is told nothing of leaves nothing open that would show.
LEMMA ToldNothing ==
  ASSUME NEW p, NEW name, NEW said, NEW end \in {"exited", "stalled"},
         p.does \in {"starts programs", "verifies files"}, Told(p, name, end, said) = <<>>
  PROVE  Left(end, said) \subseteq Hidden(p)
<1>1. \A x : <<x>> # <<>>
  OBVIOUS
<1>2. CASE p.does = "starts programs"
  <2>1. end = "exited" /\ said = "fine"
    BY <1>1, <1>2, Zenon DEF Told
  <2>2. QED
    BY <2>1 DEF Left
<1>3. CASE p.does = "verifies files"
  <2>1. end = "exited" /\ said # "unclear"
    BY <1>1, <1>3, Zenon DEF Told
  <2>2. QED
    BY <1>3, <2>1 DEF Left, Hidden
<1>4. QED
  BY <1>2, <1>3

LEMMA ToldIsSequence ==
  ASSUME NEW p, NEW name, NEW said, NEW end
  PROVE  Sequence(Told(p, name, end, said))
<1>1. \A x : <<x>> \in Seq({x})
  OBVIOUS
<1>2. <<>> \in Seq({})
  OBVIOUS
<1>3. Told(p, name, end, said) = <<>> \/ \E x : Told(p, name, end, said) = <<x>>
  BY Zenon DEF Told
<1>4. QED
  BY <1>1, <1>2, <1>3, Zenon DEF Sequence

LEMMA AnsweredProgress == ASSUME Progress, Answered PROVE Progress'
<1> DEFINE told == Told(Probes[at], child.name, child.state, child.said)
<1>1. stage = "answered" /\ stage' = "programs" /\ found' = found \o told
      /\ gaps' = gaps \cup Left(child.state, child.said)
      /\ UNCHANGED <<outcomes, at, report, cancelled>>
  BY DEF Answered, window
<1>2. PICK S : found \in Seq(S)
  BY <1>1 DEF Progress, Busy, Counted, Sequence
<1>3. PICK T : told \in Seq(T)
  BY ToldIsSequence DEF Sequence
<1>4. found' \in Seq(S \cup T) /\ (found' = <<>> => found = <<>> /\ told = <<>>)
  <2>1. found \in Seq(S \cup T) /\ told \in Seq(S \cup T)
    BY <1>2, <1>3
  <2>2. QED
    BY <1>1, <2>1
<1>5. Sequence(found')
  BY <1>4 DEF Sequence
<1>6. ASSUME ~ cancelled, found' = <<>>
      PROVE  gaps' \subseteq Hidden(Probes[at])
  <2>1. child.state \in {"exited", "stalled"}
    BY <1>1, <1>6 DEF Progress, Ended
  <2>2. Probes[at].does \in {"starts programs", "verifies files"}
    BY <1>1 DEF Progress, Busy, AtItsOwn, AtPrograms
  <2>3. Left(child.state, child.said) \subseteq Hidden(Probes[at])
    BY <1>4, <1>6, <2>1, <2>2, ToldNothing
  <2>4. gaps \subseteq Hidden(Probes[at])
    BY <1>1, <1>4, <1>6 DEF Progress, Busy, Open
  <2>5. QED
    BY <1>1, <2>3, <2>4
<1>7. Open'
  BY <1>1, <1>6 DEF Open
<1>8. QED
  BY <1>1, <1>5, <1>7, Noted

LEMMA OverProgress ==
  ASSUME Child(child), Progress, stage = "supervised",
         UNCHANGED <<outcomes, at, report, found, gaps, cancelled>>,
         NEW how \in {"exited", "stalled", "cancelled"}, Over(how), how = "cancelled" => cancelled
  PROVE  Progress'
<1>1. child' = [child EXCEPT !.state = how] /\ stage' = "answered" /\ how \in End
  BY DEF Over, End
<1>2. child'.state = how
  BY <1>1, ChildMoves
<1>3. stage' \in Stage /\ Busy /\ at <= Len(Probes)
  BY <1>1 DEF Stage, Busy, Progress, Counted
<1>4. AtItsOwn' /\ Ended'
  BY <1>1, <1>2, <1>3 DEF Progress, AtItsOwn, AtPrograms, Ended
<1>5. QED
  BY <1>3, <1>4, ProgressStays

LEMMA SupervisorProgress ==
  ASSUME Child(child), Progress, Look \/ LookSeesNothing \/ Terminate \/ Exited
  PROVE  Progress'
<1>1. stage = "supervised" /\ UNCHANGED <<outcomes, at, report, found, gaps, cancelled>>
  BY DEF Look, LookSeesNothing, Terminate, Exited, probing, window
<1>2. CASE \E how \in {"exited", "stalled", "cancelled"} : Over(how) /\ (how = "cancelled" => cancelled)
  BY <1>1, <1>2, OverProgress
<1>3. CASE UNCHANGED <<stage, child>>
  <2>1. Busy /\ stage' \in Stage /\ at <= Len(Probes)
    BY <1>1, <1>3 DEF Busy, Progress, Counted
  <2>2. AtItsOwn' /\ Ended'
    BY <1>1, <1>3, <2>1 DEF Progress, AtItsOwn, AtPrograms, Ended
  <2>3. QED
    BY <1>1, <2>1, <2>2, ProgressStays
<1>4. QED
  BY <1>2, <1>3, Zenon DEF Look, LookSeesNothing, Terminate, Exited, Judge

LEMMA ProgramsProgress == ASSUME Progress, Programs PROVE Progress'
<1>1. stage = "supervised" /\ stage' = stage
      /\ UNCHANGED <<outcomes, at, report, found, gaps, cancelled>>
  BY DEF Programs, Works, Ends, probing, window
<1>2. Busy /\ stage' \in Stage /\ at <= Len(Probes)
  BY <1>1 DEF Busy, Progress, Counted
<1>3. AtItsOwn' /\ Ended'
  BY <1>1, <1>2 DEF Progress, AtItsOwn, AtPrograms, Ended
<1>4. QED
  BY <1>1, <1>2, <1>3, ProgressStays

LEMMA StartScanProgress == ASSUME Progress, StartScan PROVE Progress'
<1>1. stage' = "probes" /\ at' = 1 /\ outcomes' = <<>> /\ found' = <<>> /\ gaps' = {}
      /\ UNCHANGED report
  BY DEF StartScan
<1>2. <<>> \in Seq({}) /\ Len(<<>>) = 0
  OBVIOUS
<1>3. Sequence(outcomes') /\ Sequence(found')
  BY <1>1, <1>2 DEF Sequence
<1>4. Len(outcomes') = at' - 1 /\ at' \in 1 .. Len(Probes) + 1
  BY <1>1, <1>2, ScanAssumption
<1>5. \A i \in 1 .. Len(outcomes') : Vouched(outcomes'[i], Probes[i])
  BY <1>1, <1>2
<1>6. Counted'
  BY <1>1, <1>3, <1>4, <1>5 DEF Counted
<1>7. GapsAreTold'
  BY <1>1 DEF Progress, GapsAreTold
<1>8. Open' /\ AtItsOwn' /\ Ended'
  BY <1>1 DEF Open, AtItsOwn, AtPrograms, Ended
<1>9. QED
  BY <1>1, <1>6, <1>7, <1>8 DEF Progress, Stage

LEMMA RunScanProgress == ASSUME Progress, NEW tier, RunScan(tier) PROVE Progress'
<1>1. stage' = "asked" /\ report' = NoReport
  BY DEF RunScan
<1>2. ~ report'.there
  BY <1>1 DEF NoReport
<1>3. GapsAreTold'
  BY <1>2, Zenon DEF GapsAreTold
<1>4. QED
  BY <1>1, <1>3 DEF Progress, Stage, Busy, Ended

LEMMA CancelScanProgress == ASSUME Progress, CancelScan PROVE Progress'
<1>1. cancelled' = TRUE /\ UNCHANGED <<stage, outcomes, at, report, found, gaps, child>>
  BY DEF CancelScan, program, probing
<1>2. Busy' => Busy /\ (stage' # "probes" => at <= Len(Probes))
  BY <1>1 DEF Progress, Busy, Counted
<1>3. CASE Busy
  <2>1. AtItsOwn' /\ Ended'
    BY <1>1, <1>3 DEF Progress, AtItsOwn, AtPrograms, Ended
  <2>2. QED
    BY <1>1, <1>2, <2>1, ProgressStays DEF Progress
<1>4. CASE ~ Busy
  <2>1. GapsAreTold'
    BY <1>1 DEF Progress, GapsAreTold
  <2>2. QED
    BY <1>1, <1>4, <2>1 DEF Progress, Busy, Ended
<1>5. QED
  BY <1>3, <1>4

LEMMA ReportProgress == ASSUME Progress, Report PROVE Progress'
<1>1. stage = "probes" /\ at > Len(Probes) /\ stage' = "none"
      /\ report' = [there |-> TRUE, cancelled |-> cancelled, outcomes |-> outcomes]
  BY DEF Report
<1>2. Counted
  BY <1>1 DEF Progress, Busy
<1>3. Len(outcomes) = Len(Probes)
  BY <1>1, <1>2, ScanAssumption DEF Counted
<1>4. report'.cancelled = cancelled /\ report'.outcomes = outcomes
  BY <1>1
<1>5. ~ cancelled => \A i \in 1 .. Len(Probes) : Vouched(outcomes[i], Probes[i])
  BY <1>2, <1>3 DEF Counted
<1>6. GapsAreTold'
  BY <1>3, <1>4, <1>5, Zenon DEF GapsAreTold
<1>7. QED
  BY <1>1, <1>6 DEF Progress, Stage, Busy, Ended

LEMMA ProgressUnchanged ==
  ASSUME Progress,
         UNCHANGED <<outcomes, at, report, found, gaps, stage, cancelled, child>>
  PROVE  Progress'
<1>1. Busy' => Counted' /\ Open' /\ AtItsOwn'
  BY DEF Progress, Busy, Counted, Open, AtItsOwn, AtPrograms
<1>2. GapsAreTold' /\ Ended'
  BY DEF Progress, GapsAreTold, Ended
<1>3. QED
  BY <1>1, <1>2 DEF Progress

LEMMA ExplainsProgress ==
  ASSUME Progress, (\E c \in Configs : Route(c)) \/ (\E reply \in Replies : Explain(reply))
  PROVE  Progress'
<1>1. UNCHANGED <<outcomes, at, report, found, gaps, stage, cancelled, child>>
  BY DEF Route, Explain, program, probing
<1>2. QED
  BY <1>1, ProgressUnchanged

LEMMA ProgressInit == Init => Progress
<1> SUFFICES ASSUME Init PROVE Progress
  OBVIOUS
<1>1. stage = "none" /\ report = NoReport
  BY DEF Init
<1>2. ~ report.there
  BY <1>1 DEF NoReport
<1>3. GapsAreTold
  BY <1>2, Zenon DEF GapsAreTold
<1>4. QED
  BY <1>1, <1>3 DEF Progress, Stage, Busy, Ended

\* A report that was not cancelled has one outcome for every probe, and where
\* a check is reported as done with nothing found, whatever kept it from going
\* the whole way would have shown, the hidden gaps of its kind set aside: for
\* any probes, whatever fails and whatever is killed from outside
\* (scan.rs:208-300, integrity.rs:239-268, respond.rs:225-249).
THEOREM GapsTold == Spec => []GapsAreTold
<1> DEFINE W == Shape /\ Watching /\ Progress
<1>1. Init => W
  BY ShapeInit, ProgressInit
<1>2. W /\ [Next]_vars => W'
  <2> SUFFICES ASSUME Shape, Watching, Progress, [Next]_vars PROVE W'
    OBVIOUS
  <2>1. Shape' /\ Watching'
    BY WatchingKeeps
  <2>2. Child(child)
    BY DEF Shape
  <2>3. CASE UNCHANGED vars
    BY <2>1, <2>3, ProgressUnchanged DEF vars
  <2>4. CASE Scans
    BY <2>1, <2>2, <2>4, StartScanProgress, ProbeEnds, BeginProbeProgress, SpawnProgress,
       NothingToAskProgress, AnsweredProgress, SupervisorProgress, ReportProgress DEF Scans
  <2>5. CASE Programs
    BY <2>1, <2>5, ProgramsProgress
  <2>6. CASE Person
    BY <2>1, <2>6, RunScanProgress, CancelScanProgress, ExplainsProgress DEF Person
  <2>7. QED
    BY <2>3, <2>4, <2>5, <2>6 DEF Next
<1>3. W => GapsAreTold
  BY DEF Progress
<1>4. QED
  BY <1>1, <1>2, <1>3, PTL DEF Spec

-----------------------------------------------------------------------------
(* Where an explanation comes from.                                         *)

LEMMA TierFacts == DOMAIN Tier = 1 .. 3 /\ Tier[1] = "remote" /\ Tier[2] = "local" /\ Tier[3] = "cloud"
  BY DEF Tier

\* The cloud is the last tier there is: where it is taken, no nearer one was
\* selected.
LEMMA CloudIsLast ==
  ASSUME NEW c, Resolve(c).tier = "cloud"
  PROVE  /\ Attempt(c, "cloud") = "selected"
         /\ Attempt(c, "remote") # "selected" /\ Attempt(c, "local") # "selected"
<1> DEFINE chosen == {i \in DOMAIN Tier : Attempt(c, Tier[i]) = "selected"}
           last == IF chosen = {} THEN Len(Tier)
                   ELSE CHOOSE i \in chosen : \A j \in chosen : i <= j
<1>1. Resolve(c).tier = IF chosen = {} THEN None ELSE Tier[last]
  BY DEF Resolve
<1>2. chosen # {} /\ Tier[last] = "cloud"
  BY <1>1 DEF None
<1>3. chosen \subseteq 1 .. 3
  BY TierFacts
<1>4. \E i \in chosen : \A j \in chosen : i <= j
  <2>1. CASE 1 \in chosen
    BY <1>3, <2>1
  <2>2. CASE 1 \notin chosen /\ 2 \in chosen
    BY <1>3, <2>2
  <2>3. CASE 1 \notin chosen /\ 2 \notin chosen
    <3>1. 3 \in chosen /\ \A j \in chosen : j = 3
      BY <1>2, <1>3, <2>3
    <3>2. QED
      BY <3>1
  <2>4. QED
    BY <2>1, <2>2, <2>3
<1>5. last \in chosen /\ \A j \in chosen : last <= j
  BY <1>2, <1>4
<1>6. last = 3
  BY <1>2, <1>3, <1>5, TierFacts
<1>7. 3 \in chosen /\ 1 \notin chosen /\ 2 \notin chosen
  BY <1>5, <1>6
<1>8. QED
  BY <1>7, TierFacts

LEMMA UsableIsSelected ==
  ASSUME NEW c, NEW server, Usable(c, server)
  PROVE  Tried(c, server) = "selected"
  BY DEF Usable, Tried, ChooseModel, None

\* Findings leave the person's own machines only when the cloud is switched on
\* and wanted, and no nearer model that is wanted can be used, whatever the
\* settings and whatever the servers answer (router.rs:512-555).
THEOREM HomeFirst == Spec => []StaysHome
<1>1. ASSUME NEW c \in Configs, Resolve(c).tier = "cloud"
      PROVE  /\ c.cloud = "ready"
             /\ c.mode \in {"auto", "cloud"}
             /\ c.mode = "auto" => ~ Usable(c, c.remote)
             /\ c.mode = "auto" /\ c.local = "addresses" =>
                  \A i \in 1 .. 2 : ~ Usable(c, c.locals[i])
  <2>1. /\ Attempt(c, "cloud") = "selected"
        /\ Attempt(c, "remote") # "selected" /\ Attempt(c, "local") # "selected"
    BY <1>1, CloudIsLast
  <2>2. Wanted(c, "cloud") /\ TryCloud(c) = "selected"
    BY <2>1 DEF Attempt
  <2>3. c.mode \in {"auto", "cloud"} /\ c.cloud = "ready"
    <3>1. c.mode \in {"auto", "cloud"} /\ c.cloud \notin {"disabled", "no key", "other provider"}
      BY <2>2 DEF Wanted, TryCloud
    <3>2. c.cloud \in {"disabled", "no key", "other provider", "ready"}
      BY ConfigsAssumption DEF Config
    <3>3. QED
      BY <3>1, <3>2
  <2>4. ASSUME c.mode = "auto" PROVE TryRemote(c) # "selected" /\ TryLocal(c) # "selected"
    BY <2>1, <2>4 DEF Attempt, Wanted
  <2>5. ASSUME c.mode = "auto", Usable(c, c.remote) PROVE FALSE
    <3>1. c.remote \notin {"disabled", "no address"}
      BY <2>5 DEF Usable
    <3>2. QED
      BY <2>4, <2>5, <3>1, UsableIsSelected DEF TryRemote
  <2>6. ASSUME c.mode = "auto", c.local = "addresses", NEW i \in 1 .. 2, Usable(c, c.locals[i])
        PROVE  FALSE
    BY <2>4, <2>6, UsableIsSelected DEF TryLocal
  <2>7. QED
    BY <2>3, <2>5, <2>6
<1>2. Init => StaysHome
  BY DEF Init, NoRoute, StaysHome, None
<1>3. StaysHome /\ [Next]_vars => StaysHome'
  <2> SUFFICES ASSUME StaysHome, [Next]_vars PROVE StaysHome'
    OBVIOUS
  <2>1. ASSUME NEW c \in Configs, Route(c) PROVE StaysHome'
    <3>1. routing'.tier = Resolve(c).tier /\ routing'.asked = c
      BY <2>1 DEF Route
    <3>2. QED
      BY <1>1, <3>1 DEF StaysHome
  <2>2. ASSUME NEW tier, RunScan(tier) PROVE StaysHome'
    BY <2>2 DEF RunScan, NoRoute, StaysHome, None
  <2>3. CASE routing' = routing
    BY <2>3 DEF StaysHome
  <2>4. Scans => routing' = routing
    BY DEF Scans, StartScan, Skip, DroppedByCancel, BeginProbe, Read, ProbeFails, Spawn,
           NothingToAsk, Answered, ProbeReturns, Terminate, Exited, Look, LookSeesNothing,
           Report, window
  <2>5. Programs => routing' = routing
    BY DEF Programs, Works, Ends, window
  <2>6. CancelScan \/ (\E reply \in Replies : Explain(reply)) => routing' = routing
    BY DEF CancelScan, Explain
  <2>7. UNCHANGED vars => routing' = routing
    BY DEF vars
  <2>8. QED
    BY <2>1, <2>2, <2>3, <2>4, <2>5, <2>6, <2>7 DEF Next, Person
<1>4. QED
  BY <1>2, <1>3, PTL DEF Spec

-----------------------------------------------------------------------------
(* What an explanation may carry.                                           *)

\* Induction over the numbers, on the set of those a claim holds for.
LEMMA FromZeroUp ==
  ASSUME NEW S, S \subseteq Nat, 0 \in S, \A n \in S : n + 1 \in S
  PROVE  S = Nat
<1> DEFINE T == Nat \ S
<1> SUFFICES ASSUME T # {} PROVE FALSE
  OBVIOUS
<1>1. PICK n \in T : \A k \in T : ~ (<<k, n>> \in OpToRel(<, Nat))
  BY NatLessThanWellFounded, WFMin
<1>2. n \in Nat /\ n # 0 /\ n \notin S
  OBVIOUS
<1>3. n - 1 \in Nat /\ n - 1 < n
  BY <1>2
<1>4. n - 1 \in S
  BY <1>1, <1>2, <1>3 DEF OpToRel
<1>5. QED
  BY <1>2, <1>4

\* Of the entries that answer a finding there is one lookup returns: the order
\* by the number of keywords, the last of equals, always has a greatest.
LEMMA LookupHits ==
  ASSUME NEW f, Hits(Library, f) # {}
  PROVE  \E i \in Hits(Library, f) : Lookup(Library, f) = Library[i]
<1> DEFINE hits == Hits(Library, f)
           Top(k, i) == \A j \in hits : j <= k => Better(Library, i, j)
           Low(k) == \E i \in hits : i <= k
           S == {k \in Nat : Low(k) => \E i \in hits : i <= k /\ Top(k, i)}
<1>1. hits \subseteq 1 .. Len(Library) /\ Len(Library) \in Nat
  BY ExplainAssumption DEF Hits
<1>2. \A i \in hits : Cardinality(Library[i].keywords) \in Nat /\ i \in Nat /\ i >= 1
  BY <1>1, ExplainAssumption, FS_CardinalityType
<1>3. \A i, j, l \in hits :
        /\ Better(Library, i, j) \/ Better(Library, j, i)
        /\ Better(Library, i, j) /\ Better(Library, j, l) => Better(Library, i, l)
  BY <1>2 DEF Better
<1> HIDE DEF hits
<1>4. 0 \in S
  BY <1>2
<1>5. ASSUME NEW k \in S PROVE k + 1 \in S
  <2> SUFFICES ASSUME Low(k + 1) PROVE \E i \in hits : i <= k + 1 /\ Top(k + 1, i)
    OBVIOUS
  <2>1. k \in Nat /\ \A i \in hits : i <= k + 1 <=> i <= k \/ i = k + 1
    BY <1>2
  <2>2. CASE k + 1 \notin hits
    BY <2>1, <2>2
  <2>3. CASE k + 1 \in hits /\ ~ Low(k)
    BY <1>3, <2>1, <2>3
  <2>4. CASE k + 1 \in hits /\ Low(k)
    <3>1. PICK i \in hits : i <= k /\ Top(k, i)
      BY <2>4
    <3>2. CASE Better(Library, i, k + 1)
      BY <2>1, <3>1, <3>2
    <3>3. CASE Better(Library, k + 1, i)
      <4>1. Better(Library, k + 1, k + 1)
        BY <1>3, <2>4
      <4>2. Top(k + 1, k + 1)
        BY <1>3, <2>1, <2>4, <3>1, <3>3, <4>1
      <4>3. QED
        BY <2>1, <2>4, <4>2
    <3>4. QED
      BY <1>3, <2>4, <3>2, <3>3
  <2>5. QED
    BY <2>2, <2>3, <2>4
<1>6. S = Nat
  BY <1>4, <1>5, FromZeroUp
<1>7. Len(Library) \in S /\ \A i \in hits : i <= Len(Library)
  BY <1>1, <1>6
<1>8. \E i \in hits : \A j \in hits : Better(Library, i, j)
  <2>1. hits # {}
    BY DEF hits
  <2>2. QED
    BY <1>7, <2>1
<1>9. QED
  BY <1>8, Zenon DEF Lookup, hits

\* The answers are folded in one after another.
LEMMA AnswersFold ==
  ASSUME NEW its, NEW says, Len(says) \in Nat
  PROVE  FoldAnswers(its, says) =
           [n \in 0 .. Len(says) |->
              IF n = 0 THEN its ELSE FoldAnswer(FoldAnswers(its, says)[n - 1], says[n])]
<1> DEFINE Folds(f, k) ==
             f = [n \in 0 .. k |-> IF n = 0 THEN its ELSE FoldAnswer(f[n - 1], says[n])]
           S == {k \in Nat : \E f : Folds(f, k)}
<1>1. 0 \in S
  <2>1. Folds([n \in 0 .. 0 |-> its], 0)
    OBVIOUS
  <2>2. QED
    BY <2>1
<1>2. ASSUME NEW k \in S PROVE k + 1 \in S
  <2>1. PICK f : Folds(f, k)
    OBVIOUS
  <2> DEFINE g == [n \in 0 .. k + 1 |->
                     IF n = k + 1 THEN FoldAnswer(f[k], says[k + 1]) ELSE f[n]]
  <2>2. k \in Nat
    OBVIOUS
  <2>3. \A n \in 0 .. k : f[n] = IF n = 0 THEN its ELSE FoldAnswer(f[n - 1], says[n])
    BY <2>1
  <2>4. g = [n \in 0 .. k + 1 |->
               IF n = k + 1 THEN FoldAnswer(f[k], says[k + 1]) ELSE f[n]]
    OBVIOUS
  <2> HIDE DEF g
  <2>5. g[k + 1] = FoldAnswer(f[k], says[k + 1]) /\ \A n \in 0 .. k : g[n] = f[n]
    BY <2>2, <2>4
  <2>6. ASSUME NEW n \in 0 .. k + 1
        PROVE  g[n] = IF n = 0 THEN its ELSE FoldAnswer(g[n - 1], says[n])
    <3>1. CASE n = k + 1
      BY <2>2, <2>5, <3>1
    <3>2. CASE n # k + 1
      <4>1. n \in 0 .. k /\ (n # 0 => n - 1 \in 0 .. k)
        BY <2>2, <3>2
      <4>2. QED
        BY <2>3, <2>5, <4>1
    <3>3. QED
      BY <3>1, <3>2
  <2>7. Folds(g, k + 1)
    BY <2>4, <2>6
  <2> HIDE DEF Folds
  <2>8. QED
    BY <2>2, <2>7
<1>3. S = Nat
  BY <1>1, <1>2, FromZeroUp
<1>4. \E f : Folds(f, Len(says))
  BY <1>3
<1>5. FoldAnswers(its, says) = CHOOSE f : Folds(f, Len(says))
  BY DEF FoldAnswers
<1>6. QED
  BY <1>4, <1>5

\* What may be said of one finding.
Reviewed(item, f) ==
  /\ \E S : item \in [id : S, subject : S, source : S, entry : S, action : S]
  /\ item.id = f.id /\ item.subject = f.subject
  /\ item.source = "runbook" <=> Hits(Library, f) # {}
  /\ item.action # None => \E i \in Hits(Library, f) : Library[i].action = item.action

AllReviewed(its, fs) ==
  /\ its = [i \in DOMAIN its |-> its[i]] /\ DOMAIN its = DOMAIN fs
  /\ \A i \in DOMAIN fs : Reviewed(its[i], fs[i])

LEMMA RunbookIsReviewed ==
  ASSUME NEW f PROVE Reviewed(FromRunbook(Library, f), f)
<1> DEFINE item == FromRunbook(Library, f)
           S == {item.id, item.subject, item.source, item.entry, item.action}
           known == Hits(Library, f) # {}
<1>1. item = [id |-> f.id, subject |-> f.subject,
              source |-> IF known THEN "runbook" ELSE "unexplained",
              entry |-> IF known THEN Lookup(Library, f).id ELSE None,
              action |-> IF known THEN Lookup(Library, f).action ELSE None]
  BY DEF FromRunbook
<1> HIDE DEF item, known
<1>2. /\ item.id = f.id /\ item.subject = f.subject
      /\ item.source = (IF known THEN "runbook" ELSE "unexplained")
      /\ item.action = (IF known THEN Lookup(Library, f).action ELSE None)
  BY <1>1
<1>3. item \in [id : S, subject : S, source : S, entry : S, action : S]
  BY <1>1
<1>4. item.source = "runbook" <=> known
  BY <1>2
<1>5. item.action # None => \E i \in Hits(Library, f) : Library[i].action = item.action
  BY <1>2, LookupHits DEF known
<1>6. QED
  BY <1>2, <1>3, <1>4, <1>5 DEF Reviewed, item, known

\* An answer of the model's changes neither who is answered about nor what a
\* runbook answers, and brings no action with it.
LEMMA AnswerKeepsReviewed ==
  ASSUME NEW its, NEW fs, NEW answer, AllReviewed(its, fs)
  PROVE  AllReviewed(FoldAnswer(its, answer), fs)
<1> DEFINE after == FoldAnswer(its, answer)
<1>1. /\ after = [i \in DOMAIN its |-> after[i]]
      /\ \A i \in DOMAIN its :
           \/ after[i] = its[i]
           \/ /\ its[i].source # "runbook"
              /\ after[i] = [its[i] EXCEPT !.source = "model", !.action = None]
  BY DEF FoldAnswer
<1>2. DOMAIN after = DOMAIN fs /\ DOMAIN its = DOMAIN fs
  BY <1>1 DEF AllReviewed
<1> HIDE DEF after
<1>3. ASSUME NEW i \in DOMAIN fs PROVE Reviewed(after[i], fs[i])
  <2>1. Reviewed(its[i], fs[i])
    BY DEF AllReviewed
  <2>2. CASE after[i] = its[i]
    BY <2>1, <2>2
  <2>3. CASE /\ its[i].source # "runbook"
             /\ after[i] = [its[i] EXCEPT !.source = "model", !.action = None]
    <3>1. PICK S : its[i] \in [id : S, subject : S, source : S, entry : S, action : S]
      BY <2>1 DEF Reviewed
    <3>2. /\ after[i] \in [id : S \cup {"model", None}, subject : S \cup {"model", None},
                           source : S \cup {"model", None}, entry : S \cup {"model", None},
                           action : S \cup {"model", None}]
          /\ after[i].id = its[i].id /\ after[i].subject = its[i].subject
          /\ after[i].source = "model" /\ after[i].action = None
      BY <2>3, <3>1
    <3>3. \E T : after[i] \in [id : T, subject : T, source : T, entry : T, action : T]
      BY <3>2
    <3>4. QED
      BY <2>1, <2>3, <3>2, <3>3 DEF Reviewed
  <2>4. QED
    BY <1>1, <1>2, <2>2, <2>3
<1>4. QED
  BY <1>1, <1>2, <1>3 DEF AllReviewed, after

LEMMA AnalysisIsReviewed ==
  ASSUME NEW fs, NEW route, NEW reply, Len(reply.says) \in Nat
  PROVE  AllReviewed(Analyse(Library, fs, route, reply), fs)
<1> DEFINE its == [i \in DOMAIN fs |-> FromRunbook(Library, fs[i])]
           after == FoldAnswers(its, reply.says)
           S == {n \in Nat : n <= Len(reply.says) => AllReviewed(after[n], fs)}
<1>1. AllReviewed(its, fs)
  BY RunbookIsReviewed DEF AllReviewed
<1> HIDE DEF its
<1>2. /\ after[0] = its
      /\ \A n \in 1 .. Len(reply.says) : after[n] = FoldAnswer(after[n - 1], reply.says[n])
  <2>1. after = [n \in 0 .. Len(reply.says) |->
                   IF n = 0 THEN its ELSE FoldAnswer(after[n - 1], reply.says[n])]
    BY AnswersFold
  <2> HIDE DEF after
  <2>2. QED
    BY <2>1
<1> HIDE DEF after
<1>3. 0 \in S
  BY <1>1, <1>2
<1>4. ASSUME NEW n \in S PROVE n + 1 \in S
  <2> SUFFICES ASSUME n + 1 <= Len(reply.says) PROVE AllReviewed(after[n + 1], fs)
    OBVIOUS
  <2>1. n \in Nat /\ n + 1 \in 1 .. Len(reply.says) /\ (n + 1) - 1 = n
    OBVIOUS
  <2>2. AllReviewed(after[n], fs)
    BY <2>1
  <2>3. after[n + 1] = FoldAnswer(after[n], reply.says[n + 1])
    BY <1>2, <2>1
  <2>4. QED
    BY <2>2, <2>3, AnswerKeepsReviewed
<1>5. AllReviewed(after[Len(reply.says)], fs)
  <2>1. S = Nat
    BY <1>3, <1>4, FromZeroUp
  <2>2. Len(reply.says) \in S /\ Len(reply.says) <= Len(reply.says)
    BY <2>1
  <2>3. QED
    BY <2>2
<1>6. QED
  BY <1>1, <1>5 DEF Analyse, its, after

\* A scan that is under way has been reported nowhere and explained nowhere.
Afresh == stage # "none" => items = <<>> /\ ~ report.there

\* An explanation has one item for every finding; what a runbook answers stays
\* the runbook's, and nothing else carries an action, for any runbooks, any
\* findings and whatever a model replies (analysis.rs:238-435).
THEOREM Reviewing == Spec => []ActionsAreReviewed
<1> DEFINE W == Afresh /\ ActionsAreReviewed
<1>1. Init => W
  BY DEF Init, Afresh, ActionsAreReviewed
<1>2. W /\ [Next]_vars => W'
  <2> SUFFICES ASSUME Afresh, ActionsAreReviewed, [Next]_vars
               PROVE  Afresh' /\ ActionsAreReviewed'
    OBVIOUS
  <2>1. CASE UNCHANGED <<items, report>> /\ (stage' # "none" => stage # "none")
    BY <2>1 DEF Afresh, ActionsAreReviewed
  <2>2. ASSUME NEW tier, RunScan(tier) PROVE Afresh' /\ ActionsAreReviewed'
    BY <2>2 DEF RunScan, NoReport, Afresh, ActionsAreReviewed
  <2>3. CASE Report
    BY <2>3 DEF Report, Afresh, ActionsAreReviewed
  <2>4. ASSUME NEW reply \in Replies, Explain(reply) PROVE Afresh' /\ ActionsAreReviewed'
    <3> DEFINE fs == Findings(report.outcomes)
    <3>1. items' = Analyse(Library, fs, routing, reply) /\ report' = report
          /\ stage' = stage /\ stage = "none"
      BY <2>4 DEF Explain, Afresh
    <3>2. AllReviewed(items', fs)
      BY <3>1, ExplainAssumption, AnalysisIsReviewed
    <3>3. \A f : (Hits(Library, f) # {}) = (\E e \in ToSet(Library) : Matches(e, f))
      BY DEF Hits, ToSet
    <3>4. \A f, act : (\E i \in Hits(Library, f) : Library[i].action = act)
                        => \E e \in ToSet(Library) : Matches(e, f) /\ e.action = act
      BY DEF Hits, ToSet
    <3> HIDE DEF fs
    <3>5. \A i \in DOMAIN fs :
            /\ items'[i].id = fs[i].id /\ items'[i].subject = fs[i].subject
            /\ (items'[i].source = "runbook") = (\E e \in ToSet(Library) : Matches(e, fs[i]))
            /\ items'[i].action # None =>
                 \E e \in ToSet(Library) : Matches(e, fs[i]) /\ e.action = items'[i].action
      <4> SUFFICES ASSUME NEW i \in DOMAIN fs PROVE
            /\ items'[i].id = fs[i].id /\ items'[i].subject = fs[i].subject
            /\ (items'[i].source = "runbook") = (\E e \in ToSet(Library) : Matches(e, fs[i]))
            /\ items'[i].action # None =>
                 \E e \in ToSet(Library) : Matches(e, fs[i]) /\ e.action = items'[i].action
        OBVIOUS
      <4>1. Reviewed(items'[i], fs[i])
        BY <3>2 DEF AllReviewed
      <4>2. (Hits(Library, fs[i]) # {}) = (\E e \in ToSet(Library) : Matches(e, fs[i]))
        BY <3>3
      <4>3. items'[i].source = "runbook" <=> Hits(Library, fs[i]) # {}
        BY <4>1 DEF Reviewed
      <4>4. (items'[i].source = "runbook") = (\E e \in ToSet(Library) : Matches(e, fs[i]))
        BY <4>2, <4>3, Zenon
      <4>5. /\ items'[i].id = fs[i].id /\ items'[i].subject = fs[i].subject
            /\ items'[i].action # None =>
                 \E j \in Hits(Library, fs[i]) : Library[j].action = items'[i].action
        BY <4>1, Zenon DEF Reviewed
      <4>6. items'[i].action # None =>
              \E e \in ToSet(Library) : Matches(e, fs[i]) /\ e.action = items'[i].action
        BY <3>4, <4>5, Zenon
      <4>7. QED
        BY <4>4, <4>5, <4>6, Zenon
    <3>6. DOMAIN items' = DOMAIN fs
      BY <3>2 DEF AllReviewed
    <3>7. ActionsAreReviewed'
      BY <3>1, <3>5, <3>6, Zenon DEF ActionsAreReviewed, fs
    <3>8. QED
      BY <3>1, <3>7 DEF Afresh
  <2>5. ASSUME Scans, ~ Report
        PROVE  UNCHANGED <<items, report>> /\ (stage' # "none" => stage # "none")
    BY <2>5 DEF Scans, StartScan, Skip, DroppedByCancel, BeginProbe, Read, ProbeFails, Spawn,
           NothingToAsk, Answered, ProbeReturns, Terminate, Exited, Look, LookSeesNothing,
           window
  <2>6. Programs => UNCHANGED <<items, report, stage>>
    BY DEF Programs, Works, Ends, window
  <2>7. CancelScan \/ (\E c \in Configs : Route(c)) => UNCHANGED <<items, report, stage>>
    BY DEF CancelScan, Route
  <2>8. UNCHANGED vars => UNCHANGED <<items, report, stage>>
    BY DEF vars
  <2>9. QED
    BY <2>1, <2>2, <2>3, <2>4, <2>5, <2>6, <2>7, <2>8 DEF Next, Person
<1>3. QED
  BY <1>1, <1>2, PTL DEF Spec
=============================================================================
