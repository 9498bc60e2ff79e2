-------------------------- MODULE FixEngineProofs --------------------------
(***************************************************************************)
(* What holds of the fix-attempt loop for every queue, every set of        *)
(* candidates, any number of processes and any combination of faults; and, *)
(* in the second half, of the checks that fill the queue and the verifiers  *)
(* that test what the loop did, for every machine they may be shown.       *)
(***************************************************************************)
EXTENDS FixEngine, Checks, FiniteSetTheorems, WellFoundedInduction, TLAPS

-----------------------------------------------------------------------------
(* Type correctness.                                                        *)

\* A runner past an item holds one, and past a candidate holds that too.
GoodRun(x) ==
  /\ x \in Run
  /\ x.pc \notin {"idle", "items"} => x.item \in Item
  /\ x.pc \notin {"idle", "items", "loop"} => x.action \in Action

WellTyped == TypeOK /\ \A r \in Runner : GoodRun(run[r])

LEMMA IdleRunType == GoodRun(IdleRun)
BY DEF GoodRun, IdleRun, Run, Stage

LEMMA InitType == Init => WellTyped
BY ConstantsAssumption, IdleRunType
DEF Init, WellTyped, TypeOK, ItemState, GoodRun

\* What a plan and the store's answers are made of.
LEMMA PlanType ==
  ASSUME NEW i \in Item
  PROVE  Plan(i) \subseteq Action /\ KnownGood(i) \subseteq Action
BY ConstantsAssumption DEF Plan, KnownGood

\* A step of one runner leaves the others as they are.
LEMMA BecomesGood ==
  ASSUME WellTyped, NEW r \in Runner, NEW x, GoodRun(x), Becomes(r, x)
  PROVE  /\ run' \in [Runner -> Run]
         /\ \A s \in Runner : GoodRun(run'[s])
         /\ run'[r] = x
         /\ \A s \in Runner \ {r} : run'[s] = run[s]
BY DEF WellTyped, TypeOK, Becomes, GoodRun

\* Where a runner goes in one step of its own, from a well-typed state.
LEMMA RunnerStepType ==
  ASSUME WellTyped, NEW r \in Runner,
         EngineStep(r) \/ PersonStep(r) \/ Crash(r)
  PROVE  \E x : GoodRun(x) /\ Becomes(r, x)
<1> DEFINE y == run[r]
<1>0. y \in Run /\ GoodRun(y)
  BY DEF WellTyped, TypeOK
<1>1. ASSUME NEW i \in Item, NextItem(r, i) \/ NoCandidates(r, i)
      PROVE  \E x : GoodRun(x) /\ Becomes(r, x)
  <2>1. CASE NextItem(r, i)
    <3>1. GoodRun([y EXCEPT !.pc = "loop", !.items = @ \ {i},
                        !.item = i,
                        !.plan = Plan(i), !.proven = KnownGood(i),
                        !.attempted = 0, !.advised = FALSE])
      BY <1>0, PlanType DEF GoodRun, Run, Stage
    <3> QED
      BY <2>1, <3>1 DEF NextItem
  <2>2. CASE NoCandidates(r, i)
    <3>1. GoodRun([y EXCEPT !.items = @ \ {i}])
      BY <1>0 DEF GoodRun, Run, Stage
    <3> QED
      BY <2>2, <3>1 DEF NoCandidates
  <2> QED
    BY <1>1, <2>1, <2>2
<1>2. ASSUME NEW a \in Action, Refuse(r, a) \/ Advise(r, a) \/ Ask(r, a)
      PROVE  \E x : GoodRun(x) /\ Becomes(r, x)
  <2>0. y.pc = "loop"
    BY <1>2 DEF Refuse, Advise, Ask, AtCandidate
  <2>1. GoodRun([y EXCEPT !.plan = @ \ {a}])
    BY <1>0 DEF GoodRun, Run
  <2>2. GoodRun([y EXCEPT !.plan = @ \ {a}, !.advised = TRUE])
    BY <1>0 DEF GoodRun, Run
  <2>3. GoodRun([y EXCEPT !.pc = "asking", !.action = a])
    BY <1>0, <2>0 DEF GoodRun, Run, Stage
  <2> QED
    BY <1>2, <2>1, <2>2, <2>3 DEF Refuse, Advise, Ask
\* Every way a run ends.
<1>3. CASE \/ EndRun(r) \/ StopAtLoop(r) \/ ParkSeesCancel(r) \/ PersonStops(r)
           \/ CannotMakeSnapshot(r) \/ CannotRollBack(r) \/ Crash(r)
  BY <1>3, IdleRunType
  DEF EndRun, StopAtLoop, ParkSeesCancel, PersonStops, Stopped,
      CannotMakeSnapshot, CannotRollBack, Crash
\* Every way a candidate is done with and the loop goes on.
<1>4. CASE \/ DryRunDeclines(r) \/ PersonDeclines(r)
           \/ LogFailed(r) \/ LogRollBack(r)
  <2>0. y.pc \in {"asking", "log failed", "log rollback"}
    BY <1>4 DEF DryRunDeclines, PersonDeclines, Declined, LogFailed, LogRollBack
  <2>1. GoodRun([y EXCEPT !.pc = "loop", !.plan = @ \ {y.action}])
    BY <1>0, <2>0 DEF GoodRun, Run, Stage
  <2> QED
    BY <1>4, <2>1
    DEF DryRunDeclines, PersonDeclines, Declined, LogFailed, LogRollBack
<1>5. CASE Capture(r)
  <2>0. (IF Removes(r) THEN file[Target(r)] ELSE Absent) \in Content \cup {Absent}
    <3>1. y.action \in Action
      BY <1>0, <1>5 DEF Capture, GoodRun
    <3> QED
      BY <3>1, ConstantsAssumption DEF Target, WellTyped, TypeOK
  <2>1. ASSUME NEW c \in Content \cup {Absent}
        PROVE  GoodRun([y EXCEPT !.pc = "captured", !.saved = c])
    BY <1>0, <1>5 DEF Capture, GoodRun, Run, Stage
  <2> QED
    BY <1>5, <2>0, <2>1 DEF Capture
<1>6. CASE PersonApproves(r)
  <2>0. y.attempted + 1 \in Nat
    BY <1>0 DEF Run
  <2>1. ASSUME NEW n \in Nat
        PROVE  GoodRun([y EXCEPT !.pc = "approved", !.attempted = n])
    BY <1>0, <1>6 DEF PersonApproves, GoodRun, Run, Stage
  <2> QED
    BY <1>6, <2>0, <2>1 DEF PersonApproves
\* The steps that only move on inside one change, or end the item.
<1>7. CASE \/ CannotCapture(r) \/ Change(r) \/ CannotChange(r) \/ UndoFailed(r)
           \/ VerdictFixed(r) \/ LogSuccess(r) \/ MarkResolved(r)
           \/ VerdictNotFixed(r) \/ RollBack(r)
           \/ LeaveToPerson(r) \/ MarkExhausted(r)
  <2>1. ASSUME NEW pc \in Stage,
               \/ pc = "items"
               \/ y.pc \notin {"idle", "items", "loop"}
        PROVE  GoodRun([y EXCEPT !.pc = pc])
    BY <1>0, <2>1 DEF GoodRun, Run
  <2>2. \E pc \in Stage : /\ pc = "items" \/ y.pc \notin {"idle", "items", "loop"}
                          /\ Step(r, pc)
    BY <1>7
    DEF Stage, CannotCapture, Change, CannotChange, UndoFailed,
        VerdictFixed, LogSuccess, MarkResolved, VerdictNotFixed, RollBack,
        LeaveToPerson, MarkExhausted
  <2> QED
    BY <2>1, <2>2 DEF Step
<1>8. ASSUME NEW apply \in BOOLEAN, StartRun(r, apply)
      PROVE  \E x : GoodRun(x) /\ Becomes(r, x)
  <2>1. GoodRun([IdleRun EXCEPT !.pc = "items", !.apply = apply,
                                !.items = Pending])
    BY IdleRunType DEF GoodRun, Run, Stage, Pending
  <2> QED
    BY <1>8, <2>1 DEF StartRun
<1>9. CASE Cancel(r)
  <2>1. GoodRun([y EXCEPT !.cancelled = TRUE])
    BY <1>0 DEF GoodRun, Run
  <2> QED
    BY <1>9, <2>1 DEF Cancel
<1> QED
  BY <1>1, <1>2, <1>3, <1>4, <1>5, <1>6, <1>7, <1>8, <1>9
  DEF EngineStep, PersonStep

\* The tables, the files and the history stay well typed.
LEMMA StoreStepType ==
  ASSUME WellTyped, NEW r \in Runner,
         EngineStep(r) \/ PersonStep(r) \/ Crash(r)
  PROVE  /\ queue' \in [Item -> ItemState]
         /\ attempts' \subseteq Attempt
         /\ file' \in [Path -> Content \cup {Absent}]
         /\ backup' \subseteq Backup
         /\ consented' \subseteq Item \X Action
         /\ touched' \subseteq Item \X Action
         /\ removed' \subseteq Path \X Content
<1> DEFINE y == run[r]
<1>0. GoodRun(y) /\ y \in Run
  BY DEF WellTyped, TypeOK
<1> USE DEF store, disk, history
<1>1. CASE UNCHANGED <<store, disk, history>>
  BY <1>1 DEF WellTyped, TypeOK
<1>2. ASSUME NEW a \in Action, Refuse(r, a) \/ Advise(r, a)
      PROVE  attempts' \subseteq Attempt /\ UNCHANGED <<queue, disk, history>>
  <2>1. y.item \in Item
    BY <1>0, <1>2 DEF Refuse, Advise, AtCandidate, GoodRun
  <2> QED
    BY <1>2, <2>1 DEF Refuse, Advise, Attempt, Outcome, WellTyped, TypeOK
<1>3. ASSUME \/ DryRunDeclines(r) \/ PersonDeclines(r) \/ LogFailed(r)
             \/ LogSuccess(r) \/ LogRollBack(r)
      PROVE  attempts' \subseteq Attempt /\ UNCHANGED <<queue, disk, history>>
  <2>1. y.item \in Item /\ y.action \in Action
    BY <1>0, <1>3
    DEF DryRunDeclines, PersonDeclines, Declined, LogFailed, LogSuccess,
        LogRollBack, GoodRun
  <2>2. /\ \E o \in Outcome : Record(r, o)
        /\ UNCHANGED <<queue, disk, history>>
    BY <1>3
    DEF DryRunDeclines, PersonDeclines, Declined, LogFailed, LogSuccess,
        LogRollBack, Outcome
  <2>3. ASSUME NEW o \in Outcome
        PROVE  [item |-> y.item, action |-> y.action, outcome |-> o] \in Attempt
    BY <2>1 DEF Attempt
  <2> QED
    BY <2>2, <2>3 DEF Record, WellTyped, TypeOK
<1>4. ASSUME MarkResolved(r) \/ MarkExhausted(r)
      PROVE  /\ queue' \in [Item -> ItemState]
             /\ UNCHANGED <<attempts, disk, history>>
  BY <1>4 DEF MarkResolved, MarkExhausted, ItemState, WellTyped, TypeOK
<1>5. ASSUME PersonApproves(r)
      PROVE  /\ consented' \subseteq Item \X Action
             /\ UNCHANGED <<store, disk, touched, removed>>
  <2>1. y.item \in Item /\ y.action \in Action
    BY <1>0, <1>5 DEF PersonApproves, GoodRun
  <2> QED
    BY <1>5, <2>1 DEF PersonApproves, WellTyped, TypeOK
<1>6. ASSUME y.action \in Action
      PROVE  Target(r) \in Path /\ Taken(Target(r)) \subseteq Path \X Content
  <2>1. Target(r) \in Path
    BY <1>6, ConstantsAssumption DEF Target
  <2> QED
    BY <2>1 DEF Taken, WellTyped, TypeOK
<1>7. ASSUME Capture(r)
      PROVE  backup' \subseteq Backup /\ UNCHANGED <<store, file, history>>
  <2>1. y.item \in Item /\ y.action \in Action /\ y.attempted \in Nat
    BY <1>0, <1>7 DEF Capture, GoodRun, Run
  <2>2. Target(r) \in Path
    BY <1>6, <2>1
  <2>3. ASSUME NEW c \in Content
        PROVE  [item |-> y.item, number |-> y.attempted,
                path |-> Target(r), content |-> c] \in Backup
    BY <2>1, <2>2 DEF Backup
  <2> DEFINE now == IF Removes(r) THEN file[Target(r)] ELSE Absent
  <2>4. now \in Content \cup {Absent}
    BY <2>2 DEF WellTyped, TypeOK
  <2>5. backup' = IF now = Absent THEN backup
                  ELSE (backup \ Kept(r)) \cup
                         {[item |-> y.item, number |-> y.attempted,
                           path |-> Target(r), content |-> now]}
    BY <1>7 DEF Capture
  <2> HIDE DEF now
  <2> QED
    BY <1>7, <2>3, <2>4, <2>5 DEF Capture, WellTyped, TypeOK
<1>8. ASSUME PutBack(r), y.action \in Action
      PROVE  /\ file' \in [Path -> Content \cup {Absent}]
             /\ removed' \subseteq Path \X Content
  <2>1. \A b \in Kept(r) : b.content \in Content
    BY DEF Kept, WellTyped, TypeOK, Backup
  <2> QED
    BY <1>6, <1>8, <2>1 DEF PutBack, WellTyped, TypeOK
<1>9. ASSUME Change(r) \/ CannotChange(r)
      PROVE  /\ file' \in [Path -> Content \cup {Absent}]
             /\ removed' \subseteq Path \X Content
             /\ touched' \subseteq Item \X Action
             /\ UNCHANGED <<store, backup, consented>>
  <2>1. y.item \in Item /\ y.action \in Action
    BY <1>0, <1>9 DEF Change, CannotChange, GoodRun
  <2>2. Touch(r) => touched' \subseteq Item \X Action
    BY <2>1 DEF Touch, WellTyped, TypeOK
  <2> QED
    BY <1>6, <1>9, <2>1, <2>2 DEF Change, CannotChange, WellTyped, TypeOK
<1>10. ASSUME UndoFailed(r) \/ RollBack(r)
       PROVE  /\ file' \in [Path -> Content \cup {Absent}]
              /\ removed' \subseteq Path \X Content
              /\ UNCHANGED <<store, backup, consented, touched>>
  <2>1. y.action \in Action
    BY <1>0, <1>10 DEF UndoFailed, RollBack, GoodRun
  <2> QED
    BY <1>8, <1>10, <2>1 DEF UndoFailed, RollBack, WellTyped, TypeOK
<1>11. ASSUME PersonStep(r), ~PersonApproves(r), ~PersonDeclines(r)
       PROVE  UNCHANGED <<store, disk, history>>
  BY <1>11 DEF PersonStep, StartRun, PersonStops, Stopped, Cancel
<1> QED
  <2>1. CASE PersonStep(r)
    BY <2>1, <1>1, <1>3, <1>5, <1>11 DEF WellTyped, TypeOK
  <2>2. CASE Crash(r)
    BY <2>2, <1>1 DEF Crash
  <2>3. CASE EngineStep(r)
    <3>1. ASSUME ~(UNCHANGED <<store, disk, history>>)
          PROVE  \/ \E a \in Action : Refuse(r, a) \/ Advise(r, a)
                 \/ DryRunDeclines(r) \/ LogFailed(r) \/ LogSuccess(r)
                 \/ LogRollBack(r) \/ MarkResolved(r) \/ MarkExhausted(r)
                 \/ Capture(r) \/ Change(r) \/ CannotChange(r)
                 \/ UndoFailed(r) \/ RollBack(r)
      BY <2>3, <3>1
      DEF EngineStep, NextItem, NoCandidates, Ask, EndRun, StopAtLoop,
          ParkSeesCancel, Stopped, CannotMakeSnapshot, CannotCapture,
          VerdictFixed, VerdictNotFixed, CannotRollBack, LeaveToPerson
    <3> QED
      BY <3>1, <1>1, <1>2, <1>3, <1>4, <1>7, <1>9, <1>10
      DEF WellTyped, TypeOK
  <2> QED
    BY <2>1, <2>2, <2>3

LEMMA NextType == WellTyped /\ [Next]_vars => WellTyped'
<1> SUFFICES ASSUME WellTyped, [Next]_vars PROVE WellTyped'
  OBVIOUS
<1>1. ASSUME NEW r \in Runner, EngineStep(r) \/ PersonStep(r) \/ Crash(r)
      PROVE  WellTyped'
  <2>1. PICK x : GoodRun(x) /\ Becomes(r, x)
    BY <1>1, RunnerStepType
  <2> QED
    BY <1>1, <2>1, BecomesGood, StoreStepType DEF WellTyped, TypeOK
<1>2. ASSUME NEW i \in Item, ScanFinds(i)
      PROVE  WellTyped'
  BY <1>2
  DEF ScanFinds, WellTyped, TypeOK, ItemState, disk, history
<1>3. ASSUME NEW p \in Path, NEW c \in Content, WorldWrites(p, c)
      PROVE  WellTyped'
  BY <1>3 DEF WorldWrites, WellTyped, TypeOK, store, history
<1>4. CASE UNCHANGED vars
  BY <1>4 DEF vars, WellTyped, TypeOK
<1> QED
  BY <1>1, <1>2, <1>3, <1>4 DEF Next

\* The queue, the record, the files, the backups and every runner's memory
\* keep their types through every step of FixEngine::work_item.
THEOREM TypeCorrect == Spec => []TypeOK
<1>1. WellTyped => TypeOK
  BY DEF WellTyped
<1> QED
  BY InitType, NextType, <1>1, PTL DEF Spec

-----------------------------------------------------------------------------
(* What one step of a runner can do to its own place in the program.        *)

\* From the approval to the last record of a change.
Changing == {"approved", "captured", "applied", "undo", "log failed",
             "log success", "resolve", "rollback", "log rollback"}

LEMMA Memory ==
  ASSUME WellTyped, NEW r \in Runner, NEW x, Becomes(r, x)
  PROVE  run'[r] = x /\ \A s \in Runner \ {r} : run'[s] = run[s]
BY DEF WellTyped, TypeOK, Becomes

\* A runner in the middle of a change was there before, with the same change
\* in hand, or has just been given permission for it.
LEMMA ChangeInHand ==
  ASSUME WellTyped, NEW r \in Runner,
         EngineStep(r) \/ PersonStep(r) \/ Crash(r),
         run'[r].pc \in Changing
  PROVE  /\ run'[r].item = run[r].item /\ run'[r].action = run[r].action
         /\ run[r].pc \in Changing \/ PersonApproves(r)
         /\ run'[r].pc = "resolve" => run[r].pc = "resolve" \/ LogSuccess(r)
<1> DEFINE y == run[r]
<1>0. y \in Run /\ run \in [Runner -> Run]
  BY DEF WellTyped, TypeOK
<1>1. ~Becomes(r, IdleRun)
  <2>1. Becomes(r, IdleRun) => run'[r] = IdleRun
    BY Memory
  <2>2. IdleRun.pc \notin Changing
    BY DEF IdleRun, Changing
  <2> QED
    BY <2>1, <2>2
<1>2. ASSUME NEW pc \in Stage, Step(r, pc)
      PROVE  run'[r].pc = pc /\ run'[r].item = y.item /\ run'[r].action = y.action
  BY <1>0, <1>2 DEF Becomes, Step, Run
<1>3. ASSUME NEW i \in Item, NextItem(r, i) \/ NoCandidates(r, i)
      PROVE  FALSE
  <2>1. NextItem(r, i) => run'[r].pc = "loop"
    BY <1>0 DEF Becomes, NextItem, Run
  <2>2. NoCandidates(r, i) => run'[r].pc = "items"
    BY <1>0 DEF Becomes, NoCandidates, Run
  <2> QED
    BY <1>3, <2>1, <2>2 DEF Changing
<1>4. ASSUME NEW a \in Action, Refuse(r, a) \/ Advise(r, a) \/ Ask(r, a)
      PROVE  FALSE
  <2>1. run'[r].pc \in {"loop", "asking"}
    BY <1>0, <1>4 DEF Becomes, Refuse, Advise, Ask, AtCandidate, Run
  <2> QED
    BY <2>1 DEF Changing
<1>5. ASSUME \/ DryRunDeclines(r) \/ PersonDeclines(r)
             \/ LogFailed(r) \/ LogRollBack(r)
      PROVE  FALSE
  <2>1. run'[r].pc = "loop"
    BY <1>0, <1>5
    DEF Becomes, DryRunDeclines, PersonDeclines, Declined, LogFailed, LogRollBack, Run
  <2> QED
    BY <2>1 DEF Changing
<1>6. ASSUME NEW apply \in BOOLEAN, StartRun(r, apply)
      PROVE  FALSE
  <2>1. run'[r].pc = "items"
    BY <1>0, <1>6 DEF Becomes, StartRun, IdleRun
  <2> QED
    BY <2>1 DEF Changing
<1>7. ~(\/ EndRun(r) \/ StopAtLoop(r) \/ ParkSeesCancel(r) \/ PersonStops(r)
        \/ CannotMakeSnapshot(r) \/ CannotRollBack(r) \/ Crash(r))
  BY <1>1 DEF EndRun, StopAtLoop, ParkSeesCancel, PersonStops, Stopped,
              CannotMakeSnapshot, CannotRollBack, Crash
<1>8. ~(MarkResolved(r) \/ LeaveToPerson(r) \/ MarkExhausted(r))
  BY <1>2 DEF MarkResolved, LeaveToPerson, MarkExhausted, Stage, Changing
<1>9. CASE Cancel(r)
  BY <1>0, <1>9 DEF Becomes, Cancel, Run
<1>10. CASE Capture(r)
  BY <1>0, <1>10 DEF Becomes, Capture, Run, Changing
<1>11. CASE PersonApproves(r)
  BY <1>0, <1>11 DEF Becomes, PersonApproves, Run
<1>12. CASE \/ CannotCapture(r) \/ Change(r) \/ CannotChange(r)
            \/ UndoFailed(r) \/ VerdictFixed(r) \/ LogSuccess(r)
            \/ VerdictNotFixed(r) \/ RollBack(r)
  <2>1. \/ \E pc \in Stage \ {"resolve"} : Step(r, pc)
        \/ Step(r, "resolve") /\ LogSuccess(r)
    BY <1>12
    DEF CannotCapture, Change, CannotChange, UndoFailed, VerdictFixed,
        LogSuccess, VerdictNotFixed, RollBack, Stage
  <2>2. y.pc \in Changing
    BY <1>12
    DEF CannotCapture, Change, CannotChange, UndoFailed, VerdictFixed,
        LogSuccess, VerdictNotFixed, RollBack, Changing
  <2> QED
    BY <1>2, <2>1, <2>2 DEF Stage
<1> QED
  BY <1>3, <1>4, <1>5, <1>6, <1>7, <1>8, <1>9, <1>10, <1>11, <1>12
  DEF EngineStep, PersonStep

\* Nothing is ever taken off the record, and no permission is forgotten.
LEMMA RecordGrows ==
  ASSUME [Next]_vars
  PROVE  attempts \subseteq attempts' /\ consented \subseteq consented'
<1> USE DEF store, disk, history
<1>1. ASSUME NEW r \in Runner, EngineStep(r)
      PROVE  attempts \subseteq attempts' /\ consented' = consented
  BY <1>1
  DEF EngineStep, NextItem, NoCandidates, Refuse, Advise, Ask, EndRun,
      StopAtLoop, ParkSeesCancel, Stopped, CannotMakeSnapshot, CannotCapture,
      VerdictFixed, VerdictNotFixed, CannotRollBack, LeaveToPerson,
      DryRunDeclines, Declined, Capture, Change, CannotChange, UndoFailed,
      LogFailed, LogSuccess, MarkResolved, RollBack, LogRollBack,
      MarkExhausted, Record
<1>2. ASSUME NEW r \in Runner, PersonStep(r) \/ Crash(r)
      PROVE  attempts \subseteq attempts' /\ consented \subseteq consented'
  BY <1>2
  DEF PersonStep, StartRun, PersonApproves, PersonDeclines, Declined, Record,
      PersonStops, Stopped, Cancel, Crash
<1>3. ASSUME \/ \E i \in Item : ScanFinds(i)
             \/ \E p \in Path, c \in Content : WorldWrites(p, c)
             \/ UNCHANGED vars
      PROVE  UNCHANGED <<attempts, consented>>
  BY <1>3 DEF ScanFinds, WorldWrites, vars
<1> QED
  BY <1>1, <1>2, <1>3 DEF Next

\* A step of the scan, of another program, or of nobody moves no runner.
LEMMA OthersStep ==
  ASSUME [Next]_vars,
         ~(\E r \in Runner : EngineStep(r) \/ PersonStep(r) \/ Crash(r))
  PROVE  /\ UNCHANGED <<attempts, consented, touched, run>>
         /\ UNCHANGED queue \/ \E i \in Item : ScanFinds(i)
BY DEF Next, ScanFinds, WorldWrites, vars, store, history

\* Who changes a row, and what becomes of it.
LEMMA QueueStep ==
  ASSUME NEW r \in Runner, EngineStep(r) \/ PersonStep(r) \/ Crash(r)
  PROVE  UNCHANGED queue \/ MarkResolved(r) \/ MarkExhausted(r)
<1> USE DEF store, disk, history
<1>1. CASE EngineStep(r)
  BY <1>1
  DEF EngineStep, NextItem, NoCandidates, Refuse, Advise, Ask, EndRun,
      StopAtLoop, ParkSeesCancel, Stopped, CannotMakeSnapshot, CannotCapture,
      VerdictFixed, VerdictNotFixed, CannotRollBack, LeaveToPerson,
      DryRunDeclines, Declined, Capture, Change, CannotChange, UndoFailed,
      LogFailed, LogSuccess, RollBack, LogRollBack
<1>2. CASE PersonStep(r) \/ Crash(r)
  BY <1>2
  DEF PersonStep, StartRun, PersonApproves, PersonDeclines, Declined,
      PersonStops, Stopped, Cancel, Crash
<1> QED
  BY <1>1, <1>2

-----------------------------------------------------------------------------
(* Resolved means confirmed.                                                *)

Confirmed(i) == \E t \in attempts : t.item = i /\ t.outcome = "succeeded"

\* The success is on the record before the row is marked.
ResolvedInv ==
  /\ WellTyped
  /\ ResolvedMeansConfirmed
  /\ \A r \in Runner : run[r].pc = "resolve" => Confirmed(run[r].item)

LEMMA ResolvedStep == ResolvedInv /\ [Next]_vars => ResolvedInv'
<1> SUFFICES ASSUME ResolvedInv, [Next]_vars PROVE ResolvedInv'
  OBVIOUS
<1>0. WellTyped /\ WellTyped'
  BY NextType DEF ResolvedInv
<1>1. \A i \in Item : Confirmed(i) => Confirmed(i)'
  BY RecordGrows DEF Confirmed
<1>2. CASE \E r \in Runner : EngineStep(r) \/ PersonStep(r) \/ Crash(r)
  <2>1. PICK r \in Runner : EngineStep(r) \/ PersonStep(r) \/ Crash(r)
    BY <1>2
  <2>2. PICK x : GoodRun(x) /\ Becomes(r, x)
    BY <1>0, <2>1, RunnerStepType
  <2>3. \A s \in Runner \ {r} : run'[s] = run[s]
    BY <1>0, <2>2, Memory
  <2>4. \A s \in Runner : run[s].pc = "resolve" => run[s].item \in Item
    BY <1>0 DEF WellTyped, GoodRun
  <2>5. ASSUME NEW s \in Runner, run'[s].pc = "resolve"
        PROVE  Confirmed(run[s].item)' /\ run'[s].item = run[s].item
    <3>1. CASE s # r
      <4>1. run'[s] = run[s]
        BY <2>3, <3>1
      <4>2. Confirmed(run[s].item) /\ run[s].item \in Item
        BY <2>4, <2>5, <4>1 DEF ResolvedInv
      <4> QED
        BY <1>1, <4>1, <4>2 DEF Confirmed
    <3>2. CASE s = r
      <4>1. /\ run'[r].item = run[r].item
            /\ run[r].pc = "resolve" \/ LogSuccess(r)
        BY <1>0, <2>1, <2>5, <3>2, ChangeInHand DEF Changing
      <4>2. CASE run[r].pc = "resolve"
        BY <1>1, <2>4, <3>2, <4>1, <4>2 DEF ResolvedInv
      <4>3. CASE LogSuccess(r)
        <5> DEFINE t == [item |-> run[r].item, action |-> run[r].action,
                         outcome |-> "succeeded"]
        <5>1. t \in attempts'
          BY <4>3 DEF LogSuccess, Record
        <5>2. t.item = run'[r].item /\ t.outcome = "succeeded"
          BY <4>1
        <5> QED
          BY <3>2, <4>1, <5>1, <5>2 DEF Confirmed
      <4> QED
        BY <4>1, <4>2, <4>3
    <3> QED
      BY <3>1, <3>2
  <2>6. ResolvedMeansConfirmed'
    <3>1. CASE UNCHANGED queue
      BY <1>1, <3>1 DEF ResolvedInv, ResolvedMeansConfirmed, Confirmed
    <3>2. CASE MarkResolved(r)
      <4>1. /\ Confirmed(run[r].item)
            /\ \A i \in Item : queue'[i] = "resolved" =>
                 queue[i] = "resolved" \/ i = run[r].item
        BY <1>0, <3>2 DEF MarkResolved, ResolvedInv, WellTyped, TypeOK
      <4> QED
        BY <1>1, <4>1 DEF ResolvedInv, ResolvedMeansConfirmed, Confirmed
    <3>3. CASE MarkExhausted(r)
      <4>1. \A i \in Item : queue'[i] = "resolved" => queue[i] = "resolved"
        BY <1>0, <3>3 DEF MarkExhausted, WellTyped, TypeOK
      <4> QED
        BY <1>1, <4>1 DEF ResolvedInv, ResolvedMeansConfirmed, Confirmed
    <3> QED
      BY <2>1, <3>1, <3>2, <3>3, QueueStep
  <2> QED
    BY <1>0, <2>5, <2>6 DEF ResolvedInv, Confirmed
<1>3. CASE ~(\E r \in Runner : EngineStep(r) \/ PersonStep(r) \/ Crash(r))
  <2>1. UNCHANGED <<attempts, run>>
    BY <1>3, OthersStep
  <2>2. \A i \in Item : queue'[i] = "resolved" => queue[i] = "resolved"
    BY <1>0, <1>3, OthersStep DEF ScanFinds, WellTyped, TypeOK
  <2> QED
    BY <1>0, <2>1, <2>2 DEF ResolvedInv, ResolvedMeansConfirmed, Confirmed
<1> QED
  BY <1>2, <1>3

\* engine.rs writes the success before it marks the row, so a row that says
\* "resolved" has a confirmed success on the record: whatever crashes, fails,
\* or runs at the same time.
THEOREM ResolvedConfirmed == Spec => []ResolvedMeansConfirmed
<1>1. Init => ResolvedInv
  BY InitType DEF Init, ResolvedInv, ResolvedMeansConfirmed, IdleRun
<1>2. ResolvedInv => ResolvedMeansConfirmed
  BY DEF ResolvedInv
<1> QED
  BY <1>1, <1>2, ResolvedStep, PTL DEF Spec

-----------------------------------------------------------------------------
(* Permission before change.                                                *)

\* Tested, permitted, a change, and agreed to.
Cleared(i, a) == /\ <<i, a>> \in consented
                 /\ i \in Testable
                 /\ a \in Permitted
                 /\ ChangesTheSystem(a)

PermissionInv ==
  /\ WellTyped
  /\ PermissionBeforeChange
  /\ \A r \in Runner :
       /\ run[r].pc = "asking" =>
            /\ run[r].item \in Testable
            /\ run[r].action \in Permitted
            /\ ChangesTheSystem(run[r].action)
       /\ run[r].pc \in Changing => Cleared(run[r].item, run[r].action)

\* A question is only put about a change that was vetted.
LEMMA AskingStep ==
  ASSUME WellTyped, NEW r \in Runner,
         EngineStep(r) \/ PersonStep(r) \/ Crash(r),
         run'[r].pc = "asking"
  PROVE  \/ \E a \in Action : Ask(r, a) /\ run'[r].action = a
                                         /\ run'[r].item = run[r].item
         \/ /\ run[r].pc = "asking"
            /\ run'[r].item = run[r].item /\ run'[r].action = run[r].action
<1> DEFINE y == run[r]
<1>0. y \in Run /\ run \in [Runner -> Run]
  BY DEF WellTyped, TypeOK
<1>1. ~Becomes(r, IdleRun)
  <2>1. Becomes(r, IdleRun) => run'[r] = IdleRun
    BY Memory
  <2> QED
    BY <2>1 DEF IdleRun
<1>2. ASSUME NEW pc \in Stage \ {"asking"}, Step(r, pc)
      PROVE  FALSE
  BY <1>0, <1>2 DEF Becomes, Step, Run
<1>3. ASSUME NEW i \in Item, NextItem(r, i) \/ NoCandidates(r, i)
      PROVE  FALSE
  <2>1. NextItem(r, i) => run'[r].pc = "loop"
    BY <1>0 DEF Becomes, NextItem, Run
  <2>2. NoCandidates(r, i) => run'[r].pc = "items"
    BY <1>0 DEF Becomes, NoCandidates, Run
  <2> QED
    BY <1>3, <2>1, <2>2
<1>4. ASSUME NEW a \in Action, Refuse(r, a) \/ Advise(r, a)
      PROVE  FALSE
  BY <1>0, <1>4 DEF Becomes, Refuse, Advise, AtCandidate, Run
<1>5. ASSUME NEW a \in Action, Ask(r, a)
      PROVE  run'[r].action = a /\ run'[r].item = y.item
  BY <1>0, <1>5 DEF Becomes, Ask, Run
<1>6. ~(\/ DryRunDeclines(r) \/ PersonDeclines(r) \/ LogFailed(r) \/ LogRollBack(r))
  BY <1>0 DEF Becomes, DryRunDeclines, PersonDeclines, Declined, LogFailed,
              LogRollBack, Run
<1>7. ASSUME NEW apply \in BOOLEAN, StartRun(r, apply)
      PROVE  FALSE
  BY <1>0, <1>7 DEF Becomes, StartRun, IdleRun
<1>8. ~(\/ EndRun(r) \/ StopAtLoop(r) \/ ParkSeesCancel(r) \/ PersonStops(r)
        \/ CannotMakeSnapshot(r) \/ CannotRollBack(r) \/ Crash(r))
  BY <1>1 DEF EndRun, StopAtLoop, ParkSeesCancel, PersonStops, Stopped,
              CannotMakeSnapshot, CannotRollBack, Crash
<1>9. ~(\/ MarkResolved(r) \/ LeaveToPerson(r) \/ MarkExhausted(r)
        \/ CannotCapture(r) \/ Change(r) \/ CannotChange(r) \/ UndoFailed(r)
        \/ VerdictFixed(r) \/ LogSuccess(r) \/ VerdictNotFixed(r) \/ RollBack(r))
  BY <1>2
  DEF MarkResolved, LeaveToPerson, MarkExhausted, CannotCapture, Change,
      CannotChange, UndoFailed, VerdictFixed, LogSuccess, VerdictNotFixed,
      RollBack, Stage
<1>10. ~(Capture(r) \/ PersonApproves(r))
  <2>1. Capture(r) => run'[r].pc = "captured"
    BY <1>0 DEF Becomes, Capture, Run
  <2>2. PersonApproves(r) => run'[r].pc = "approved"
    BY <1>0 DEF Becomes, PersonApproves, Run
  <2> QED
    BY <2>1, <2>2
<1>11. CASE Cancel(r)
  BY <1>0, <1>11 DEF Becomes, Cancel, Run
<1> QED
  BY <1>3, <1>4, <1>5, <1>6, <1>7, <1>8, <1>9, <1>10, <1>11
  DEF EngineStep, PersonStep

\* What reaches the machine is what the runner has in hand, past the backup.
LEMMA TouchedStep ==
  ASSUME NEW r \in Runner, EngineStep(r) \/ PersonStep(r) \/ Crash(r)
  PROVE  \/ touched' = touched
         \/ /\ Change(r) \/ CannotChange(r)
            /\ run[r].pc = "captured"
            /\ touched' = touched \cup {<<run[r].item, run[r].action>>}
<1> USE DEF store, disk, history
<1>1. CASE EngineStep(r)
  BY <1>1
  DEF EngineStep, NextItem, NoCandidates, Refuse, Advise, Ask, EndRun,
      StopAtLoop, ParkSeesCancel, Stopped, CannotMakeSnapshot, CannotCapture,
      VerdictFixed, VerdictNotFixed, CannotRollBack, LeaveToPerson,
      DryRunDeclines, Declined, Capture, Change, CannotChange, UndoFailed,
      LogFailed, LogSuccess, RollBack, LogRollBack, MarkResolved,
      MarkExhausted, Touch
<1>2. CASE PersonStep(r) \/ Crash(r)
  BY <1>2
  DEF PersonStep, StartRun, PersonApproves, PersonDeclines, Declined,
      PersonStops, Stopped, Cancel, Crash
<1> QED
  BY <1>1, <1>2

LEMMA PermissionStep == PermissionInv /\ [Next]_vars => PermissionInv'
<1> SUFFICES ASSUME PermissionInv, [Next]_vars PROVE PermissionInv'
  OBVIOUS
<1>0. WellTyped /\ WellTyped'
  BY NextType DEF PermissionInv
<1>1. consented \subseteq consented'
  BY RecordGrows
<1>2. CASE \E r \in Runner : EngineStep(r) \/ PersonStep(r) \/ Crash(r)
  <2>1. PICK r \in Runner : EngineStep(r) \/ PersonStep(r) \/ Crash(r)
    BY <1>2
  <2>2. PICK x : GoodRun(x) /\ Becomes(r, x)
    BY <1>0, <2>1, RunnerStepType
  <2>3. \A s \in Runner \ {r} : run'[s] = run[s]
    BY <1>0, <2>2, Memory
  <2>4. ASSUME NEW s \in Runner, run'[s].pc = "asking"
        PROVE  /\ run'[s].item \in Testable
               /\ run'[s].action \in Permitted
               /\ ChangesTheSystem(run'[s].action)
    <3>1. CASE s # r
      BY <2>3, <2>4, <3>1 DEF PermissionInv
    <3>2. CASE s = r
      BY <1>0, <2>1, <2>4, <3>2, AskingStep
      DEF PermissionInv, Ask, Validates
    <3> QED
      BY <3>1, <3>2
  <2>5. ASSUME NEW s \in Runner, run'[s].pc \in Changing
        PROVE  Cleared(run[s].item, run[s].action)'
    <3>1. CASE s # r
      <4>1. run'[s] = run[s]
        BY <2>3, <3>1
      <4>2. Cleared(run[s].item, run[s].action)
        BY <2>5, <4>1 DEF PermissionInv
      <4> QED
        BY <4>1, <1>1, <4>2 DEF Cleared
    <3>2. CASE s = r
      <4>1. /\ run'[r].item = run[r].item /\ run'[r].action = run[r].action
            /\ run[r].pc \in Changing \/ PersonApproves(r)
        BY <1>0, <2>1, <2>5, <3>2, ChangeInHand
      <4>2. CASE run[r].pc \in Changing
        <5>1. Cleared(run[r].item, run[r].action)
          BY <4>2 DEF PermissionInv
        <5> QED
          BY <3>2, <4>1, <1>1, <5>1 DEF Cleared
      <4>3. CASE PersonApproves(r)
        <5>1. run[r].pc = "asking" /\ <<run[r].item, run[r].action>> \in consented'
          BY <4>3 DEF PersonApproves
        <5> QED
          BY <3>2, <4>1, <5>1 DEF Cleared, PermissionInv
      <4> QED
        BY <4>1, <4>2, <4>3
    <3> QED
      BY <3>1, <3>2
  <2>6. PermissionBeforeChange'
    <3> SUFFICES ASSUME NEW e \in touched'
                 PROVE  /\ e \in consented' /\ e[1] \in Testable
                        /\ e[2] \in Permitted /\ ChangesTheSystem(e[2])
      BY DEF PermissionBeforeChange
    <3>1. CASE e \in touched
      BY <1>1, <3>1 DEF PermissionInv, PermissionBeforeChange
    <3>2. CASE e \notin touched
      <4>1. run[r].pc = "captured" /\ e = <<run[r].item, run[r].action>>
        BY <2>1, <3>2, TouchedStep
      <4>2. Cleared(run[r].item, run[r].action)
        BY <4>1 DEF PermissionInv, Changing
      <4> QED
        BY <1>1, <4>1, <4>2 DEF Cleared
    <3> QED
      BY <3>1, <3>2
  <2> QED
    BY <1>0, <2>4, <2>5, <2>6 DEF PermissionInv
<1>3. CASE ~(\E r \in Runner : EngineStep(r) \/ PersonStep(r) \/ Crash(r))
  <2>1. UNCHANGED <<consented, touched, run>>
    BY <1>3, OthersStep
  <2> QED
    BY <1>0, <2>1
    DEF PermissionInv, PermissionBeforeChange, Cleared
<1> QED
  BY <1>2, <1>3

\* Nothing reaches the machine that was not validated, testable, asked about
\* and approved, for that very problem: in any number of processes at once.
THEOREM PermissionFirst == Spec => []PermissionBeforeChange
<1>1. Init => PermissionInv
  <2>1. IdleRun.pc = "idle"
    BY DEF IdleRun
  <2> QED
    BY <2>1, InitType DEF Init, PermissionInv, PermissionBeforeChange, Changing
<1>2. PermissionInv => PermissionBeforeChange
  BY DEF PermissionInv
<1> QED
  BY <1>1, <1>2, PermissionStep, PTL DEF Spec

-----------------------------------------------------------------------------
(* Every change is recorded, as long as nothing dies and every rollback     *)
(* succeeds (a rollback that fails ends the run with nothing written).    *)

Before == {"applied", "undo", "log failed", "log success", "rollback",
           "log rollback"}

\* A change in hand stays in hand until it is written down.
LEMMA InHandStep ==
  ASSUME WellTyped, NEW r \in Runner, EngineStep(r) \/ PersonStep(r),
         "restore" \notin Faults, run[r].pc \in Before
  PROVE  \/ /\ run'[r].pc \in Before
            /\ run'[r].item = run[r].item /\ run'[r].action = run[r].action
         \/ \E o \in {"succeeded", "rolled-back", "failed"} : Record(r, o)
<1> DEFINE y == run[r]
<1>0. y \in Run /\ run \in [Runner -> Run]
  BY DEF WellTyped, TypeOK
<1>1. ASSUME NEW pc \in Before, Step(r, pc)
      PROVE  run'[r].pc = pc /\ run'[r].item = y.item /\ run'[r].action = y.action
  BY <1>0, <1>1 DEF Becomes, Step, Run
<1>2. CASE LogFailed(r) \/ LogSuccess(r) \/ LogRollBack(r)
  BY <1>2 DEF LogFailed, LogSuccess, LogRollBack
<1>3. CASE UndoFailed(r) \/ VerdictFixed(r) \/ VerdictNotFixed(r) \/ RollBack(r)
  <2>1. \E pc \in Before : Step(r, pc)
    BY <1>3 DEF UndoFailed, VerdictFixed, VerdictNotFixed, RollBack, Before
  <2> QED
    BY <1>1, <2>1
<1>4. CASE Cancel(r)
  BY <1>0, <1>4 DEF Becomes, Cancel, Run
<1>5. PersonStep(r) => Cancel(r)
  BY DEF PersonStep, StartRun, PersonApproves, PersonDeclines, Declined,
         PersonStops, Stopped, Before
<1>6. EngineStep(r) => \/ LogFailed(r) \/ LogSuccess(r) \/ LogRollBack(r)
                      \/ UndoFailed(r) \/ VerdictFixed(r) \/ VerdictNotFixed(r)
                      \/ RollBack(r)
  BY DEF EngineStep, NextItem, NoCandidates, Refuse, Advise, Ask, AtCandidate,
         EndRun, StopAtLoop, DryRunDeclines, Declined, ParkSeesCancel, Stopped,
         Capture, CannotMakeSnapshot, CannotCapture, Change, CannotChange,
         MarkResolved, CannotRollBack, LeaveToPerson, MarkExhausted, Before
<1> QED
  BY <1>2, <1>3, <1>4, <1>5, <1>6

RecordedInv == WellTyped /\ EveryChangeIsRecorded

LEMMA RecordedStep ==
  ASSUME "crash" \notin Faults, "restore" \notin Faults
  PROVE  RecordedInv /\ [Next]_vars => RecordedInv'
<1> SUFFICES ASSUME RecordedInv, [Next]_vars PROVE RecordedInv'
  OBVIOUS
<1>0. WellTyped /\ WellTyped'
  BY NextType DEF RecordedInv
<1>1. \A e : Recorded(e) => Recorded(e)'
  BY RecordGrows DEF Recorded
<1>2. \A e : InHand(e) <=> \E r \in Runner : /\ run[r].pc \in Before
                                             /\ run[r].item = e[1]
                                             /\ run[r].action = e[2]
  BY DEF InHand, Before
<1>3. \A e : InHand(e)' <=> \E r \in Runner : /\ run'[r].pc \in Before
                                              /\ run'[r].item = e[1]
                                              /\ run'[r].action = e[2]
  BY DEF InHand, Before
<1>4. CASE \E r \in Runner : EngineStep(r) \/ PersonStep(r) \/ Crash(r)
  <2>1. PICK r \in Runner : EngineStep(r) \/ PersonStep(r)
    BY <1>4 DEF Crash
  <2>2. PICK x : GoodRun(x) /\ Becomes(r, x)
    BY <1>0, <2>1, RunnerStepType
  <2>3. \A s \in Runner \ {r} : run'[s] = run[s]
    BY <1>0, <2>2, Memory
  <2>4. ASSUME NEW e \in touched, InHand(e)
        PROVE  Recorded(e)' \/ InHand(e)'
    <3>1. PICK s \in Runner : /\ run[s].pc \in Before
                             /\ run[s].item = e[1] /\ run[s].action = e[2]
      BY <1>2, <2>4
    <3>2. CASE s # r
      BY <1>3, <2>3, <3>1, <3>2
    <3>3. CASE s = r
      <4>1. CASE /\ run'[r].pc \in Before
                 /\ run'[r].item = run[r].item /\ run'[r].action = run[r].action
        BY <1>3, <3>1, <3>3, <4>1
      <4>2. ASSUME NEW o \in {"succeeded", "rolled-back", "failed"}, Record(r, o)
            PROVE  Recorded(e)'
        <5> DEFINE t == [item |-> run[r].item, action |-> run[r].action,
                         outcome |-> o]
        <5>1. t \in attempts'
          BY <4>2 DEF Record
        <5>2. t.item = e[1] /\ t.action = e[2] /\ t.outcome = o
          BY <3>1, <3>3
        <5> QED
          BY <5>1, <5>2 DEF Recorded
      <4> QED
        BY <1>0, <2>1, <3>1, <3>3, <4>1, <4>2, InHandStep
    <3> QED
      BY <3>2, <3>3
  <2>5. ASSUME NEW e \in touched', e \notin touched
        PROVE  InHand(e)'
    <3>1. /\ Change(r) \/ CannotChange(r)
          /\ e = <<run[r].item, run[r].action>>
      BY <2>1, <2>5, TouchedStep
    <3>2. /\ run'[r].pc \in Before
          /\ run'[r].item = run[r].item /\ run'[r].action = run[r].action
      <4>1. run[r] \in Run /\ run \in [Runner -> Run]
        BY <1>0 DEF WellTyped, TypeOK
      <4>2. Step(r, "applied") \/ Step(r, "undo")
        BY <3>1 DEF Change, CannotChange
      <4> QED
        BY <4>1, <4>2 DEF Step, Becomes, Before, Run
    <3> QED
      BY <1>3, <3>1, <3>2
  <2> QED
    BY <1>0, <1>1, <2>4, <2>5 DEF RecordedInv, EveryChangeIsRecorded
<1>5. CASE ~(\E r \in Runner : EngineStep(r) \/ PersonStep(r) \/ Crash(r))
  <2>1. UNCHANGED <<attempts, touched, run>>
    BY <1>5, OthersStep
  <2> QED
    BY <1>0, <2>1 DEF RecordedInv, EveryChangeIsRecorded, Recorded, InHand
<1> QED
  BY <1>4, <1>5

\* Without a crash and with every rollback successful, whatever the tool did
\* to the machine is on its record as soon as it is done with it: work_item
\* leaves no change behind without an attempts row.
THEOREM ChangesRecorded ==
  ASSUME "crash" \notin Faults, "restore" \notin Faults
  PROVE  Spec => []EveryChangeIsRecorded
<1>1. Init => RecordedInv
  BY InitType DEF Init, RecordedInv, EveryChangeIsRecorded
<1>2. RecordedInv => EveryChangeIsRecorded
  BY DEF RecordedInv
<1> QED
  BY <1>1, <1>2, RecordedStep, PTL DEF Spec

-----------------------------------------------------------------------------
(* The copy a change is undone from.                                        *)

\* One process works the queue at a time: the ids of the backups are told
\* apart by the item and the number of the attempt only.
Alone == \A r, s \in Runner : r = s

\* From the copy to the end of the rollback, or of the item.
Copied == {"captured", "applied", "undo", "log success", "resolve", "rollback"}

\* What was put away is what was in the file, under the id the rollback reads.
CopyMade(r) ==
  run[r].pc \in Copied /\ Removes(r) /\ run[r].saved # Absent =>
    Kept(r) = {[item |-> run[r].item, number |-> run[r].attempted,
                path |-> Target(r), content |-> run[r].saved]}

\* What a change is undone from is fixed when the copy is made.
LEMMA CopyInHand ==
  ASSUME WellTyped, NEW r \in Runner,
         EngineStep(r) \/ PersonStep(r) \/ Crash(r),
         run'[r].pc \in Copied
  PROVE  \/ Capture(r)
         \/ /\ run[r].pc \in Copied /\ backup' = backup
            /\ run'[r].item = run[r].item /\ run'[r].action = run[r].action
            /\ run'[r].attempted = run[r].attempted
            /\ run'[r].saved = run[r].saved
<1> DEFINE y == run[r]
           Same == /\ backup' = backup
                   /\ run'[r].item = y.item /\ run'[r].action = y.action
                   /\ run'[r].attempted = y.attempted
                   /\ run'[r].saved = y.saved
<1>0. y \in Run /\ run \in [Runner -> Run]
  BY DEF WellTyped, TypeOK
<1>1. ~Becomes(r, IdleRun)
  <2>1. Becomes(r, IdleRun) => run'[r].pc = "idle"
    BY Memory DEF IdleRun
  <2> QED
    BY <2>1 DEF Copied
<1>2. ASSUME NEW pc \in Stage, Step(r, pc)
      PROVE  pc \in Copied /\ (backup' = backup => Same)
  BY <1>0, <1>2 DEF Becomes, Step, Run
<1>3. ASSUME NEW i \in Item, NextItem(r, i) \/ NoCandidates(r, i)
      PROVE  FALSE
  <2>1. NextItem(r, i) => run'[r].pc = "loop"
    BY <1>0 DEF Becomes, NextItem, Run
  <2>2. NoCandidates(r, i) => run'[r].pc = "items"
    BY <1>0 DEF Becomes, NoCandidates, Run
  <2> QED
    BY <1>3, <2>1, <2>2 DEF Copied
<1>4. ASSUME NEW a \in Action, Refuse(r, a) \/ Advise(r, a) \/ Ask(r, a)
      PROVE  FALSE
  <2>1. Refuse(r, a) \/ Advise(r, a) => run'[r].pc = "loop"
    BY <1>0 DEF Becomes, Refuse, Advise, AtCandidate, Run
  <2>2. Ask(r, a) => run'[r].pc = "asking"
    BY <1>0 DEF Becomes, Ask, Run
  <2> QED
    BY <1>4, <2>1, <2>2 DEF Copied
<1>5. ~(\/ DryRunDeclines(r) \/ PersonDeclines(r) \/ LogFailed(r) \/ LogRollBack(r))
  BY <1>0 DEF Becomes, DryRunDeclines, PersonDeclines, Declined, LogFailed,
              LogRollBack, Run, Copied
<1>6. ASSUME NEW apply \in BOOLEAN, StartRun(r, apply)
      PROVE  FALSE
  BY <1>0, <1>6 DEF Becomes, StartRun, IdleRun, Copied
<1>7. ~(\/ EndRun(r) \/ StopAtLoop(r) \/ ParkSeesCancel(r) \/ PersonStops(r)
        \/ CannotMakeSnapshot(r) \/ CannotRollBack(r) \/ Crash(r))
  BY <1>1 DEF EndRun, StopAtLoop, ParkSeesCancel, PersonStops, Stopped,
              CannotMakeSnapshot, CannotRollBack, Crash
<1>8. ~(\/ MarkResolved(r) \/ LeaveToPerson(r) \/ MarkExhausted(r)
        \/ CannotCapture(r) \/ UndoFailed(r) \/ RollBack(r))
  BY <1>2 DEF MarkResolved, LeaveToPerson, MarkExhausted, CannotCapture,
              UndoFailed, RollBack, Copied, Stage
<1>9. CASE Cancel(r)
  BY <1>0, <1>9 DEF Becomes, Cancel, Run, disk
<1>10. ~PersonApproves(r)
  BY <1>0 DEF Becomes, PersonApproves, Run, Copied
<1>11. CASE \/ Change(r) \/ CannotChange(r) \/ VerdictFixed(r)
            \/ VerdictNotFixed(r) \/ LogSuccess(r)
  <2>1. y.pc \in Copied /\ backup' = backup /\ \E pc \in Stage : Step(r, pc)
    BY <1>11
    DEF Change, CannotChange, VerdictFixed, VerdictNotFixed, LogSuccess,
        Copied, Stage, disk
  <2> QED
    BY <1>2, <2>1
<1> QED
  BY <1>3, <1>4, <1>5, <1>6, <1>7, <1>8, <1>9, <1>10, <1>11
  DEF EngineStep, PersonStep

CopyInv == WellTyped /\ \A r \in Runner : CopyMade(r)

LEMMA CopyStep ==
  ASSUME Alone
  PROVE  CopyInv /\ [Next]_vars => CopyInv'
<1> SUFFICES ASSUME CopyInv, [Next]_vars, NEW s \in Runner PROVE CopyMade(s)'
  BY NextType DEF CopyInv
<1>0. WellTyped /\ CopyMade(s)
  BY DEF CopyInv
<1>1. CASE \E r \in Runner : EngineStep(r) \/ PersonStep(r) \/ Crash(r)
  <2>1. EngineStep(s) \/ PersonStep(s) \/ Crash(s)
    BY <1>1 DEF Alone
  <2>2. CASE run'[s].pc \notin Copied
    BY <2>2 DEF CopyMade
  <2>3. CASE Capture(s)
    <3> DEFINE y == run[s]
    <3>0. y \in Run /\ run \in [Runner -> Run]
      BY <1>0 DEF WellTyped, TypeOK
    <3>1. /\ run'[s].item = y.item /\ run'[s].action = y.action
          /\ run'[s].attempted = y.attempted
          /\ run'[s].saved = IF Removes(s) THEN file[Target(s)] ELSE Absent
      BY <2>3, <3>0 DEF Capture, Becomes, Run
    <3>2. SUFFICES ASSUME Removes(s), file[Target(s)] # Absent
                   PROVE  Kept(s)' = {[item |-> y.item, number |-> y.attempted,
                                       path |-> Target(s),
                                       content |-> file[Target(s)]]}
      BY <3>1 DEF CopyMade, Kept, Removes, Target
    <3>3. backup' = (backup \ Kept(s)) \cup
                      {[item |-> y.item, number |-> y.attempted,
                        path |-> Target(s), content |-> file[Target(s)]]}
      BY <2>3, <3>2 DEF Capture
    <3> QED
      BY <3>1, <3>3 DEF Kept
  <2> QED
    BY <1>0, <2>1, <2>2, <2>3, CopyInHand DEF CopyMade, Kept, Removes, Target
<1>2. CASE ~(\E r \in Runner : EngineStep(r) \/ PersonStep(r) \/ Crash(r))
  <2>1. UNCHANGED <<backup, run>>
    BY <1>2 DEF Next, ScanFinds, WorldWrites, vars, disk
  <2> QED
    BY <1>0, <2>1 DEF CopyMade, Kept, Removes, Target
<1> QED
  BY <1>1, <1>2

\* Only the rollback itself ends a rollback that goes on to be recorded.
LEMMA OnlyRollBack ==
  ASSUME WellTyped, [Next]_vars, NEW r \in Runner, Alone,
         run[r].pc = "rollback", run'[r].pc = "log rollback"
  PROVE  RollBack(r)
<1>0. run[r] \in Run /\ run \in [Runner -> Run]
  BY DEF WellTyped, TypeOK
<1>1. EngineStep(r) \/ PersonStep(r) \/ Crash(r)
  BY OthersStep DEF Alone
<1>2. ~(PersonStep(r) \/ Crash(r) \/ CannotRollBack(r))
  <2>1. Becomes(r, IdleRun) => run'[r].pc = "idle"
    BY <1>0 DEF Becomes, IdleRun
  <2>2. Cancel(r) => run'[r].pc = "rollback"
    BY <1>0 DEF Becomes, Cancel, Run
  <2>3. PersonStep(r) => Cancel(r)
    BY DEF PersonStep, StartRun, PersonApproves, PersonDeclines, Declined,
           PersonStops, Stopped
  <2> QED
    BY <2>1, <2>2, <2>3 DEF Crash, CannotRollBack
<1>3. EngineStep(r) => RollBack(r) \/ CannotRollBack(r)
  BY DEF EngineStep, NextItem, NoCandidates, Refuse, Advise, Ask, AtCandidate,
         EndRun, StopAtLoop, DryRunDeclines, Declined, ParkSeesCancel, Stopped,
         Capture, CannotMakeSnapshot, CannotCapture, Change, CannotChange,
         UndoFailed, LogFailed, VerdictFixed, LogSuccess, MarkResolved,
         VerdictNotFixed, LogRollBack, LeaveToPerson, MarkExhausted
<1> QED
  BY <1>1, <1>2, <1>3

\* With one process on the queue, Snapshot::restore leaves in the file exactly
\* what Snapshot::capture found there: no other attempt, of this run or of an
\* earlier one, has written over the copy it is put back from, and a file that
\* was not there is not there again.  Whatever crashes, fails, or writes.
THEOREM RollbackExact == ASSUME Alone PROVE Spec => RollbackIsExact
<1>1. Init => CopyInv
  <2>1. IdleRun.pc = "idle"
    BY DEF IdleRun
  <2> QED
    BY <2>1, InitType DEF Init, CopyInv, CopyMade, Copied
<1>2. ASSUME CopyInv, [Next]_vars, NEW r \in Runner,
             run[r].pc = "rollback", run'[r].pc = "log rollback", Removes(r)
      PROVE  file'[Target(r)] = run[r].saved
  <2>0. WellTyped /\ CopyMade(r) /\ Target(r) \in Path
    BY <1>2, ConstantsAssumption
    DEF CopyInv, Target, WellTyped, GoodRun
  <2>1. PutBack(r)
    BY <1>2, <2>0, OnlyRollBack DEF RollBack
  <2>2. CASE run[r].saved = Absent
    BY <1>2, <2>0, <2>1, <2>2 DEF PutBack, WellTyped, TypeOK
  <2>3. CASE run[r].saved # Absent
    <3>1. PICK b \in Kept(r) : file' = [file EXCEPT ![Target(r)] = b.content]
      BY <1>2, <2>1, <2>3 DEF PutBack
    <3>2. Kept(r) = {[item |-> run[r].item, number |-> run[r].attempted,
                      path |-> Target(r), content |-> run[r].saved]}
      BY <1>2, <2>0, <2>3 DEF CopyMade, Copied
    <3>3. b.content = run[r].saved
      BY <3>1, <3>2
    <3> QED
      BY <2>0, <3>1, <3>3 DEF WellTyped, TypeOK
  <2> QED
    BY <2>2, <2>3
<1>3. CopyInv /\ [Next]_vars =>
        [\A r \in Runner :
           run[r].pc = "rollback" /\ run'[r].pc = "log rollback" /\ Removes(r)
             => file'[Target(r)] = run[r].saved]_vars
  BY <1>2
<1> QED
  BY <1>1, <1>3, CopyStep, PTL DEF Spec, RollbackIsExact

-----------------------------------------------------------------------------
(* Nothing a fix took away is lost, as long as nobody else works the queue, *)
(* nothing dies, every rollback succeeds and no other program writes the    *)
(* file meanwhile: then a copy is either of an item that is resolved, which *)
(* no run takes up again, or of the change in hand.                         *)

Undisturbed == /\ Alone
               /\ Faults \cap {"crash", "restore"} = {}
               /\ Interfering = {}

\* What a runner has yet to do is still open.
Waiting(r) ==
  /\ \A i \in run[r].items : queue[i] = "pending"
  /\ run[r].pc \notin {"idle", "items"} =>
       /\ queue[run[r].item] = "pending"
       /\ run[r].item \notin run[r].items

\* The file of the change in hand is as the copy and the change left it.
InFile(r) ==
  /\ run[r].pc \in {"captured", "undo"} /\ Removes(r) =>
       file[Target(r)] = run[r].saved
  /\ run[r].pc \in {"applied", "rollback"} /\ Removes(r) =>
       file[Target(r)] = Absent

\* From the change to the end of the item, or of the rollback.
Owing == {"applied", "log success", "resolve", "rollback"}

\* The copy is of the change in hand.
Owed(b) == \E r \in Runner : /\ run[r].pc \in Owing
                             /\ Removes(r) /\ run[r].saved # Absent
                             /\ b \in Kept(r)

Safe ==
  \A e \in removed :
    \E b \in backup : /\ b.path = e[1] /\ b.content = e[2]
                      /\ queue[b.item] = "resolved" \/ Owed(b)

KeepInv == CopyInv /\ Safe /\ \A r \in Runner : Waiting(r) /\ InFile(r)

\* How a runner comes by its items, and by the one it works on.
LEMMA ItemsStep ==
  ASSUME WellTyped, NEW r \in Runner,
         EngineStep(r) \/ PersonStep(r) \/ Crash(r)
  PROVE  \/ run'[r] = IdleRun /\ UNCHANGED queue
         \/ \E apply \in BOOLEAN : StartRun(r, apply)
         \/ \E i \in Item : NextItem(r, i) \/ NoCandidates(r, i)
         \/ /\ run'[r].items = run[r].items /\ run'[r].item = run[r].item
            /\ run'[r].pc \in {"idle", "items"} \/ run[r].pc \notin {"idle", "items"}
            /\ \/ UNCHANGED queue
               \/ /\ run'[r].pc = "items" /\ run[r].pc \notin {"idle", "items"}
                  /\ \A i \in Item \ {run[r].item} : queue'[i] = queue[i]
<1> DEFINE y == run[r]
           Same == /\ run'[r].items = y.items /\ run'[r].item = y.item
                   /\ \/ run'[r].pc \in {"idle", "items"}
                      \/ y.pc \notin {"idle", "items"}
<1>0. y \in Run /\ run \in [Runner -> Run]
  BY DEF WellTyped, TypeOK
<1>1. UNCHANGED queue \/ MarkResolved(r) \/ MarkExhausted(r)
  BY QueueStep
<1>2. CASE MarkResolved(r) \/ MarkExhausted(r)
  <2>1. /\ run'[r].items = y.items /\ run'[r].item = y.item
        /\ run'[r].pc = "items" /\ y.pc \notin {"idle", "items"}
    BY <1>0, <1>2 DEF MarkResolved, MarkExhausted, Step, Becomes, Run
  <2>2. \A i \in Item \ {y.item} : queue'[i] = queue[i]
    BY <1>2 DEF MarkResolved, MarkExhausted, WellTyped, TypeOK
  <2> QED
    BY <2>1, <2>2
<1>3. Becomes(r, IdleRun) => run'[r] = IdleRun
  BY Memory
<1>4. CASE \/ EndRun(r) \/ StopAtLoop(r) \/ ParkSeesCancel(r) \/ PersonStops(r)
           \/ CannotMakeSnapshot(r) \/ CannotRollBack(r) \/ Crash(r)
  <2>1. Becomes(r, IdleRun) /\ UNCHANGED queue
    BY <1>4 DEF EndRun, StopAtLoop, ParkSeesCancel, PersonStops, Stopped,
                CannotMakeSnapshot, CannotRollBack, Crash, store
  <2> QED
    BY <1>3, <2>1
<1>5. CASE \/ DryRunDeclines(r) \/ PersonDeclines(r)
           \/ LogFailed(r) \/ LogRollBack(r)
  <2>1. UNCHANGED queue
    BY <1>5 DEF DryRunDeclines, PersonDeclines, Declined, LogFailed, LogRollBack
  <2>2. y.pc \notin {"idle", "items"}
    BY <1>5 DEF DryRunDeclines, PersonDeclines, Declined, LogFailed, LogRollBack
  <2>3. Becomes(r, [y EXCEPT !.pc = "loop", !.plan = @ \ {y.action}])
    BY <1>5 DEF DryRunDeclines, PersonDeclines, Declined, LogFailed, LogRollBack
  <2>4. run'[r].items = y.items /\ run'[r].item = y.item
    BY <1>0, <2>3 DEF Becomes, Run
  <2> QED
    BY <2>1, <2>2, <2>4
<1>6. CASE \E a \in Action : Refuse(r, a) \/ Advise(r, a) \/ Ask(r, a)
  <2>1. PICK a \in Action : Refuse(r, a) \/ Advise(r, a) \/ Ask(r, a)
    BY <1>6
  <2>2. y.pc = "loop" /\ UNCHANGED queue
    BY <2>1 DEF Refuse, Advise, Ask, AtCandidate, store
  <2>3. Refuse(r, a) => run'[r].items = y.items /\ run'[r].item = y.item
    BY <1>0 DEF Refuse, Becomes, Run
  <2>4. Advise(r, a) => run'[r].items = y.items /\ run'[r].item = y.item
    BY <1>0 DEF Advise, Becomes, Run
  <2>5. Ask(r, a) => run'[r].items = y.items /\ run'[r].item = y.item
    BY <1>0 DEF Ask, Becomes, Run
  <2> QED
    BY <2>1, <2>2, <2>3, <2>4, <2>5
<1>7. CASE \/ CannotCapture(r) \/ Change(r) \/ CannotChange(r) \/ UndoFailed(r)
           \/ VerdictFixed(r) \/ LogSuccess(r) \/ VerdictNotFixed(r)
           \/ RollBack(r) \/ LeaveToPerson(r)
  <2>1. /\ y.pc \notin {"idle", "items"} /\ UNCHANGED queue
        /\ \E pc \in Stage : Step(r, pc)
    BY <1>7
    DEF Stage, CannotCapture, Change, CannotChange, UndoFailed, VerdictFixed,
        LogSuccess, VerdictNotFixed, RollBack, LeaveToPerson, store
  <2>2. run'[r].items = y.items /\ run'[r].item = y.item
    BY <1>0, <2>1 DEF Step, Becomes, Run
  <2> QED
    BY <2>1, <2>2
<1>8. CASE Cancel(r)
  <2>1. /\ run'[r].items = y.items /\ run'[r].item = y.item
        /\ run'[r].pc = y.pc
    BY <1>0, <1>8 DEF Cancel, Becomes, Run
  <2> QED
    BY <1>8, <2>1 DEF Cancel, store
<1>9. CASE Capture(r) \/ PersonApproves(r)
  <2>1. y.pc \notin {"idle", "items"} /\ UNCHANGED queue
    BY <1>9 DEF Capture, PersonApproves, store
  <2>2. Capture(r) => run'[r].items = y.items /\ run'[r].item = y.item
    BY <1>0 DEF Capture, Becomes, Run
  <2>3. PersonApproves(r) => run'[r].items = y.items /\ run'[r].item = y.item
    BY <1>0 DEF PersonApproves, Becomes, Run
  <2> QED
    BY <1>9, <2>1, <2>2, <2>3
<1> QED
  BY <1>2, <1>4, <1>5, <1>6, <1>7, <1>8, <1>9 DEF EngineStep, PersonStep

LEMMA WaitingStep ==
  ASSUME Alone, WellTyped, [Next]_vars, NEW r \in Runner, Waiting(r)
  PROVE  Waiting(r)'
<1>0. /\ run[r] \in Run /\ run \in [Runner -> Run]
      /\ queue \in [Item -> ItemState] /\ GoodRun(run[r])
  BY DEF WellTyped, TypeOK
<1>1. CASE ~(\E s \in Runner : EngineStep(s) \/ PersonStep(s) \/ Crash(s))
  <2>1. run' = run /\ \A i \in Item : queue[i] = "pending" => queue'[i] = "pending"
    BY <1>0, <1>1, OthersStep DEF ScanFinds
  <2> QED
    BY <1>0, <2>1 DEF Waiting, GoodRun, Run
<1>2. CASE \E s \in Runner : EngineStep(s) \/ PersonStep(s) \/ Crash(s)
  <2>1. EngineStep(r) \/ PersonStep(r) \/ Crash(r)
    BY <1>2 DEF Alone
  <2>2. CASE run'[r] = IdleRun /\ UNCHANGED queue
    BY <2>2 DEF Waiting, IdleRun
  <2>3. ASSUME NEW apply \in BOOLEAN, StartRun(r, apply)
        PROVE  Waiting(r)'
    <3>1. run'[r].pc = "items" /\ run'[r].items = Pending /\ queue' = queue
      BY <1>0, <2>3 DEF StartRun, Becomes, IdleRun, store
    <3> QED
      BY <3>1 DEF Waiting, Pending
  <2>4. ASSUME NEW i \in Item, NextItem(r, i)
        PROVE  Waiting(r)'
    <3>1. /\ run'[r].pc = "loop" /\ run'[r].items = run[r].items \ {i}
          /\ run'[r].item = i /\ queue' = queue /\ i \in run[r].items
      BY <1>0, <2>4 DEF NextItem, Becomes, Run, WorstFirst, store
    <3> QED
      BY <3>1 DEF Waiting
  <2>5. ASSUME NEW i \in Item, NoCandidates(r, i)
        PROVE  Waiting(r)'
    <3>1. /\ run'[r].pc = "items" /\ run'[r].items = run[r].items \ {i}
          /\ queue' = queue
      BY <1>0, <2>5 DEF NoCandidates, Becomes, Run, store
    <3> QED
      BY <3>1 DEF Waiting
  <2>6. CASE /\ run'[r].items = run[r].items /\ run'[r].item = run[r].item
             /\ \/ run'[r].pc \in {"idle", "items"}
                \/ run[r].pc \notin {"idle", "items"}
             /\ \/ UNCHANGED queue
                \/ /\ run'[r].pc = "items" /\ run[r].pc \notin {"idle", "items"}
                   /\ \A i \in Item \ {run[r].item} : queue'[i] = queue[i]
    <3>1. run[r].items \subseteq Item
      BY <1>0 DEF Run
    <3> QED
      BY <2>6, <3>1 DEF Waiting
  <2> QED
    BY <2>1, <2>2, <2>3, <2>4, <2>5, <2>6, ItemsStep
<1> QED
  BY <1>1, <1>2

\* A file under change belongs to the change.
LEMMA LeftAloneLemma ==
  ASSUME Interfering = {}, NEW r \in Runner, NEW p \in Path,
         run[r].pc \in {"captured", "undo", "applied", "rollback"},
         Removes(r), Target(r) = p
  PROVE  LeftAlone(p)
BY DEF LeftAlone, PhaseOf, Removes, Target

LEMMA InFileStep ==
  ASSUME Undisturbed, WellTyped, [Next]_vars, NEW r \in Runner, InFile(r)
  PROVE  InFile(r)'
<1> DEFINE y == run[r]
<1>0. /\ y \in Run /\ run \in [Runner -> Run]
      /\ file \in [Path -> Content \cup {Absent}] /\ GoodRun(y)
  BY DEF WellTyped, TypeOK
<1>1. y.pc \in Copied => Target(r) \in Path
  BY <1>0, ConstantsAssumption DEF GoodRun, Copied, Target
<1>2. CASE ~(\E s \in Runner : EngineStep(s) \/ PersonStep(s) \/ Crash(s))
  <2>1. run' = run
    BY <1>2, OthersStep
  <2>2. file' = file \/ \E p \in Path, c \in Content : WorldWrites(p, c)
    BY <1>2 DEF Next, ScanFinds, vars, disk
  <2>3. ASSUME y.pc \in {"captured", "undo", "applied", "rollback"}, Removes(r)
        PROVE  file'[Target(r)] = file[Target(r)]
    BY <1>0, <1>1, <2>2, <2>3, LeftAloneLemma DEF WorldWrites, Undisturbed, Copied
  <2> QED
    BY <2>1, <2>3 DEF InFile, Removes, Target
<1>3. CASE \E s \in Runner : EngineStep(s) \/ PersonStep(s) \/ Crash(s)
  <2>1. EngineStep(r) \/ PersonStep(r)
    BY <1>3 DEF Undisturbed, Alone, Crash
  <2>2. CASE run'[r].pc \notin Copied
    BY <2>2 DEF InFile, Copied
  <2>3. CASE Capture(r)
    <3>1. /\ run'[r].pc = "captured" /\ run'[r].action = y.action
          /\ run'[r].saved = IF Removes(r) THEN file[Target(r)] ELSE Absent
          /\ file' = file
      BY <1>0, <2>3 DEF Capture, Becomes, Run
    <3> QED
      BY <3>1 DEF InFile, Removes, Target
  <2>4. CASE /\ ~Capture(r)
             /\ run'[r].pc \in {"captured", "undo", "applied", "rollback"}
    <3>1. /\ y.pc \in Copied /\ run'[r].action = y.action
          /\ run'[r].saved = y.saved
      BY <2>1, <2>4, CopyInHand DEF Copied
    <3>2. \A pc \in Stage : Step(r, pc) => run'[r].pc = pc
      BY <1>0 DEF Step, Becomes, Run
    <3>3. CASE Cancel(r)
      <4>1. run'[r].pc = y.pc /\ file' = file
        BY <1>0, <3>3 DEF Cancel, Becomes, Run, disk
      <4> QED
        BY <3>1, <4>1 DEF InFile, Removes, Target
    <3>4. CASE Change(r)
      <4>1. /\ run'[r].pc = "applied"
            /\ Removes(r) => file' = [file EXCEPT ![Target(r)] = Absent]
        BY <3>2, <3>4 DEF Change, Stage
      <4> QED
        BY <1>0, <1>1, <3>1, <4>1 DEF InFile, Removes, Target
    <3>5. CASE CannotChange(r)
      <4>1. run'[r].pc = "undo" /\ y.pc = "captured" /\ file' = file
        BY <3>2, <3>5 DEF CannotChange, Stage, disk
      <4> QED
        BY <3>1, <4>1 DEF InFile, Removes, Target
    <3>6. CASE VerdictNotFixed(r)
      <4>1. run'[r].pc = "rollback" /\ y.pc = "applied" /\ file' = file
        BY <3>2, <3>6 DEF VerdictNotFixed, Stage, disk
      <4> QED
        BY <3>1, <4>1 DEF InFile, Removes, Target
    <3>7. ~(\/ VerdictFixed(r) \/ LogSuccess(r) \/ MarkResolved(r)
            \/ UndoFailed(r) \/ RollBack(r))
      BY <2>4, <3>2
      DEF VerdictFixed, LogSuccess, MarkResolved, UndoFailed, RollBack, Stage
    <3>8. PersonStep(r) => Cancel(r)
      BY <3>1 DEF PersonStep, StartRun, PersonApproves, PersonDeclines,
                  Declined, PersonStops, Stopped, Copied
    <3>9. EngineStep(r) => \/ Change(r) \/ CannotChange(r) \/ VerdictNotFixed(r)
      BY <2>4, <3>1, <3>7
      DEF EngineStep, NextItem, NoCandidates, Refuse, Advise, Ask, AtCandidate,
          EndRun, StopAtLoop, DryRunDeclines, Declined, ParkSeesCancel, Stopped,
          CannotMakeSnapshot, CannotCapture, LogFailed, CannotRollBack,
          LogRollBack, LeaveToPerson, MarkExhausted, Copied, Undisturbed
    <3> QED
      BY <2>1, <3>3, <3>4, <3>5, <3>6, <3>8, <3>9
  <2>5. CASE ~Capture(r) /\ run'[r].pc \in {"log success", "resolve"}
    BY <2>5 DEF InFile
  <2> QED
    BY <2>2, <2>3, <2>4, <2>5 DEF Copied
<1> QED
  BY <1>2, <1>3

\* Who touches the files and what is kept of them.
LEMMA DiskStep ==
  ASSUME NEW r \in Runner, EngineStep(r) \/ PersonStep(r) \/ Crash(r)
  PROVE  \/ UNCHANGED <<file, backup, removed>>
         \/ Capture(r) \/ Change(r) \/ UndoFailed(r) \/ RollBack(r)
<1> USE DEF store, disk, history
<1>1. CASE EngineStep(r)
  BY <1>1
  DEF EngineStep, NextItem, NoCandidates, Refuse, Advise, Ask, EndRun,
      StopAtLoop, ParkSeesCancel, Stopped, CannotMakeSnapshot, CannotCapture,
      VerdictFixed, VerdictNotFixed, CannotRollBack, LeaveToPerson,
      DryRunDeclines, Declined, CannotChange, LogFailed, LogSuccess,
      LogRollBack, MarkResolved, MarkExhausted
<1>2. CASE PersonStep(r) \/ Crash(r)
  BY <1>2
  DEF PersonStep, StartRun, PersonApproves, PersonDeclines, Declined,
      PersonStops, Stopped, Cancel, Crash
<1> QED
  BY <1>1, <1>2

\* A change that owes its file is carried to its end.
LEMMA OwingStep ==
  ASSUME Undisturbed, WellTyped, NEW r \in Runner,
         EngineStep(r) \/ PersonStep(r), run[r].pc \in Owing
  PROVE  \/ MarkResolved(r) \/ RollBack(r)
         \/ /\ run'[r].pc \in Owing
            /\ UNCHANGED <<file, backup, removed, queue>>
            /\ run'[r].item = run[r].item /\ run'[r].action = run[r].action
            /\ run'[r].attempted = run[r].attempted
            /\ run'[r].saved = run[r].saved
<1> DEFINE y == run[r]
<1>0. y \in Run /\ run \in [Runner -> Run]
  BY DEF WellTyped, TypeOK
<1>1. ASSUME NEW pc \in Owing, Step(r, pc)
      PROVE  /\ run'[r].pc = pc
             /\ run'[r].item = y.item /\ run'[r].action = y.action
             /\ run'[r].attempted = y.attempted /\ run'[r].saved = y.saved
  BY <1>0, <1>1 DEF Step, Becomes, Run
<1>2. CASE VerdictFixed(r) \/ VerdictNotFixed(r) \/ LogSuccess(r)
  <2>1. /\ \E pc \in Owing : Step(r, pc)
        /\ UNCHANGED <<file, backup, removed, queue>>
    BY <1>2 DEF VerdictFixed, VerdictNotFixed, LogSuccess, Owing, store, disk,
                history
  <2> QED
    BY <1>1, <2>1
<1>3. CASE Cancel(r)
  <2>1. /\ run'[r].pc = y.pc
        /\ run'[r].item = y.item /\ run'[r].action = y.action
        /\ run'[r].attempted = y.attempted /\ run'[r].saved = y.saved
    BY <1>0, <1>3 DEF Cancel, Becomes, Run
  <2> QED
    BY <1>3, <2>1 DEF Cancel, store, disk, history
<1>4. PersonStep(r) => Cancel(r)
  BY DEF PersonStep, StartRun, PersonApproves, PersonDeclines, Declined,
         PersonStops, Stopped, Owing
<1>5. EngineStep(r) => \/ VerdictFixed(r) \/ VerdictNotFixed(r) \/ LogSuccess(r)
                      \/ MarkResolved(r) \/ RollBack(r)
  BY DEF EngineStep, NextItem, NoCandidates, Refuse, Advise, Ask, AtCandidate,
         EndRun, StopAtLoop, DryRunDeclines, Declined, ParkSeesCancel, Stopped,
         Capture, CannotMakeSnapshot, CannotCapture, Change, CannotChange,
         UndoFailed, LogFailed, CannotRollBack, LogRollBack, LeaveToPerson,
         MarkExhausted, Owing, Undisturbed
<1> QED
  BY <1>2, <1>3, <1>4, <1>5

\* Only the item in hand changes its row, and it is one still open.
LEMMA StaysResolved ==
  ASSUME WellTyped, [Next]_vars, Alone, \A r \in Runner : Waiting(r),
         NEW i \in Item, queue[i] = "resolved"
  PROVE  queue'[i] = "resolved"
<1>1. CASE \E r \in Runner : EngineStep(r) \/ PersonStep(r) \/ Crash(r)
  <2>1. PICK r \in Runner : EngineStep(r) \/ PersonStep(r) \/ Crash(r)
    BY <1>1
  <2> QED
    BY <2>1, QueueStep DEF MarkResolved, MarkExhausted, Waiting, WellTyped, TypeOK
<1>2. CASE ~(\E r \in Runner : EngineStep(r) \/ PersonStep(r) \/ Crash(r))
  BY <1>2, OthersStep DEF ScanFinds, WellTyped, TypeOK
<1> QED
  BY <1>1, <1>2

LEMMA SafeStep ==
  ASSUME Undisturbed
  PROVE  KeepInv /\ [Next]_vars => Safe'
<1> SUFFICES ASSUME KeepInv, [Next]_vars PROVE Safe'
  OBVIOUS
<1>0. /\ WellTyped /\ WellTyped'
      /\ \A r \in Runner : CopyMade(r) /\ Waiting(r) /\ InFile(r)
  BY NextType DEF KeepInv, CopyInv
<1>1. \A i \in Item : queue[i] = "resolved" => queue'[i] = "resolved"
  BY <1>0, StaysResolved DEF Undisturbed
<1>2. \A b \in backup : b.item \in Item
  BY <1>0 DEF WellTyped, TypeOK, Backup
\* A copy of a resolved item is still there and still one.
<1>3. ASSUME NEW b \in backup, queue[b.item] = "resolved"
      PROVE  b \in backup' /\ queue'[b.item] = "resolved"
  <2>1. CASE \E r \in Runner : Capture(r)
    <3>1. PICK r \in Runner : Capture(r)
      BY <2>1
    <3>2. queue[run[r].item] = "pending"
      BY <1>0, <3>1 DEF Capture, Waiting
    <3>3. b \notin Kept(r)
      BY <1>3, <3>2 DEF Kept
    <3>4. backup \ Kept(r) \subseteq backup'
      BY <3>1 DEF Capture
    <3> QED
      BY <1>1, <1>2, <1>3, <3>3, <3>4
  <2>2. CASE ~(\E r \in Runner : Capture(r))
    <3>1. backup' = backup
      <4>1. CASE \E r \in Runner : EngineStep(r) \/ PersonStep(r) \/ Crash(r)
        BY <2>2, <4>1, DiskStep DEF Change, UndoFailed, RollBack
      <4>2. CASE ~(\E r \in Runner : EngineStep(r) \/ PersonStep(r) \/ Crash(r))
        BY <4>2 DEF Next, ScanFinds, WorldWrites, vars, disk
      <4> QED
        BY <4>1, <4>2
    <3> QED
      BY <1>1, <1>2, <1>3, <3>1
  <2> QED
    BY <2>1, <2>2
<1>4. CASE ~(\E r \in Runner : EngineStep(r) \/ PersonStep(r) \/ Crash(r))
  <2>1. UNCHANGED <<run, backup, removed>>
    BY <1>4 DEF Next, ScanFinds, WorldWrites, vars, disk, history
  <2>2. \A b : Owed(b) => Owed(b)'
    BY <2>1 DEF Owed, Kept, Removes
  <2> QED
    BY <1>0, <1>3, <2>1, <2>2 DEF KeepInv, Safe
<1>5. CASE \E r \in Runner : EngineStep(r) \/ PersonStep(r) \/ Crash(r)
  <2>1. PICK r \in Runner : EngineStep(r) \/ PersonStep(r)
    BY <1>5 DEF Crash, Undisturbed
  <2> DEFINE y == run[r]
             Copy == [item |-> y.item, number |-> y.attempted,
                      path |-> Target(r), content |-> y.saved]
  <2>2. /\ y \in Run /\ run \in [Runner -> Run] /\ GoodRun(y)
        /\ file \in [Path -> Content \cup {Absent}]
        /\ CopyMade(r) /\ Waiting(r) /\ InFile(r)
    BY <1>0 DEF WellTyped, TypeOK
  <2>3. \A b : Owed(b) <=> /\ y.pc \in Owing /\ Removes(r)
                           /\ y.saved # Absent /\ b \in Kept(r)
    BY DEF Owed, Undisturbed, Alone
  <2>4. \A b : Owed(b)' <=> /\ run'[r].pc \in Owing /\ Removes(r)'
                            /\ run'[r].saved # Absent /\ b \in Kept(r)'
    BY DEF Owed, Undisturbed, Alone
  <2>5. y.pc \in Copied => Target(r) \in Path
    BY <2>2, ConstantsAssumption DEF GoodRun, Copied, Target
  \* What is left of removed is as safe as before, where nothing is owed.
  <2>6. ASSUME y.pc \notin Owing, NEW e \in removed
        PROVE  \E b \in backup' : /\ b.path = e[1] /\ b.content = e[2]
                                  /\ queue'[b.item] = "resolved"
    BY <1>3, <2>3, <2>6 DEF KeepInv, Safe
  <2>7. CASE Change(r)
    <3>1. y.pc = "captured" /\ backup' = backup /\ Step(r, "applied")
      BY <2>7 DEF Change
    <3>2. /\ run'[r].pc = "applied" /\ run'[r].item = y.item
          /\ run'[r].action = y.action /\ run'[r].attempted = y.attempted
          /\ run'[r].saved = y.saved
      BY <2>2, <3>1 DEF Step, Becomes, Run
    <3>3. ASSUME NEW e \in removed', e \notin removed
          PROVE  \E b \in backup' : /\ b.path = e[1] /\ b.content = e[2]
                                    /\ Owed(b)'
      <4>1. Removes(r) /\ e \in Taken(Target(r))
        BY <2>7, <3>3 DEF Change
      <4>2. file[Target(r)] = y.saved
        BY <2>2, <3>1, <4>1 DEF InFile
      <4>3. y.saved # Absent /\ e = <<Target(r), y.saved>>
        BY <4>1, <4>2 DEF Taken
      <4>4. Kept(r) = {Copy}
        BY <2>2, <3>1, <4>1, <4>3 DEF CopyMade, Copied
      <4>5. Kept(r)' = Kept(r) /\ Removes(r)' = Removes(r)
        BY <3>1, <3>2 DEF Kept, Removes
      <4>6. PICK b \in Kept(r) : b.path = Target(r) /\ b.content = y.saved
        BY <4>4
      <4>7. b \in backup'
        BY <3>1, <4>6 DEF Kept
      <4>8. run'[r].pc \in Owing /\ run'[r].saved # Absent
        BY <3>2, <4>3 DEF Owing
      <4>9. Owed(b)'
        BY <2>4, <4>1, <4>5, <4>6, <4>8
      <4> QED
        BY <4>3, <4>6, <4>7, <4>9
    <3> QED
      BY <2>6, <3>1, <3>3 DEF Safe, Owing
  <2>8. CASE UndoFailed(r)
    <3>1. y.pc = "undo"
      BY <2>8 DEF UndoFailed
    <3>2. removed' \subseteq removed
      <4>1. CASE ~PutBack(r) \/ ~Removes(r)
        BY <2>8, <4>1 DEF UndoFailed, PutBack
      <4>2. CASE PutBack(r) /\ Removes(r)
        <5>1. file[Target(r)] = y.saved
          BY <2>2, <3>1, <4>2 DEF InFile
        <5>2. CASE y.saved = Absent
          BY <4>2, <5>1, <5>2 DEF PutBack, Taken
        <5>3. CASE y.saved # Absent
          <6>1. Kept(r) = {Copy}
            BY <2>2, <3>1, <4>2, <5>3 DEF CopyMade, Copied
          <6>2. PICK b \in Kept(r) :
                  removed' = (removed \cup Taken(Target(r))) \ {<<Target(r), b.content>>}
            BY <4>2, <5>3 DEF PutBack
          <6>3. b.content = y.saved
            BY <6>1, <6>2
          <6>4. Taken(Target(r)) = {<<Target(r), y.saved>>}
            BY <5>1, <5>3 DEF Taken
          <6> QED
            BY <6>2, <6>3, <6>4
        <5> QED
          BY <5>2, <5>3
      <4> QED
        BY <4>1, <4>2
    <3> QED
      BY <2>6, <3>1, <3>2 DEF Safe, Owing
  <2>9. CASE RollBack(r)
    <3>1. y.pc = "rollback" /\ PutBack(r) /\ backup' = backup
      BY <2>9 DEF RollBack
    <3>2. ASSUME NEW e \in removed'
          PROVE  \E b \in backup' : /\ b.path = e[1] /\ b.content = e[2]
                                    /\ queue'[b.item] = "resolved"
      <4>1. CASE ~Removes(r) \/ y.saved = Absent
        <5>1. removed' = removed
          BY <2>2, <3>1, <4>1 DEF PutBack, Taken, InFile
        <5>2. \A b : ~Owed(b)
          BY <2>3, <4>1
        <5> QED
          BY <1>3, <3>2, <5>1, <5>2 DEF KeepInv, Safe
      <4>2. CASE Removes(r) /\ y.saved # Absent
        <5>1. Kept(r) = {Copy}
          BY <2>2, <3>1, <4>2 DEF CopyMade, Copied
        <5>2. file[Target(r)] = Absent
          BY <2>2, <3>1, <4>2 DEF InFile
        <5>3. PICK c \in Kept(r) :
                removed' = (removed \cup Taken(Target(r))) \ {<<Target(r), c.content>>}
          BY <3>1, <4>2 DEF PutBack
        <5>4. c.content = y.saved
          BY <5>1, <5>3
        <5>5. e \in removed /\ e # <<Target(r), y.saved>>
          BY <3>2, <5>2, <5>3, <5>4 DEF Taken
        <5>6. PICK b \in backup : /\ b.path = e[1] /\ b.content = e[2]
                                  /\ queue[b.item] = "resolved" \/ Owed(b)
          BY <5>5 DEF KeepInv, Safe
        <5>7. ~Owed(b)
          <6>1. SUFFICES ASSUME b = Copy PROVE FALSE
            BY <2>3, <5>1
          <6>2. e[1] = Target(r) /\ e[2] = y.saved
            BY <5>6, <6>1
          <6>3. e = <<e[1], e[2]>>
            BY <1>0, <5>5 DEF WellTyped, TypeOK
          <6> QED
            BY <5>5, <6>2, <6>3
        <5> QED
          BY <1>3, <5>6, <5>7
      <4> QED
        BY <4>1, <4>2
    <3> QED
      BY <3>2 DEF Safe
  <2>10. CASE MarkResolved(r)
    <3>1. UNCHANGED <<backup, removed>> /\ y.pc = "resolve"
      BY <2>10 DEF MarkResolved, disk, history
    <3>2. ASSUME NEW b \in backup, Owed(b) PROVE queue'[b.item] = "resolved"
      <4>1. b.item = y.item
        BY <2>3, <3>2 DEF Kept
      <4> QED
        BY <1>0, <1>2, <2>10, <4>1 DEF MarkResolved, WellTyped, TypeOK
    <3> QED
      BY <1>3, <3>1, <3>2 DEF KeepInv, Safe
  <2>11. CASE Capture(r)
    <3>1. removed' = removed /\ y.pc = "approved"
      BY <2>11 DEF Capture, history
    <3> QED
      BY <2>6, <3>1 DEF Safe, Owing
  <2>12. CASE /\ ~Change(r) /\ ~UndoFailed(r) /\ ~RollBack(r)
              /\ ~MarkResolved(r) /\ ~Capture(r)
    <3>1. UNCHANGED <<file, backup, removed>>
      BY <2>1, <2>12, DiskStep
    <3>2. CASE y.pc \notin Owing
      BY <2>6, <3>1, <3>2 DEF Safe
    <3>3. CASE y.pc \in Owing
      <4>1. /\ run'[r].pc \in Owing
            /\ run'[r].item = y.item /\ run'[r].action = y.action
            /\ run'[r].attempted = y.attempted /\ run'[r].saved = y.saved
        BY <1>0, <2>1, <2>12, <3>3, OwingStep
      <4>2. \A b : Owed(b) => Owed(b)'
        BY <2>3, <2>4, <3>1, <3>3, <4>1 DEF Kept, Removes
      <4> QED
        BY <1>3, <3>1, <4>2 DEF KeepInv, Safe
    <3> QED
      BY <3>2, <3>3
  <2> QED
    BY <2>7, <2>8, <2>9, <2>10, <2>11, <2>12
<1> QED
  BY <1>4, <1>5

\* What a fix took away is in its file again or in a backup nothing will write
\* over, whatever the actions, the verdicts and the order of the items: as long
\* as one process works the queue, nothing dies or fails to be put back, and
\* no other program writes the file of a change in hand.
THEOREM NothingIsLost == ASSUME Undisturbed PROVE Spec => []NothingLost
<1>1. Init => KeepInv
  <2>1. IdleRun.pc = "idle" /\ IdleRun.items = {}
    BY DEF IdleRun
  <2> QED
    BY <2>1, InitType
    DEF Init, KeepInv, CopyInv, CopyMade, Copied, Safe, Waiting, InFile
<1>2. KeepInv /\ [Next]_vars => KeepInv'
  BY CopyStep, WaitingStep, InFileStep, SafeStep DEF KeepInv, CopyInv, Undisturbed
<1>3. KeepInv => NothingLost
  BY DEF KeepInv, Safe, NothingLost
<1> QED
  BY <1>1, <1>2, <1>3, PTL DEF Spec

-----------------------------------------------------------------------------
(* A test of an application that runs already.                              *)

\* A test that finds the application running ends before it starts anything.
FoundRunning == before => app # "none" /\ closed = {} /\ step \in {"idle", "begun", "done"}

\* An application that ran when a test of it began is asked after first, and
\* the test ends there: every later step finds that there was none.
THEOREM LeavesAlone == ChecksSpec => []AlreadyRunningIsLeftAlone
<1>1. ChecksInit => FoundRunning
  BY DEF ChecksInit, LaunchInit, FoundRunning
<1>2. FoundRunning /\ [ChecksNext]_checks => FoundRunning'
  <2> SUFFICES ASSUME FoundRunning, [ChecksNext]_checks PROVE FoundRunning'
    OBVIOUS
  <2> USE DEF FoundRunning
  <2>1. ASSUME UNCHANGED launch PROVE FoundRunning'
    BY <2>1 DEF launch
  <2>2. ASSUME Changes \/ Look \/ Work \/ Verify PROVE FoundRunning'
    BY <2>1, <2>2 DEF Changes, Look, Work, Verify
  <2>3. CASE Test
    BY <2>3 DEF Test, BeginTest
  <2>4. CASE Testing
    <3>1. ASSUME WorldStep PROVE FoundRunning'
      BY <3>1 DEF WorldStep, YouStart, AppQuits, WrapperStarts, WrapperExits
    <3>2. ASSUME AskRunning PROVE FoundRunning'
      BY <3>2 DEF AskRunning, Conclude, Running
    <3>3. ASSUME TestStep, ~ AskRunning PROVE FoundRunning'
      BY <3>3 DEF TestStep, Locate, Spawn, PollUp, PollError, PollExited, AfterExit, Quits,
                  Settled, Waited, Conclude
    <3>4. QED
      BY <2>4, <3>1, <3>2, <3>3 DEF Testing
  <2>5. CASE Tested
    BY <2>5 DEF Tested
  <2>6. CASE UNCHANGED checks
    BY <2>1, <2>6 DEF checks
  <2>7. QED
    BY <2>2, <2>3, <2>4, <2>5, <2>6 DEF ChecksNext
<1>3. FoundRunning => AlreadyRunningIsLeftAlone
  BY DEF FoundRunning, AlreadyRunningIsLeftAlone
<1>4. QED
  BY <1>1, <1>2, <1>3, PTL DEF ChecksSpec

-----------------------------------------------------------------------------
(* The verifiers, and the checks that list what they test.                  *)

\* No verifier tests what a check found.
Untested(findings) == \A f \in findings : VerifierOf(f) = "none"

LEMMA UntestedIds ==
  ASSUME NEW f, f.id \notin {"app.launch-failed", "app.launch-hung", "service.stopped"}
  PROVE  VerifierOf(f) = "none"
BY DEF VerifierOf

LEMMA DevicesUntested ==
  ASSUME NEW issues, \A i \in issues : i.kind \in DOMAIN DeviceId
  PROVE  Untested(DeviceFindings(issues))
<1> SUFFICES ASSUME NEW i \in issues
             PROVE  VerifierOf(Finding("devices.health", DeviceId[i.kind], i.device, DeviceSeverity[i.kind], "queue")) = "none"
  BY DEF DeviceFindings, Untested
<1>1. DeviceId[i.kind] \notin {"app.launch-failed", "app.launch-hung", "service.stopped"}
  <2>1. i.kind \in {"not_working", "driver_missing", "driver_mismatch", "reboot_required"}
    BY DEF DeviceId
  <2>2. QED
    BY <2>1 DEF DeviceId
<1>2. QED
  BY <1>1, UntestedIds DEF Finding

LEMMA IssueKinds ==
  ASSUME NEW m
  PROVE  /\ \A i \in WindowsIssues(m) : i.kind \in DOMAIN DeviceId
         /\ \A i \in LinuxIssues(m) : i.kind \in DOMAIN DeviceId
<1>1. DOMAIN DeviceId = {"not_working", "driver_missing", "driver_mismatch", "reboot_required"}
  BY DEF DeviceId
<1>2. ASSUME NEW code PROVE Explained(code) \in DOMAIN DeviceId
  BY <1>1 DEF Explained
<1>3. \A i \in WindowsIssues(m) : i.kind \in DOMAIN DeviceId
  BY <1>2 DEF WindowsIssues
<1>4. \A i \in KernelIssues(m.running, m.installed) : i.kind \in DOMAIN DeviceId
  BY <1>1 DEF KernelIssues
<1>5. \A i \in NvidiaIssues(m.module, m.userspace) : i.kind \in DOMAIN DeviceId
  <2>1. \/ NvidiaIssues(m.module, m.userspace) = {}
        \/ NvidiaIssues(m.module, m.userspace) =
             {[device |-> "NVIDIA graphics driver", kind |-> "driver_mismatch"]}
    BY ZenonT(20) DEF NvidiaIssues
  <2>2. [device |-> "NVIDIA graphics driver", kind |-> "driver_mismatch"].kind = "driver_mismatch"
    OBVIOUS
  <2>3. QED
    BY <1>1, <2>1, <2>2
<1>6. QED
  BY <1>3, <1>4, <1>5 DEF LinuxIssues

LEMMA DrivesUntested ==
  ASSUME NEW name, NEW verdicts
  PROVE  Untested(DriveFinding(name, verdicts))
BY DEF DriveFinding, Untested, VerifierOf, Finding

LEMMA LogsUntested == ASSUME NEW log PROVE Untested(Analyse(log))
<1>1. \A p \in Patterns : p.id \notin {"app.launch-failed", "app.launch-hung", "service.stopped"}
  <2>1. ASSUME NEW id, NEW s, NEW e, NEW w, NEW v PROVE Pattern(id, s, e, w, v).id = id
    BY DEF Pattern
  <2>2. ASSUME NEW p \in Patterns
        PROVE  \E id \in RecentLogErrorsProbe.emits : \E s, e, w, v : p = Pattern(id, s, e, w, v)
    BY ZenonT(30) DEF Patterns, RecentLogErrorsProbe, Probe
  <2>3. QED
    BY <2>1, <2>2 DEF RecentLogErrorsProbe, Probe
<1>2. ASSUME NEW f \in Analyse(log)
      PROVE  f.id = "logs.repeated-error" \/ \E p \in Patterns : f.id = p.id
  <2>1. ASSUME NEW id, NEW subject, NEW severity
        PROVE  AboutLogs(id, subject, severity).id = id
    BY DEF AboutLogs, Finding
  <2>2. \/ \E p \in Patterns : f = AboutLogs(p.id, p.id, p.severity)
        \/ \E s, v : f = AboutLogs("logs.repeated-error", s, v)
    BY DEF Analyse
  <2>3. QED
    BY <2>1, <2>2
<1>3. QED
  BY <1>1, <1>2, UntestedIds DEF Untested

\* Of what the checks find, only a stopped service and an application that did
\* not answer have a verifier of their own.
\* Only services and answering applications have a verifier of their own.
LEMMA FewAreTested ==
  ASSUME NEW c \in DOMAIN ProbeOf \ {"launcher"}, NEW m, NEW f \in FindingsOf(c, m),
         VerifierOf(f) # "none"
  PROVE  c \in {"services_windows", "services_linux", "apps"}
<1> SUFFICES ASSUME c \notin {"services_windows", "services_linux", "apps"} PROVE FALSE
  OBVIOUS
<1>1. c \in {"disk_space", "memory", "processes", "devices_windows", "devices_linux",
             "drives_windows", "drives_smart", "startup", "logs", "files", "files_windows"}
  BY DEF ProbeOf
<1>2. CASE c = "disk_space"
  BY <1>2 DEF FindingsOf, LowOnSpace, VerifierOf, Finding
<1>3. CASE c = "memory"
  <2>1. f \in HighPressure(m)
    BY <1>3 DEF FindingsOf
  <2>2. PICK severity : f = Finding("memory.pressure", "memory.high-pressure", "", severity, "queue")
    BY <2>1 DEF HighPressure
  <2>3. f.id = "memory.high-pressure"
    BY <2>2 DEF Finding
  <2>4. QED
    BY <2>3, UntestedIds
<1>4. CASE c = "processes"
  <2>1. f \in MemoryHog(m) \/ f \in ZombieBuildup(m) \/ f \in StuckProcesses(m)
    BY <1>4 DEF FindingsOf, BadProcesses
  <2>2. \E id \in {"process.memory-hog", "process.zombie-buildup", "process.sustained-high-cpu"} :
        \E subject, severity : f = Finding("system.processes", id, subject, severity, "queue")
    <3>1. ASSUME f \in MemoryHog(m)
          PROVE  \E subject, severity :
                   f = Finding("system.processes", "process.memory-hog", subject, severity, "queue")
      BY <3>1 DEF MemoryHog
    <3>2. ASSUME f \in ZombieBuildup(m)
          PROVE  \E subject, severity :
                   f = Finding("system.processes", "process.zombie-buildup", subject, severity, "queue")
      BY <3>2 DEF ZombieBuildup
    <3>3. ASSUME f \in StuckProcesses(m)
          PROVE  \E subject, severity :
                   f = Finding("system.processes", "process.sustained-high-cpu", subject, severity, "queue")
      BY <3>3 DEF StuckProcesses
    <3>4. QED
      BY <2>1, <3>1, <3>2, <3>3
  <2>3. QED
    BY <2>2, UntestedIds DEF Finding
<1>5. CASE c = "devices_windows"
  <2>1. f \in DeviceFindings(WindowsIssues(m))
    BY <1>5 DEF FindingsOf
  <2>2. QED
    BY <2>1, DevicesUntested, IssueKinds DEF Untested
<1>6. CASE c = "devices_linux"
  <2>1. f \in DeviceFindings(LinuxIssues(m))
    BY <1>6 DEF FindingsOf
  <2>2. QED
    BY <2>1, DevicesUntested, IssueKinds DEF Untested
<1>7. CASE c = "drives_windows"
  BY <1>7, DrivesUntested DEF FindingsOf, WindowsDrives, Untested
<1>8. CASE c = "drives_smart"
  BY <1>8, DrivesUntested DEF FindingsOf, SmartDrives, Untested
<1>9. CASE c = "startup"
  <2>1. f \in StartupFindings(m)
    BY <1>9 DEF FindingsOf
  <2>2. \E id \in StartupProbe.emits : \E subject, severity, triage :
          f = AboutStartup(id, subject, severity, triage)
    <3>1. StartupProbe.emits =
            {"startup.encoded-command", "startup.temporary-location", "startup.points-at-nothing",
             "startup.library-preload", "startup.crowded"}
      BY DEF StartupProbe, Probe
    <3>2. QED
      BY <2>1, <3>1 DEF StartupFindings
  <2>3. QED
    BY <2>2 DEF VerifierOf, AboutStartup, Finding, StartupProbe, Probe
<1>10. CASE c = "logs"
  BY <1>10, LogsUntested DEF FindingsOf, Untested
<1>11. CASE c \in {"files", "files_windows"}
  <2>1. f \in FileFindings(FileReport(m))
    BY <1>11 DEF FindingsOf
  <2>2. \E id \in {"system.files-altered", "system.files-unverified", "system.config-altered"} :
        \E severity, triage : f = AboutFiles(id, severity, triage)
    BY <2>1 DEF FileFindings
  <2>3. QED
    BY <2>2, UntestedIds DEF AboutFiles, Finding
<1>12. QED
  BY <1>1, <1>2, <1>3, <1>4, <1>5, <1>6, <1>7, <1>8, <1>9, <1>10, <1>11

\* A service the probe lists is not one that Get-Service or systemctl show
\* calls running: set to start, stopped with an error; or a failed unit.
LEMMA RunningIsNotListed ==
  ASSUME NEW c \in {"services_windows", "services_linux"} \cap DOMAIN Facts, NEW m \in Facts[c],
         NEW f \in FindingsOf(c, m)
  PROVE  VerdictOf(c, m, f) # "fixed"
<1> DEFINE failed(s) == IF c = "services_windows" THEN WindowsFailed(s) ELSE SystemdFailed(s)
           told == CHOOSE s \in m.services : s.name = f.subject
           status == IF c = "services_windows" THEN WindowsStatus(told.state) ELSE SystemdStatus(told)
<1>1. PICK s \in m.services : /\ failed(s) /\ m.answers
                              /\ f = Finding("services.failed", "service.stopped", s.name, Medium, "queue")
  BY DEF FindingsOf, FailedServices, ServiceFindings
<1>2. f.subject = s.name /\ VerifierOf(f) = "service"
  BY <1>1 DEF VerifierOf, Finding
<1>3. told = s
  BY <1>2, ChecksAssumption DEF Readable, Unique
<1>4. VerdictOf(c, m, f) = ServiceVerdict(status)
  BY <1>1, <1>2 DEF VerdictOf
<1>5. status # "running"
  <2>1. CASE c = "services_windows"
    BY <1>1, <1>3, <2>1 DEF WindowsFailed, WindowsStatus
  <2>2. CASE c # "services_windows"
    BY <1>1, <1>3, <2>2 DEF SystemdFailed, SystemdStatus, ActiveStatus
  <2>3. QED
    BY <2>1, <2>2
<1>6. QED
  BY <1>4, <1>5 DEF ServiceVerdict

\* An application that is listed did not answer, and does not the next time
\* it is asked while nothing changed.
LEMMA AnsweringIsNotListed ==
  ASSUME "apps" \in DOMAIN Facts, NEW m \in Facts["apps"], NEW f \in FindingsOf("apps", m)
  PROVE  VerdictOf("apps", m, f) # "fixed"
<1>1. PICK a \in m : f \in ResponseFinding(a.id, Response(a))
  BY DEF FindingsOf, AppFindings
<1>2. /\ Response(a) \in {"failed", "hung"} /\ f.subject = a.id
      /\ f.id \in {"app.launch-failed", "app.launch-hung"}
  BY <1>1 DEF ResponseFinding, AboutApp, Finding
<1>3. /\ a.id \notin Launchers
      /\ \A b \in m : b.id = a.id => b = a
  BY ChecksAssumption DEF Readable, Unique
<1>4. VerifierOf(f) = "responds"
  BY <1>2, <1>3 DEF VerifierOf
<1>5. (CHOOSE b \in m : b.id = f.subject) = a
  BY <1>2, <1>3
<1>6. VerdictOf("apps", m, f) = ResponseVerdict(Response(a))
  BY <1>4, <1>5 DEF VerdictOf
<1>7. QED
  BY <1>2, <1>6 DEF ResponseVerdict

\* What the check made of what it read last, and the verifier of what it was
\* shown.
Judgement ==
  /\ check \in DOMAIN ProbeOf /\ looks \in Nat
  /\ check # "launcher" =>
       /\ check \in DOMAIN Facts /\ machine \in Facts[check] /\ step = "idle"
       /\ found = {} \/ looks > 0
       /\ looks > 0 => seen \in Facts[check] /\ found = FindingsOf(check, seen)
       /\ item # NoItem => VerifierOf(item) # "none"
       /\ verdict # "none" => VerifierOf(item) # "none" /\ verdict = VerdictOf(check, judged, item)

\* The record of a look, and of a verdict, is the one made of what was read.
LEMMA JudgementHolds == ChecksSpec => []Judgement
<1>1. ChecksInit => Judgement
  BY DEF ChecksInit, Judgement, LaunchInit
<1>2. Judgement /\ [ChecksNext]_checks => Judgement'
  <2> SUFFICES ASSUME Judgement, [ChecksNext]_checks PROVE Judgement'
    OBVIOUS
  <2> USE DEF Judgement
  <2>1. CASE Changes
    BY <2>1 DEF Changes, launch
  <2>2. CASE Look
    BY <2>2 DEF Look, launch
  <2>3. CASE Work
    <3>1. VerifierOf(NoItem) = "none"
      BY DEF NoItem, VerifierOf, Finding
    <3>2. QED
      BY <2>3, <3>1 DEF Work, launch
  <2>4. CASE Verify
    BY <2>4 DEF Verify, launch
  <2>5. CASE Test
    BY <2>5 DEF Test, launch
  <2>6. CASE Testing
    BY <2>6 DEF Testing, rules
  <2>7. CASE Tested
    BY <2>7 DEF Tested
  <2>8. CASE UNCHANGED checks
    BY <2>8 DEF checks, rules, launch
  <2>9. QED
    BY <2>1, <2>2, <2>3, <2>4, <2>5, <2>6, <2>7, <2>8 DEF ChecksNext
<1>3. QED
  BY <1>1, <1>2, PTL DEF ChecksSpec

\* A verifier that calls a thing fixed and the check that found it never part
\* over the same machine.
THEOREM FixedIsGone == ChecksSpec => []FixedIsNotFound
<1>1. Judgement => FixedIsNotFound
  <2> SUFFICES ASSUME Judgement, verdict = "fixed", looks > 0, check # "launcher", judged = seen,
                      item \in found
               PROVE  FALSE
    BY DEF FixedIsNotFound
  <2>1. /\ item \in FindingsOf(check, seen) /\ VerifierOf(item) # "none"
        /\ VerdictOf(check, seen, item) = "fixed" /\ seen \in Facts[check]
        /\ check \in DOMAIN ProbeOf \ {"launcher"} /\ check \in DOMAIN Facts
    BY DEF Judgement
  <2>2. check \in {"services_windows", "services_linux", "apps"}
    BY <2>1, FewAreTested
  <2>3. QED
    BY <2>1, <2>2, RunningIsNotListed, AnsweringIsNotListed
<1>2. QED
  BY <1>1, JudgementHolds, PTL

-----------------------------------------------------------------------------
(* Severities, and the first rule that holds.                               *)

LEMMA GreatestGrade ==
  ASSUME NEW S, S \subseteq 0 .. 5, S # {}
  PROVE  Max(S) \in S /\ \A x \in S : x <= Max(S)
<1>1. \E x \in S : \A y \in S : x >= y
  <2>1. \/ 5 \in S \/ 4 \in S \/ 3 \in S \/ 2 \in S \/ 1 \in S \/ 0 \in S
    <3>1. PICK x \in S : x \in 0 .. 5
      OBVIOUS
    <3>2. x = 5 \/ x = 4 \/ x = 3 \/ x = 2 \/ x = 1 \/ x = 0
      BY <3>1
    <3>3. QED
      BY <3>1, <3>2
  <2>2. QED
    BY <2>1
<1>2. QED
  BY <1>1 DEF Max

\* every finding of the one has a finding of the other that is as severe
AtLeast(F, G) == \A f \in F : \E g \in G : f.severity <= g.severity
Graded(F) == \A f \in F : f.severity \in 0 .. 5

\* A list that has an answer as severe to each finding is as severe in all.
LEMMA SeverestIsNoMilder ==
  ASSUME NEW F, NEW G, Graded(F), Graded(G), AtLeast(F, G)
  PROVE  Severest(G) >= Severest(F)
<1> DEFINE S == {f.severity : f \in F} \cup {Passed}
           T == {g.severity : g \in G} \cup {Passed}
<1>1. S \subseteq 0 .. 5 /\ T \subseteq 0 .. 5
  BY DEF Graded, Passed
<1>2. \A s \in S : \E t \in T : s <= t
  BY DEF AtLeast, Passed
<1>3. /\ Max(S) \in S /\ Max(T) \in T
      /\ \A t \in T : t <= Max(T)
  BY <1>1, GreatestGrade
<1>4. Severest(F) = Max(S) /\ Severest(G) = Max(T)
  BY DEF Severest
<1> HIDE DEF S, T
<1>5. PICK t \in T : Max(S) <= t
  BY <1>2, <1>3
<1>6. t <= Max(T)
  BY <1>3
<1>7. t \in 0 .. 5 /\ Max(S) \in 0 .. 5 /\ Max(T) \in 0 .. 5
  BY <1>1, <1>3
<1>8. Max(T) >= Max(S)
  BY <1>5, <1>6, <1>7
<1>9. QED
  BY <1>4, <1>8

\* What decides is the first rule that holds.
LEMMA FirstRung ==
  ASSUME NEW rungs, NEW n \in Nat, DOMAIN rungs = 1 .. n,
         NEW i \in 1 .. n, rungs[i][1], \A j \in 1 .. i - 1 : ~ rungs[j][1]
  PROVE  Ladder(rungs) = rungs[i][2]
<1> DEFINE held == {j \in DOMAIN rungs : rungs[j][1]}
<1>1. i \in held /\ \A j \in held : i <= j
  OBVIOUS
<1>2. Min(held) = i
  BY <1>1 DEF Min
<1>3. QED
  BY <1>1, <1>2 DEF Ladder

LEMMA NoRung ==
  ASSUME NEW rungs, \A i \in DOMAIN rungs : ~ rungs[i][1]
  PROVE  Ladder(rungs) = Passed
BY DEF Ladder

LEMMA TwoRungs ==
  ASSUME NEW a, NEW s, NEW b, NEW t
  PROVE  /\ a => Ladder(<< <<a, s>>, <<b, t>> >>) = s
         /\ ~ a /\ b => Ladder(<< <<a, s>>, <<b, t>> >>) = t
         /\ ~ a /\ ~ b => Ladder(<< <<a, s>>, <<b, t>> >>) = Passed
<1> DEFINE rungs == << <<a, s>>, <<b, t>> >>
<1>1. DOMAIN rungs = 1 .. 2 /\ rungs[1] = <<a, s>> /\ rungs[2] = <<b, t>>
  OBVIOUS
<1>2. /\ rungs[1][1] = a /\ rungs[1][2] = s
      /\ rungs[2][1] = b /\ rungs[2][2] = t
  BY <1>1
<1> HIDE DEF rungs
<1>3. ASSUME a PROVE Ladder(rungs) = s
  <2>1. rungs[1][1] /\ \A j \in 1 .. 1 - 1 : ~ rungs[j][1]
    BY <1>2, <1>3
  <2>2. 1 \in 1 .. 2 /\ 2 \in Nat
    OBVIOUS
  <2>3. Ladder(rungs) = rungs[1][2]
    BY <1>1, <2>1, <2>2, FirstRung, Zenon
  <2>4. QED
    BY <1>2, <2>3
<1>4. ASSUME ~ a, b PROVE Ladder(rungs) = t
  <2>1. rungs[2][1] /\ \A j \in 1 .. 2 - 1 : ~ rungs[j][1]
    BY <1>2, <1>4
  <2>2. 2 \in 1 .. 2 /\ 2 \in Nat
    OBVIOUS
  <2>3. Ladder(rungs) = rungs[2][2]
    BY <1>1, <2>1, <2>2, FirstRung, Zenon
  <2>4. QED
    BY <1>2, <2>3
<1>5. ASSUME ~ a, ~ b PROVE Ladder(rungs) = Passed
  <2>1. \A i \in DOMAIN rungs : ~ rungs[i][1]
    BY <1>1, <1>2, <1>5
  <2>2. QED
    BY <2>1, NoRung
<1>6. QED
  BY <1>3, <1>4, <1>5 DEF rungs
LEMMA FiveRungs ==
  ASSUME NEW a, NEW r, NEW b, NEW s, NEW c, NEW t, NEW d, NEW u, NEW e, NEW v
  PROVE  LET rungs == << <<a, r>>, <<b, s>>, <<c, t>>, <<d, u>>, <<e, v>> >>
         IN  /\ a => Ladder(rungs) = r
             /\ ~ a /\ b => Ladder(rungs) = s
             /\ ~ a /\ ~ b /\ c => Ladder(rungs) = t
             /\ ~ a /\ ~ b /\ ~ c /\ d => Ladder(rungs) = u
             /\ ~ a /\ ~ b /\ ~ c /\ ~ d /\ e => Ladder(rungs) = v
             /\ ~ a /\ ~ b /\ ~ c /\ ~ d /\ ~ e => Ladder(rungs) = Passed
<1> DEFINE rungs == << <<a, r>>, <<b, s>>, <<c, t>>, <<d, u>>, <<e, v>> >>
<1>1. DOMAIN rungs = 1 .. 5 /\ 5 \in Nat
  OBVIOUS
<1>2. /\ rungs[1][1] = a /\ rungs[1][2] = r
      /\ rungs[2][1] = b /\ rungs[2][2] = s
      /\ rungs[3][1] = c /\ rungs[3][2] = t
      /\ rungs[4][1] = d /\ rungs[4][2] = u
      /\ rungs[5][1] = e /\ rungs[5][2] = v
  OBVIOUS
<1> HIDE DEF rungs
<1>3. ASSUME a PROVE Ladder(rungs) = r
  <2>1. rungs[1][1] /\ 1 \in 1 .. 5
    BY <1>2, <1>3
  <2>2. \A j \in 1 .. 1 - 1 : ~ rungs[j][1]
    BY <1>2, <1>3
  <2>3. Ladder(rungs) = rungs[1][2]
    BY <1>1, <2>1, <2>2, FirstRung, Zenon
  <2>4. QED
    BY <1>2, <2>3
<1>4. ASSUME ~ a, b PROVE Ladder(rungs) = s
  <2>1. rungs[2][1] /\ 2 \in 1 .. 5
    BY <1>2, <1>4
  <2>2. \A j \in 1 .. 2 - 1 : ~ rungs[j][1]
    BY <1>2, <1>4
  <2>3. Ladder(rungs) = rungs[2][2]
    BY <1>1, <2>1, <2>2, FirstRung, Zenon
  <2>4. QED
    BY <1>2, <2>3
<1>5. ASSUME ~ a, ~ b, c PROVE Ladder(rungs) = t
  <2>1. rungs[3][1] /\ 3 \in 1 .. 5
    BY <1>2, <1>5
  <2>2. \A j \in 1 .. 3 - 1 : ~ rungs[j][1]
    BY <1>2, <1>5
  <2>3. Ladder(rungs) = rungs[3][2]
    BY <1>1, <2>1, <2>2, FirstRung, Zenon
  <2>4. QED
    BY <1>2, <2>3
<1>6. ASSUME ~ a, ~ b, ~ c, d PROVE Ladder(rungs) = u
  <2>1. rungs[4][1] /\ 4 \in 1 .. 5
    BY <1>2, <1>6
  <2>2. \A j \in 1 .. 4 - 1 : ~ rungs[j][1]
    BY <1>2, <1>6
  <2>3. Ladder(rungs) = rungs[4][2]
    BY <1>1, <2>1, <2>2, FirstRung, Zenon
  <2>4. QED
    BY <1>2, <2>3
<1>7. ASSUME ~ a, ~ b, ~ c, ~ d, e PROVE Ladder(rungs) = v
  <2>1. rungs[5][1] /\ 5 \in 1 .. 5
    BY <1>2, <1>7
  <2>2. \A j \in 1 .. 5 - 1 : ~ rungs[j][1]
    BY <1>2, <1>7
  <2>3. Ladder(rungs) = rungs[5][2]
    BY <1>1, <2>1, <2>2, FirstRung, Zenon
  <2>4. QED
    BY <1>2, <2>3
<1>8. ASSUME ~ a, ~ b, ~ c, ~ d, ~ e PROVE Ladder(rungs) = Passed
  <2>1. \A i \in DOMAIN rungs : ~ rungs[i][1]
    BY <1>1, <1>2, <1>8
  <2>2. QED
    BY <2>1, NoRung
<1>9. QED
  BY <1>3, <1>4, <1>5, <1>6, <1>7, <1>8 DEF rungs

-----------------------------------------------------------------------------
(* A disk with less room.                                                   *)

\* The floors, the ample room and the shares of the drive of the system.
LEMMA SystemSeverity ==
  ASSUME NEW d \in DiskFacts, ~ d.readOnly
  PROVE  LET severity == VolumeSeverity("system", d)
             less(percent) == 100 * d.free < percent * d.total
         IN  /\ d.free < 2 => severity = 5
             /\ ~ d.free < 2 /\ d.free < 10 => severity = 4
             /\ ~ d.free < 10 /\ d.free >= 64 => severity = 0
             /\ ~ d.free < 10 /\ ~ d.free >= 64 /\ less(5) => severity = 4
             /\ ~ d.free < 10 /\ ~ d.free >= 64 /\ ~ less(5) /\ less(10) => severity = 3
             /\ ~ d.free < 10 /\ ~ d.free >= 64 /\ ~ less(5) /\ ~ less(10) => severity = 0
<1> DEFINE a == d.free < 2
           b == d.free < 10
           c == d.free >= 64
           e == 100 * d.free < 5 * d.total
           f == 100 * d.free < 10 * d.total
           S == Ladder(<< <<a, Critical>>, <<b, High>>, <<c, Passed>>, <<e, High>>, <<f, Medium>> >>)
<1>1. VolumeSeverity("system", d) = S
  BY DEF VolumeSeverity
<1> HIDE DEF a, b, c, e, f
<1>2. /\ a => S = Critical
      /\ ~ a /\ b => S = High
      /\ ~ a /\ ~ b /\ c => S = Passed
      /\ ~ a /\ ~ b /\ ~ c /\ e => S = High
      /\ ~ a /\ ~ b /\ ~ c /\ ~ e /\ f => S = Medium
      /\ ~ a /\ ~ b /\ ~ c /\ ~ e /\ ~ f => S = Passed
  BY FiveRungs
<1> HIDE DEF S
<1>3. d.free \in Nat /\ (d.free < 2 => d.free < 10)
  BY DEF DiskFacts
<1>4. QED
  BY <1>1, <1>2, <1>3 DEF Critical, High, Medium, Passed, a, b, c, e, f

\* The same of another drive.
LEMMA DataSeverity ==
  ASSUME NEW d \in DiskFacts, ~ d.readOnly, NEW role, role \notin {"removable", "system"}
  PROVE  LET severity == VolumeSeverity(role, d)
             less(percent) == 100 * d.free < percent * d.total
         IN  /\ d.free < 1 => severity = 4
             /\ ~ d.free < 1 /\ d.free < 5 => severity = 3
             /\ ~ d.free < 5 /\ d.free >= 64 => severity = 0
             /\ ~ d.free < 5 /\ ~ d.free >= 64 /\ less(3) => severity = 3
             /\ ~ d.free < 5 /\ ~ d.free >= 64 /\ ~ less(3) /\ less(7) => severity = 2
             /\ ~ d.free < 5 /\ ~ d.free >= 64 /\ ~ less(3) /\ ~ less(7) => severity = 0
<1> DEFINE a == d.free < 1
           b == d.free < 5
           c == d.free >= 64
           e == 100 * d.free < 3 * d.total
           f == 100 * d.free < 7 * d.total
           S == Ladder(<< <<a, High>>, <<b, Medium>>, <<c, Passed>>, <<e, Medium>>, <<f, Low>> >>)
<1>1. VolumeSeverity(role, d) = S
  BY DEF VolumeSeverity
<1> HIDE DEF a, b, c, e, f
<1>2. /\ a => S = High
      /\ ~ a /\ b => S = Medium
      /\ ~ a /\ ~ b /\ c => S = Passed
      /\ ~ a /\ ~ b /\ ~ c /\ e => S = Medium
      /\ ~ a /\ ~ b /\ ~ c /\ ~ e /\ f => S = Low
      /\ ~ a /\ ~ b /\ ~ c /\ ~ e /\ ~ f => S = Passed
  BY FiveRungs
<1> HIDE DEF S
<1>3. d.free \in Nat /\ (d.free < 1 => d.free < 5)
  BY DEF DiskFacts
<1>4. QED
  BY <1>1, <1>2, <1>3 DEF Low, High, Medium, Passed, a, b, c, e, f

\* Floors before shares, ample room between: less room is never less severe.
LEMMA FullerIsNoMilder ==
  ASSUME NEW d \in DiskFacts, NEW n \in Nat, n <= d.free, NEW role
  PROVE  LET e == [d EXCEPT !.free = n]
         IN  /\ VolumeSeverity(role, d) \in 0 .. 5
             /\ VolumeSeverity(role, e) \in 0 .. 5
             /\ VolumeSeverity(role, d) <= VolumeSeverity(role, e)
<1> DEFINE e == [d EXCEPT !.free = n]
<1>1. e \in DiskFacts /\ e.free = n /\ e.total = d.total /\ e.readOnly = d.readOnly
  BY DEF DiskFacts
<1>2. d.free \in Nat /\ d.total \in Nat
  BY DEF DiskFacts
<1> HIDE DEF e
<1>3. CASE role = "removable" \/ d.readOnly
  <2>1. VolumeSeverity(role, d) = 0 /\ VolumeSeverity(role, e) = 0
    BY <1>1, <1>3 DEF VolumeSeverity, Passed
  <2>2. QED
    BY <2>1 DEF e
<1>4. CASE role = "system" /\ ~ d.readOnly
  <2>1. /\ VolumeSeverity(role, d) \in 0 .. 5
        /\ VolumeSeverity(role, e) \in 0 .. 5
        /\ VolumeSeverity(role, d) <= VolumeSeverity(role, e)
    BY <1>1, <1>2, <1>4, SystemSeverity
  <2>2. QED
    BY <2>1 DEF e
<1>5. CASE role \notin {"removable", "system"} /\ ~ d.readOnly
  <2>1. /\ VolumeSeverity(role, d) \in 0 .. 5
        /\ VolumeSeverity(role, e) \in 0 .. 5
        /\ VolumeSeverity(role, d) <= VolumeSeverity(role, e)
    BY <1>1, <1>2, <1>5, DataSeverity
  <2>2. QED
    BY <2>1 DEF e
<1>6. QED
  BY <1>3, <1>4, <1>5

LEMMA DisksNoMilder ==
  ASSUME NEW a \in SUBSET DiskFacts, NEW b \in SUBSET DiskFacts, WorseDisks(a, b), NEW mount
  PROVE  AtLeast(LowOnSpace(a, mount), LowOnSpace(b, mount))
<1> SUFFICES ASSUME NEW d \in Volumes(a), VolumeSeverity(Role(d, mount), d) # Passed
             PROVE  \E g \in LowOnSpace(b, mount) : VolumeSeverity(Role(d, mount), d) <= g.severity
  BY DEF LowOnSpace, AtLeast, Finding
<1>1. PICK e \in b : e.free <= d.free /\ e = [d EXCEPT !.free = e.free]
  BY DEF Volumes, WorseDisks
<1>2. d \in DiskFacts /\ e \in DiskFacts /\ e.free \in Nat
  BY <1>1 DEF Volumes, DiskFacts
<1>3. e.removable = d.removable /\ e.mount = d.mount /\ e.pseudo = d.pseudo /\ e.total = d.total
  BY <1>1, <1>2 DEF DiskFacts
<1>4. e \in Volumes(b) /\ Role(e, mount) = Role(d, mount)
  BY <1>3 DEF Volumes, Role
<1> DEFINE role == Role(d, mount)
<1>5. /\ VolumeSeverity(role, d) \in 0 .. 5
      /\ VolumeSeverity(role, e) \in 0 .. 5
      /\ VolumeSeverity(role, d) <= VolumeSeverity(role, e)
  BY <1>1, <1>2, FullerIsNoMilder
<1>6. VolumeSeverity(role, e) # Passed
  BY <1>5 DEF Passed
<1> DEFINE g == Finding("storage.disk-space", "storage.volume-low-on-space", e.mount,
                          VolumeSeverity(role, e), "inline")
<1>7. g.severity = VolumeSeverity(role, e)
  BY DEF Finding
<1>8. g \in LowOnSpace(b, mount)
  BY <1>4, <1>6, <1>7 DEF LowOnSpace
<1>9. QED
  BY <1>5, <1>7, <1>8

LEMMA DisksGraded ==
  ASSUME NEW a \in SUBSET DiskFacts, NEW mount
  PROVE  Graded(LowOnSpace(a, mount))
<1> SUFFICES ASSUME NEW d \in a PROVE VolumeSeverity(Role(d, mount), d) \in 0 .. 5
  BY DEF LowOnSpace, Graded, Finding, Volumes
<1>1. d \in DiskFacts /\ d.free \in Nat /\ d.free <= d.free
  BY DEF DiskFacts
<1>2. QED
  BY <1>1, FullerIsNoMilder

-----------------------------------------------------------------------------
(* A machine with more of its memory used.                                  *)

LEMMA QuotientGrows ==
  ASSUME NEW x \in Nat, NEW y \in Nat, x <= y, NEW t \in Nat, t # 0
  PROVE  x \div t \in Nat /\ x \div t <= y \div t
OBVIOUS

LEMMA ShareGrows ==
  ASSUME NEW u \in Nat, NEW v \in Nat, u <= v, NEW t \in Nat
  PROVE  Share(u, t) \in Nat /\ Share(v, t) \in Nat /\ Share(u, t) <= Share(v, t)
<1>1. CASE t = 0
  BY <1>1 DEF Share
<1>2. CASE t # 0
  <2>1. 100 * u \in Nat /\ 100 * v \in Nat /\ 100 * u <= 100 * v
    OBVIOUS
  <2>2. 100 * v <= 100 * v
    BY <2>1
  <2>3. /\ (100 * u) \div t \in Nat /\ (100 * u) \div t <= (100 * v) \div t
        /\ (100 * v) \div t \in Nat
    BY <1>2, <2>1, <2>2, QuotientGrows
  <2>4. QED
    BY <1>2, <2>3 DEF Share
<1>3. QED
  BY <1>1, <1>2

LEMMA PressureIs ==
  ASSUME NEW m \in MemoryFacts
  PROVE  LET used == Share(m.used, m.total)
             high == (used >= 90 /\ Share(m.swapUsed, m.swapTotal) >= 50) \/ used >= 96
             pressure(severity) ==
               {Finding("memory.pressure", "memory.high-pressure", "", severity, "queue")}
         IN  /\ high => HighPressure(m) = pressure(4)
             /\ ~ high /\ used >= 90 => HighPressure(m) = pressure(3)
             /\ ~ high /\ ~ used >= 90 => HighPressure(m) = {}
<1> DEFINE used == Share(m.used, m.total)
           a == (used >= 90 /\ Share(m.swapUsed, m.swapTotal) >= 50) \/ used >= 96
           b == used >= 90
           S == Ladder(<< <<a, High>>, <<b, Medium>> >>)
           pressure(severity) ==
             {Finding("memory.pressure", "memory.high-pressure", "", severity, "queue")}
<1>1. HighPressure(m) = IF S = Passed THEN {} ELSE pressure(S)
  BY DEF HighPressure
<1> HIDE DEF a, b
<1>2. /\ a => S = High
      /\ ~ a /\ b => S = Medium
      /\ ~ a /\ ~ b => S = Passed
  BY TwoRungs
<1> HIDE DEF S, pressure
<1>3. /\ a => HighPressure(m) = pressure(4)
      /\ ~ a /\ b => HighPressure(m) = pressure(3)
      /\ ~ a /\ ~ b => HighPressure(m) = {}
  BY <1>1, <1>2 DEF Passed, Medium, High
<1>4. QED
  BY <1>3 DEF a, b, pressure

LEMMA MemoryNoMilder ==
  ASSUME NEW a \in MemoryFacts, NEW b \in MemoryFacts,
         b = [a EXCEPT !.used = b.used, !.swapUsed = b.swapUsed],
         b.used >= a.used, b.swapUsed >= a.swapUsed
  PROVE  AtLeast(HighPressure(a), HighPressure(b)) /\ Graded(HighPressure(a))
<1>1. b.total = a.total /\ b.swapTotal = a.swapTotal
  BY DEF MemoryFacts
<1> DEFINE u == Share(a.used, a.total)
           v == Share(b.used, b.total)
           s == Share(a.swapUsed, a.swapTotal)
           t == Share(b.swapUsed, b.swapTotal)
<1>2. u \in Nat /\ v \in Nat /\ s \in Nat /\ t \in Nat /\ u <= v /\ s <= t
  BY <1>1, ShareGrows DEF MemoryFacts
<1> DEFINE pressure(severity) ==
             {Finding("memory.pressure", "memory.high-pressure", "", severity, "queue")}
           high(x, y) == (x >= 90 /\ y >= 50) \/ x >= 96
<1>3. /\ high(u, s) => HighPressure(a) = pressure(4)
      /\ ~ high(u, s) /\ u >= 90 => HighPressure(a) = pressure(3)
      /\ ~ high(u, s) /\ ~ u >= 90 => HighPressure(a) = {}
  BY PressureIs, Zenon
<1>4. /\ high(v, t) => HighPressure(b) = pressure(4)
      /\ ~ high(v, t) /\ v >= 90 => HighPressure(b) = pressure(3)
      /\ ~ high(v, t) /\ ~ v >= 90 => HighPressure(b) = {}
  BY PressureIs, Zenon
<1>5. ASSUME NEW n PROVE \A f \in pressure(n) : f.severity = n
  <2>1. Finding("memory.pressure", "memory.high-pressure", "", n, "queue").severity = n
    BY DEF Finding
  <2>2. QED
    BY <2>1
<1>6. ASSUME NEW n PROVE pressure(n) # {}
  OBVIOUS
<1> HIDE DEF u, v, s, t, pressure
<1>7. \/ HighPressure(a) = {}
      \/ HighPressure(a) = pressure(3) /\ HighPressure(b) \in {pressure(3), pressure(4)}
      \/ HighPressure(a) = pressure(4) /\ HighPressure(b) = pressure(4)
  BY <1>2, <1>3, <1>4
<1>8. QED
  BY <1>5, <1>6, <1>7 DEF AtLeast, Graded

-----------------------------------------------------------------------------
(* A drive that says worse of itself.                                       *)

LEMMA DrivesNoMilder ==
  ASSUME NEW a \in SUBSET DriveFacts, NEW b \in SUBSET DriveFacts, WorseDrives(a, b)
  PROVE  AtLeast(WindowsDrives(a), WindowsDrives(b))
<1> SUFFICES ASSUME NEW d \in a, NEW f \in DriveFinding(d.name, WindowsVerdict(d))
             PROVE  \E g \in WindowsDrives(b) : f.severity <= g.severity
  BY DEF WindowsDrives, AtLeast
<1>1. PICK e \in b :
        /\ e = [d EXCEPT !.health = e.health]
        /\ e = d \/ ({d.health, e.health} \subseteq DOMAIN HealthNo /\ HealthNo[d.health] <= HealthNo[e.health])
  BY DEF WorseDrives
<1>2. e.operational = d.operational
  BY <1>1 DEF DriveFacts
<1>3. /\ DOMAIN HealthNo = {"healthy", "warning", "unhealthy"}
      /\ HealthNo["healthy"] = 1 /\ HealthNo["warning"] = 2 /\ HealthNo["unhealthy"] = 3
  BY DEF HealthNo
<1>4. \A name : /\ \A h \in DriveFinding(name, "warning") : h.severity = 4
                /\ \A h \in DriveFinding(name, "failing") : h.severity = 5
                /\ DriveFinding(name, "warning") # {} /\ DriveFinding(name, "failing") # {}
                /\ DriveFinding(name, "healthy") = {} /\ DriveFinding(name, "unknown") = {}
  BY DEF DriveFinding, Finding, Critical, High
<1>5. \/ WindowsVerdict(e) = WindowsVerdict(d)
      \/ WindowsVerdict(d) = "healthy"
      \/ WindowsVerdict(d) = "warning" /\ WindowsVerdict(e) = "failing"
  <2>1. CASE e = d
    BY <2>1
  <2>2. CASE d.health = "healthy" /\ e.health \in {"healthy", "warning", "unhealthy"}
    BY <1>2, <2>2 DEF WindowsVerdict
  <2>3. CASE d.health = "warning" /\ e.health \in {"warning", "unhealthy"}
    BY <2>3 DEF WindowsVerdict
  <2>4. CASE d.health = "unhealthy" /\ e.health = "unhealthy"
    BY <2>4 DEF WindowsVerdict
  <2>5. QED
    BY <1>1, <1>3, <2>1, <2>2, <2>3, <2>4
<1>6. WindowsVerdict(d) \in {"warning", "failing"}
  BY <1>4 DEF WindowsVerdict
<1>7. PICK g \in DriveFinding(e.name, WindowsVerdict(e)) : TRUE
  BY <1>4, <1>5, <1>6
<1>8. f.severity <= g.severity
  BY <1>4, <1>5, <1>6, <1>7
<1>9. g \in WindowsDrives(b)
  BY <1>7 DEF WindowsDrives
<1>10. QED
  BY <1>8, <1>9

LEMMA DrivesGraded == ASSUME NEW a PROVE Graded(WindowsDrives(a)) /\ Graded(SmartDrives(a))
<1>1. ASSUME NEW name, NEW v, NEW f \in DriveFinding(name, v) PROVE f.severity \in 0 .. 5
  BY DEF DriveFinding, Finding, Critical, High
<1>2. QED
  BY <1>1 DEF WindowsDrives, SmartDrives, Graded

-----------------------------------------------------------------------------
(* A kernel that was replaced or is gone.                                   *)

\* No version is newer than itself, so what is newer than the running kernel
\* is not the kernel that was removed.
LEMMA NewerStays ==
  ASSUME NEW running \in Version, NEW old \in SUBSET Version, NEW new \in SUBSET Version,
         old \ {running} \subseteq new, NEW k \in old, NewerThan(k, running)
  PROVE  k \in new
<1>1. ~ NewerThan(running, running)
  BY DEF NewerThan, Version
<1>2. QED
  BY <1>1

Kernels(running, installed) ==
  IF installed = {} THEN {} ELSE KernelIssues(running, installed)

LEMMA KernelIs ==
  ASSUME NEW running, NEW installed, installed # {}
  PROVE  /\ running \notin installed => \E i \in Kernels(running, installed) : i.kind = "driver_mismatch"
         /\ running \in installed /\ (\E k \in installed : NewerThan(k, running)) =>
              \E i \in Kernels(running, installed) : i.kind = "reboot_required"
         /\ \A i \in Kernels(running, installed) :
              \/ i.kind = "driver_mismatch" /\ running \notin installed
              \/ i.kind = "reboot_required" /\ running \in installed /\ \E k \in installed : NewerThan(k, running)
<1> DEFINE newer == {k \in installed : NewerThan(k, running)}
           named == CHOOSE k \in newer : \A other \in newer : other.text <= k.text
           issue(device, kind) == [device |-> device, kind |-> kind]
<1>1. Kernels(running, installed) =
        IF running \notin installed THEN {issue(running.name, "driver_mismatch")}
        ELSE IF newer = {} THEN {} ELSE {issue(named.name, "reboot_required")}
  BY DEF Kernels, KernelIssues
<1>2. \A device, kind : issue(device, kind).kind = kind
  OBVIOUS
<1> HIDE DEF named, issue
<1>3. newer = {} <=> ~ \E k \in installed : NewerThan(k, running)
  OBVIOUS
<1>4. QED
  BY <1>1, <1>2, <1>3

LEMMA NvidiaKind ==
  ASSUME NEW module, NEW userspace, NEW i \in NvidiaIssues(module, userspace)
  PROVE  i.kind = "driver_mismatch"
<1>1. \/ NvidiaIssues(module, userspace) = {}
      \/ NvidiaIssues(module, userspace) =
           {[device |-> "NVIDIA graphics driver", kind |-> "driver_mismatch"]}
  BY ZenonT(20) DEF NvidiaIssues
<1>2. [device |-> "NVIDIA graphics driver", kind |-> "driver_mismatch"].kind = "driver_mismatch"
  OBVIOUS
<1>3. QED
  BY <1>1, <1>2

\* A running kernel without its modules outranks one to reboot out of, and
\* more kernels on the disk take neither back.
LEMMA DriversNoMilder ==
  ASSUME NEW a \in DriverFacts, NEW b \in DriverFacts, WorseKernel(a, b)
  PROVE  AtLeast(DeviceFindings(LinuxIssues(a)), DeviceFindings(LinuxIssues(b)))
<1>1. /\ b.running = a.running /\ b.module = a.module /\ b.userspace = a.userspace
      /\ a.running \in Version /\ a.installed \in SUBSET Version /\ b.installed \in SUBSET Version
  BY DEF WorseKernel, DriverFacts
<1>2. /\ a.installed # {} /\ a.installed \ {a.running} \subseteq b.installed
      /\ a.running \notin a.installed => a.running \notin b.installed
  BY DEF WorseKernel
<1> DEFINE old == Kernels(a.running, a.installed)
           new == Kernels(b.running, b.installed)
           nvidia == NvidiaIssues(a.module, a.userspace)
<1>3. LinuxIssues(a) = old \cup nvidia /\ LinuxIssues(b) = new \cup nvidia
  BY <1>1 DEF LinuxIssues, Kernels
<1>4. /\ DeviceSeverity["driver_mismatch"] = 4 /\ DeviceSeverity["reboot_required"] = 2
  BY DEF DeviceSeverity, High, Low
<1>5. ASSUME NEW i \in old
      PROVE  \E j \in new : DeviceSeverity[i.kind] <= DeviceSeverity[j.kind]
  <2>1. CASE a.running \notin a.installed
    <3>1. i.kind = "driver_mismatch"
      BY <1>2, <2>1, KernelIs
    <3>2. b.installed # {} /\ b.running \notin b.installed
      BY <1>1, <1>2, <2>1
    <3>3. PICK j \in new : j.kind = "driver_mismatch"
      BY <3>2, KernelIs
    <3>4. QED
      BY <1>4, <3>1, <3>3
  <2>2. CASE a.running \in a.installed
    <3>1. /\ i.kind = "reboot_required"
          /\ \E k \in a.installed : NewerThan(k, a.running)
      BY <1>2, <2>2, KernelIs
    <3>2. PICK k \in b.installed : NewerThan(k, b.running)
      BY <1>1, <1>2, <3>1, NewerStays
    <3>3. PICK j \in new : j.kind \in {"driver_mismatch", "reboot_required"}
      <4>1. b.installed # {}
        BY <3>2
      <4>2. CASE b.running \in b.installed
        BY <3>2, <4>1, <4>2, KernelIs
      <4>3. CASE b.running \notin b.installed
        BY <4>1, <4>3, KernelIs
      <4>4. QED
        BY <4>2, <4>3
    <3>4. QED
      BY <1>4, <3>1, <3>3
  <2>3. QED
    BY <2>1, <2>2
<1> HIDE DEF old, new, nvidia
<1>6. \A i : Finding("devices.health", DeviceId[i.kind], i.device, DeviceSeverity[i.kind], "queue").severity
               = DeviceSeverity[i.kind]
  BY DEF Finding
<1>7. ASSUME NEW i \in nvidia PROVE i.kind = "driver_mismatch"
  BY NvidiaKind DEF nvidia
<1>8. ASSUME NEW i \in old \cup nvidia
      PROVE  \E j \in new \cup nvidia : DeviceSeverity[i.kind] <= DeviceSeverity[j.kind]
  <2>1. CASE i \in old
    BY <1>5, <2>1
  <2>2. CASE i \in nvidia
    BY <1>4, <1>7, <2>2
  <2>3. QED
    BY <2>1, <2>2
<1>9. QED
  BY <1>3, <1>6, <1>8 DEF DeviceFindings, AtLeast

LEMMA DevicesGraded ==
  ASSUME NEW issues, \A i \in issues : i.kind \in DOMAIN DeviceSeverity
  PROVE  Graded(DeviceFindings(issues))
<1>1. ASSUME NEW kind \in DOMAIN DeviceSeverity PROVE DeviceSeverity[kind] \in 0 .. 5
  BY DEF DeviceSeverity, High, Medium, Low
<1>2. \A i : Finding("devices.health", DeviceId[i.kind], i.device, DeviceSeverity[i.kind], "queue").severity
               = DeviceSeverity[i.kind]
  BY DEF Finding
<1>3. QED
  BY <1>1, <1>2 DEF DeviceFindings, Graded

-----------------------------------------------------------------------------
(* More that a package manager says was altered.                            *)

LEMMA FilesNoMilder ==
  ASSUME NEW a \in PackageFacts, NEW b \in PackageFacts, WorseFiles(a, b)
  PROVE  AtLeast(FileFindings(FileReport(a)), FileFindings(FileReport(b)))
<1>1. b.tool = a.tool /\ b.ended = a.ended /\ a.says \subseteq b.says
  BY DEF WorseFiles, PackageFacts
<1>2. /\ PacmanFiles(a.says) \subseteq PacmanFiles(b.says)
      /\ DebsumsFiles(a.says) \subseteq DebsumsFiles(b.says)
      /\ RpmFiles(a.says) \subseteq RpmFiles(b.says)
      /\ RpmConfig(a.says) \subseteq RpmConfig(b.says)
  BY <1>1 DEF PacmanFiles, DebsumsFiles, RpmFiles, RpmConfig
<1>3. \A v, f, c : Report(v, f, c).verdict = v /\ Report(v, f, c).config = c
  BY DEF Report
<1>4. ASSUME NEW s, NEW t, s \subseteq t, Verdict(s) = "damaged" PROVE Verdict(t) = "damaged"
  BY <1>4 DEF Verdict
<1> DEFINE old == FileReport(a)
           new == FileReport(b)
<1>5. /\ old.verdict = "damaged" => new.verdict = "damaged"
      /\ old.verdict = "could not check" => new.verdict = "could not check"
      /\ old.config \subseteq new.config
  <2>1. CASE a.tool = "none" \/ a.ended \in {"stalled", "cancelled"}
    BY <1>1, <2>1 DEF FileReport
  <2>2. CASE a.tool = "rpm" /\ a.ended \notin {"stalled", "cancelled"}
    <3>1. /\ old = Report(Verdict(RpmFiles(a.says)), RpmFiles(a.says), RpmConfig(a.says))
          /\ new = Report(Verdict(RpmFiles(b.says)), RpmFiles(b.says), RpmConfig(b.says))
      BY <1>1, <2>2 DEF FileReport
    <3>2. /\ old.verdict = Verdict(RpmFiles(a.says)) /\ old.config = RpmConfig(a.says)
          /\ new.verdict = Verdict(RpmFiles(b.says)) /\ new.config = RpmConfig(b.says)
      BY <1>3, <3>1
    <3>3. Verdict(RpmFiles(a.says)) # "could not check"
      BY DEF Verdict
    <3>4. Verdict(RpmFiles(a.says)) = "damaged" => Verdict(RpmFiles(b.says)) = "damaged"
      BY <1>2, <1>4
    <3>5. QED
      BY <1>2, <3>2, <3>3, <3>4
  <2>3. CASE a.tool = "pacman" /\ a.ended \notin {"stalled", "cancelled"}
    <3>1. /\ old = Report(Verdict(PacmanFiles(a.says)), PacmanFiles(a.says), {})
          /\ new = Report(Verdict(PacmanFiles(b.says)), PacmanFiles(b.says), {})
      BY <1>1, <2>3 DEF FileReport
    <3>2. /\ old.verdict = Verdict(PacmanFiles(a.says)) /\ old.config = {}
          /\ new.verdict = Verdict(PacmanFiles(b.says)) /\ new.config = {}
      BY <1>3, <3>1
    <3>3. Verdict(PacmanFiles(a.says)) # "could not check"
      BY DEF Verdict
    <3>4. Verdict(PacmanFiles(a.says)) = "damaged" => Verdict(PacmanFiles(b.says)) = "damaged"
      BY <1>2, <1>4
    <3>5. QED
      BY <1>2, <3>2, <3>3, <3>4
  <2>4. CASE a.tool = "debsums" /\ a.ended \notin {"stalled", "cancelled"}
    <3>1. /\ old = Report(Verdict(DebsumsFiles(a.says)), DebsumsFiles(a.says), {})
          /\ new = Report(Verdict(DebsumsFiles(b.says)), DebsumsFiles(b.says), {})
      BY <1>1, <2>4 DEF FileReport
    <3>2. /\ old.verdict = Verdict(DebsumsFiles(a.says)) /\ old.config = {}
          /\ new.verdict = Verdict(DebsumsFiles(b.says)) /\ new.config = {}
      BY <1>3, <3>1
    <3>3. Verdict(DebsumsFiles(a.says)) # "could not check"
      BY DEF Verdict
    <3>4. Verdict(DebsumsFiles(a.says)) = "damaged" => Verdict(DebsumsFiles(b.says)) = "damaged"
      BY <1>2, <1>4
    <3>5. QED
      BY <1>2, <3>2, <3>3, <3>4
  <2>5. QED
    BY <2>1, <2>2, <2>3, <2>4 DEF PackageFacts
<1> HIDE DEF old, new
<1> DEFINE altered == AboutFiles("system.files-altered", High, "queue")
           unverified == AboutFiles("system.files-unverified", Info, "none")
           configured == AboutFiles("system.config-altered", Info, "none")
<1>6. altered.severity = 4 /\ unverified.severity = 1 /\ configured.severity = 1
  BY DEF AboutFiles, Finding, High, Info
<1>7. /\ new.verdict = "damaged" => altered \in FileFindings(new)
      /\ new.verdict = "could not check" => unverified \in FileFindings(new)
      /\ new.config # {} => configured \in FileFindings(new)
  BY DEF FileFindings
<1>8. ASSUME NEW f \in FileFindings(old)
      PROVE  \/ old.verdict = "damaged" /\ f = altered
             \/ old.verdict = "could not check" /\ f = unverified
             \/ old.config # {} /\ f = configured
  BY DEF FileFindings
<1> HIDE DEF altered, unverified, configured
<1>9. ASSUME NEW f \in FileFindings(old) PROVE \E g \in FileFindings(new) : f.severity <= g.severity
  <2>1. \E g \in FileFindings(new) : g = f
    BY <1>5, <1>7, <1>8
  <2>2. f.severity \in Int
    <3>1. f = altered \/ f = unverified \/ f = configured
      BY <1>8
    <3>2. altered.severity \in Int /\ unverified.severity \in Int /\ configured.severity \in Int
      BY <1>6
    <3>3. QED
      BY <3>1, <3>2
  <2>3. f.severity <= f.severity
    BY <2>2
  <2>4. QED
    BY <2>1, <2>3
<1>10. QED
  BY <1>9 DEF AtLeast, old, new

LEMMA FilesGraded == ASSUME NEW report PROVE Graded(FileFindings(report))
<1>1. \A id, v, t : AboutFiles(id, v, t).severity = v
  BY DEF AboutFiles, Finding
<1>2. QED
  BY <1>1 DEF FileFindings, Graded, High, Info

-----------------------------------------------------------------------------
(* Processes that take more.                                                *)

LEMMA AtLeastUnion ==
  ASSUME NEW F, NEW G, NEW H, NEW I, AtLeast(F, G), AtLeast(H, I)
  PROVE  AtLeast(F \cup H, G \cup I)
BY DEF AtLeast

\* There is a largest: the fewest are above it, so none is.
LEMMA LargestIs ==
  ASSUME NEW P \in SUBSET ProcessFacts, IsFiniteSet(P), P # {}
  PROVE  Largest(P) \in P /\ \A q \in P : q.memory <= Largest(P).memory
<1> DEFINE above(p) == {q \in P : p.memory < q.memory \/ (p.memory = q.memory /\ p.pid < q.pid)}
           T == {Cardinality(above(p)) : p \in P}
<1>1. \A p \in P : p.memory \in Nat /\ p.pid \in Nat
  BY DEF ProcessFacts
<1>2. ASSUME NEW p \in P PROVE IsFiniteSet(above(p)) /\ Cardinality(above(p)) \in Nat
  <2>1. above(p) \in SUBSET P
    OBVIOUS
  <2>2. IsFiniteSet(above(p))
    BY <2>1, FS_Subset
  <2>3. QED
    BY <2>2, FS_CardinalityType
<1>3. T \subseteq Nat /\ T # {}
  BY <1>2
<1>4. PICK n \in T : \A k \in T : ~ (<<k, n>> \in OpToRel(<, Nat))
  BY <1>3, NatLessThanWellFounded, WFMin
<1>5. PICK p \in P : n = Cardinality(above(p))
  BY <1>4
<1>6. above(p) = {}
  <2> SUFFICES ASSUME NEW q \in above(p) PROVE FALSE
    OBVIOUS
  <2>1. above(q) \in SUBSET above(p)
    BY <1>1
  <2>2. q \notin above(q) /\ q \in P
    BY <1>1
  <2>3. above(q) # above(p)
    BY <2>2
  <2>4. Cardinality(above(q)) <= Cardinality(above(p)) /\ Cardinality(above(p)) # Cardinality(above(q))
    BY <1>2, <2>1, <2>3, FS_Subset
  <2>5. Cardinality(above(q)) \in Nat /\ Cardinality(above(p)) \in Nat /\ Cardinality(above(q)) \in T
    BY <1>2, <2>2
  <2>6. Cardinality(above(q)) < n
    BY <1>5, <2>4, <2>5
  <2>7. QED
    BY <1>4, <1>5, <2>5, <2>6 DEF OpToRel
<1>7. \A q \in P : q.memory < p.memory \/ (q.memory = p.memory /\ q.pid <= p.pid)
  BY <1>1, <1>6
<1>8. /\ Largest(P) \in P
      /\ \A q \in P : q.memory < Largest(P).memory \/ (q.memory = Largest(P).memory /\ q.pid <= Largest(P).pid)
  BY <1>7 DEF Largest
<1>9. QED
  BY <1>1, <1>8

LEMMA HogIs ==
  ASSUME NEW P, P # {}
  PROVE  LET worst == Largest(P)
             hog(severity) ==
               {Finding("system.processes", "process.memory-hog", worst.name, severity, "queue")}
         IN  /\ worst.memory >= 75 => MemoryHog(P) = hog(3)
             /\ ~ worst.memory >= 75 /\ worst.memory >= 40 => MemoryHog(P) = hog(2)
             /\ ~ worst.memory >= 75 /\ ~ worst.memory >= 40 => MemoryHog(P) = {}
<1> DEFINE worst == Largest(P)
           a == worst.memory >= 75
           b == worst.memory >= 40
           S == Ladder(<< <<a, Medium>>, <<b, Low>> >>)
           hog(severity) ==
             {Finding("system.processes", "process.memory-hog", worst.name, severity, "queue")}
<1>1. MemoryHog(P) = IF S = Passed THEN {} ELSE hog(S)
  BY DEF MemoryHog
<1> HIDE DEF a, b
<1>2. /\ a => S = Medium
      /\ ~ a /\ b => S = Low
      /\ ~ a /\ ~ b => S = Passed
  BY TwoRungs
<1> HIDE DEF S, hog
<1>3. /\ a => MemoryHog(P) = hog(3)
      /\ ~ a /\ b => MemoryHog(P) = hog(2)
      /\ ~ a /\ ~ b => MemoryHog(P) = {}
  BY <1>1, <1>2 DEF Passed, Medium, Low
<1>4. QED
  BY <1>3 DEF a, b, hog

LEMMA SoleSeverity ==
  ASSUME NEW probe, NEW id, NEW subject, NEW n \in 0 .. 5, NEW triage
  PROVE  /\ \A f \in {Finding(probe, id, subject, n, triage)} : f.severity = n
         /\ \E f \in {Finding(probe, id, subject, n, triage)} : f.severity = n
<1>1. Finding(probe, id, subject, n, triage).severity = n
  BY DEF Finding
<1>2. QED
  BY <1>1

LEMMA HogsNoMilder ==
  ASSUME NEW a \in SUBSET ProcessFacts, NEW b \in SUBSET ProcessFacts, IsFiniteSet(a), IsFiniteSet(b),
         WorseProcesses(a, b)
  PROVE  AtLeast(MemoryHog(a), MemoryHog(b)) /\ Graded(MemoryHog(a))
<1>1. CASE a = {}
  <2>1. MemoryHog(a) = {}
    BY <1>1 DEF MemoryHog
  <2>2. QED
    BY <2>1 DEF AtLeast, Graded
<1>2. CASE a # {}
  <2>1. Largest(a) \in a
    BY <1>2, LargestIs
  <2>2. PICK q \in b : q.memory >= Largest(a).memory
    BY <2>1 DEF WorseProcesses
  <2>3. Largest(b) \in b /\ q.memory <= Largest(b).memory
    BY <2>2, LargestIs
  <2> DEFINE m == Largest(a).memory
             n == Largest(b).memory
             old(s) == {Finding("system.processes", "process.memory-hog", Largest(a).name, s, "queue")}
             new(s) == {Finding("system.processes", "process.memory-hog", Largest(b).name, s, "queue")}
  <2>4. m \in Nat /\ n \in Nat /\ m <= n
    BY <2>1, <2>2, <2>3 DEF ProcessFacts
  <2>5. /\ m >= 75 => MemoryHog(a) = old(3)
        /\ ~ m >= 75 /\ m >= 40 => MemoryHog(a) = old(2)
        /\ ~ m >= 75 /\ ~ m >= 40 => MemoryHog(a) = {}
    BY <1>2, HogIs, Zenon
  <2>6. b # {}
    BY <2>3
  <2>7. /\ n >= 75 => MemoryHog(b) = new(3)
        /\ ~ n >= 75 /\ n >= 40 => MemoryHog(b) = new(2)
        /\ ~ n >= 75 /\ ~ n >= 40 => MemoryHog(b) = {}
    BY <2>6, HogIs, Zenon
  <2>8. /\ \A f \in old(2) : f.severity = 2
        /\ \A f \in old(3) : f.severity = 3
        /\ \E g \in new(2) : g.severity = 2
        /\ \E g \in new(3) : g.severity = 3
    BY SoleSeverity
  <2> HIDE DEF m, n, old, new
  <2>9. \/ MemoryHog(a) = {}
        \/ MemoryHog(a) = old(2) /\ MemoryHog(b) \in {new(2), new(3)}
        \/ MemoryHog(a) = old(3) /\ MemoryHog(b) = new(3)
    BY <2>4, <2>5, <2>7
  <2>10. QED
    BY <2>8, <2>9 DEF AtLeast, Graded
<1>3. QED
  BY <1>1, <1>2

LEMMA ZombiesAre ==
  ASSUME NEW P
  PROVE  LET zombies == Cardinality({p \in P : p.zombie})
             buildup(severity) ==
               {Finding("system.processes", "process.zombie-buildup", "", severity, "queue")}
         IN  /\ zombies >= 5 * ZOMBIE_THRESHOLD => ZombieBuildup(P) = buildup(3)
             /\ ~ zombies >= 5 * ZOMBIE_THRESHOLD /\ zombies >= ZOMBIE_THRESHOLD => ZombieBuildup(P) = buildup(2)
             /\ ~ zombies >= 5 * ZOMBIE_THRESHOLD /\ ~ zombies >= ZOMBIE_THRESHOLD => ZombieBuildup(P) = {}
<1> DEFINE zombies == Cardinality({p \in P : p.zombie})
           a == zombies >= 5 * ZOMBIE_THRESHOLD
           b == zombies >= ZOMBIE_THRESHOLD
           S == Ladder(<< <<a, Medium>>, <<b, Low>> >>)
           buildup(severity) ==
             {Finding("system.processes", "process.zombie-buildup", "", severity, "queue")}
<1>1. ZombieBuildup(P) = IF S = Passed THEN {} ELSE buildup(S)
  BY DEF ZombieBuildup
<1> HIDE DEF a, b
<1>2. /\ a => S = Medium
      /\ ~ a /\ b => S = Low
      /\ ~ a /\ ~ b => S = Passed
  BY TwoRungs
<1> HIDE DEF S, buildup
<1>3. /\ a => ZombieBuildup(P) = buildup(3)
      /\ ~ a /\ b => ZombieBuildup(P) = buildup(2)
      /\ ~ a /\ ~ b => ZombieBuildup(P) = {}
  BY <1>1, <1>2 DEF Passed, Medium, Low
<1>4. QED
  BY <1>3 DEF a, b, buildup

\* What maps into a finite set one to one is no more than it has.
LEMMA NoFewer ==
  ASSUME NEW S, NEW T, IsFiniteSet(T), NEW f \in [S -> T], \A x, y \in S : f[x] = f[y] => x = y
  PROVE  IsFiniteSet(S) /\ Cardinality(S) \in Nat /\ Cardinality(T) \in Nat /\ Cardinality(S) <= Cardinality(T)
<1>1. f \in Injection(S, T)
  BY DEF Injection, IsInjective
<1>2. IsFiniteSet(S) /\ Cardinality(S) <= Cardinality(T)
  BY <1>1, FS_Injection
<1>3. QED
  BY <1>2, FS_CardinalityType

LEMMA ZombiesNoMilder ==
  ASSUME NEW a \in SUBSET ProcessFacts, NEW b \in SUBSET ProcessFacts, IsFiniteSet(b),
         \A s, t \in a : s.pid = t.pid => s = t, WorseProcesses(a, b)
  PROVE  AtLeast(ZombieBuildup(a), ZombieBuildup(b)) /\ Graded(ZombieBuildup(a))
<1> DEFINE A == {p \in a : p.zombie}
           B == {q \in b : q.zombie}
           f == [p \in A |-> CHOOSE q \in B : q.pid = p.pid]
           m == Cardinality(A)
           n == Cardinality(B)
           buildup(s) == {Finding("system.processes", "process.zombie-buildup", "", s, "queue")}
<1>1. ASSUME NEW p \in A PROVE \E q \in B : q.pid = p.pid
  <2>1. PICK q \in b : q = [p EXCEPT !.memory = q.memory, !.cpu = q.cpu, !.minutes = q.minutes]
    BY DEF WorseProcesses
  <2>2. p \in ProcessFacts
    OBVIOUS
  <2>3. q.pid = p.pid /\ q.zombie = p.zombie
    BY <2>1, <2>2 DEF ProcessFacts
  <2>4. QED
    BY <2>3
<1>2. \A p \in A : f[p] \in B /\ f[p].pid = p.pid
  BY <1>1
<1>3. f \in [A -> B] /\ \A x, y \in A : f[x] = f[y] => x = y
  <2>1. f \in [A -> B]
    BY <1>1
  <2> HIDE DEF f
  <2>2. \A x, y \in A : f[x] = f[y] => x.pid = y.pid
    BY <1>2
  <2>3. \A x, y \in A : x.pid = y.pid => x = y
    OBVIOUS
  <2>4. QED
    BY <2>1, <2>2, <2>3
<1>4. IsFiniteSet(B)
  BY FS_Subset
<1> HIDE DEF f, A, B
<1>5. m \in Nat /\ n \in Nat /\ m <= n
  BY <1>3, <1>4, NoFewer
<1>6. ZOMBIE_THRESHOLD \in Nat /\ ZOMBIE_THRESHOLD # 0
  BY JudgingAssumption
<1> HIDE DEF m, n
<1>7. /\ m >= 5 * ZOMBIE_THRESHOLD => ZombieBuildup(a) = buildup(3)
      /\ ~ m >= 5 * ZOMBIE_THRESHOLD /\ m >= ZOMBIE_THRESHOLD => ZombieBuildup(a) = buildup(2)
      /\ ~ m >= 5 * ZOMBIE_THRESHOLD /\ ~ m >= ZOMBIE_THRESHOLD => ZombieBuildup(a) = {}
  BY ZombiesAre, Zenon DEF m, A
<1>8. /\ n >= 5 * ZOMBIE_THRESHOLD => ZombieBuildup(b) = buildup(3)
      /\ ~ n >= 5 * ZOMBIE_THRESHOLD /\ n >= ZOMBIE_THRESHOLD => ZombieBuildup(b) = buildup(2)
      /\ ~ n >= 5 * ZOMBIE_THRESHOLD /\ ~ n >= ZOMBIE_THRESHOLD => ZombieBuildup(b) = {}
  BY ZombiesAre, Zenon DEF n, B
<1>9. /\ \A g \in buildup(2) : g.severity = 2
      /\ \A g \in buildup(3) : g.severity = 3
      /\ \E g \in buildup(2) : g.severity = 2
      /\ \E g \in buildup(3) : g.severity = 3
  <2>1. ASSUME NEW s PROVE Finding("system.processes", "process.zombie-buildup", "", s, "queue").severity = s
    BY DEF Finding
  <2>2. QED
    BY <2>1
<1> HIDE DEF buildup
<1>10. \/ ZombieBuildup(a) = {}
       \/ ZombieBuildup(a) = buildup(2) /\ ZombieBuildup(b) \in {buildup(2), buildup(3)}
       \/ ZombieBuildup(a) = buildup(3) /\ ZombieBuildup(b) = buildup(3)
  BY <1>5, <1>6, <1>7, <1>8
<1>11. QED
  BY <1>9, <1>10 DEF AtLeast, Graded

LEMMA StuckNoMilder ==
  ASSUME NEW a \in SUBSET ProcessFacts, NEW b \in SUBSET ProcessFacts, WorseProcesses(a, b)
  PROVE  AtLeast(StuckProcesses(a), StuckProcesses(b)) /\ Graded(StuckProcesses(a))
<1> DEFINE stuck(name) == Finding("system.processes", "process.sustained-high-cpu", name, Low, "queue")
<1>1. \A name : stuck(name).severity = 2
  BY DEF Finding, Low
<1>2. \A P : \A f \in StuckProcesses(P) : \E p \in P : p.cpu >= 90 /\ p.minutes >= 10 /\ f = stuck(p.name)
  BY DEF StuckProcesses
<1>3. \A P : \A p \in P : p.cpu >= 90 /\ p.minutes >= 10 => stuck(p.name) \in StuckProcesses(P)
  BY DEF StuckProcesses
<1> HIDE DEF stuck
<1>4. ASSUME NEW f \in StuckProcesses(a)
      PROVE  f.severity = 2 /\ \E g \in StuckProcesses(b) : g.severity = 2
  <2>1. PICK p \in a : p.cpu >= 90 /\ p.minutes >= 10 /\ f = stuck(p.name)
    BY <1>2
  <2>2. PICK q \in b : q.cpu >= p.cpu /\ q.minutes >= p.minutes
    BY DEF WorseProcesses
  <2>3. q.cpu >= 90 /\ q.minutes >= 10
    BY <2>1, <2>2 DEF ProcessFacts
  <2>4. stuck(q.name) \in StuckProcesses(b)
    BY <1>3, <2>3
  <2>5. QED
    BY <1>1, <2>1, <2>4
<1>5. QED
  BY <1>4 DEF AtLeast, Graded

LEMMA ProcessesNoMilder ==
  ASSUME NEW a \in SUBSET ProcessFacts, NEW b \in SUBSET ProcessFacts, IsFiniteSet(a), IsFiniteSet(b),
         \A s, t \in a : s.pid = t.pid => s = t, WorseProcesses(a, b)
  PROVE  AtLeast(BadProcesses(a), BadProcesses(b))
BY HogsNoMilder, ZombiesNoMilder, StuckNoMilder, AtLeastUnion DEF BadProcesses

-----------------------------------------------------------------------------
(* More that starts with the machine.                                       *)

Apart(entries) == \A s, t \in entries : s.id = t.id => s = t

LEMMA ListedAre ==
  ASSUME NEW m \in StartupFacts, IsFiniteSet(m.entries), Apart(m.entries)
  PROVE  /\ \A x \in Listed(m) : \E e \in m.entries :
              e.command /\ x = IF m.windows THEN e ELSE [e EXCEPT !.stated = FALSE]
         /\ \A e \in m.entries :
              e.command => (IF m.windows THEN e ELSE [e EXCEPT !.stated = FALSE]) \in Listed(m)
         /\ Apart(Listed(m)) /\ IsFiniteSet(Listed(m))
<1>1. \A x \in Listed(m) : \E e \in m.entries :
        e.command /\ x = IF m.windows THEN e ELSE [e EXCEPT !.stated = FALSE]
  BY DEF Listed, WindowsListed, LinuxListed
<1>2. \A e \in m.entries :
        e.command => (IF m.windows THEN e ELSE [e EXCEPT !.stated = FALSE]) \in Listed(m)
  BY DEF Listed, WindowsListed, LinuxListed
<1>3. \A e \in m.entries : [e EXCEPT !.stated = FALSE].id = e.id
  BY DEF StartupFacts, EntryFacts
<1>4. Apart(Listed(m))
  <2> SUFFICES ASSUME NEW x \in Listed(m), NEW y \in Listed(m), x.id = y.id PROVE x = y
    BY DEF Apart
  <2>1. PICK e \in m.entries : x = IF m.windows THEN e ELSE [e EXCEPT !.stated = FALSE]
    BY <1>1
  <2>2. PICK f \in m.entries : y = IF m.windows THEN f ELSE [f EXCEPT !.stated = FALSE]
    BY <1>1
  <2>3. x.id = e.id /\ y.id = f.id
    BY <1>3, <2>1, <2>2
  <2>4. e = f
    BY <2>3 DEF Apart
  <2>5. QED
    BY <2>1, <2>2, <2>4
<1> DEFINE f == [x \in Listed(m) |-> CHOOSE e \in m.entries : e.id = x.id]
<1>5. \A x \in Listed(m) : \E e \in m.entries : e.id = x.id
  BY <1>1, <1>3
<1>6. \A x \in Listed(m) : f[x] \in m.entries /\ f[x].id = x.id
  BY <1>5
<1>7. f \in [Listed(m) -> m.entries]
  BY <1>6
<1> HIDE DEF f
<1>8. \A x, y \in Listed(m) : f[x] = f[y] => x = y
  BY <1>4, <1>6 DEF Apart
<1>9. IsFiniteSet(Listed(m))
  BY <1>7, <1>8, NoFewer
<1>10. QED
  BY <1>1, <1>2, <1>4, <1>9

\* The file gone, moved to a temporary place or encoded: no concern goes away.
LEMMA ConcernsGrow ==
  ASSUME NEW e \in EntryFacts, NEW f \in EntryFacts,
         f = [e EXCEPT !.there = f.there, !.temporary = f.temporary, !.encoded = f.encoded],
         f.there => e.there, e.temporary => f.temporary, e.encoded => f.encoded
  PROVE  Concerns(e) \subseteq Concerns(f)
<1>1. /\ f.path = e.path /\ f.marked = e.marked /\ f.stated = e.stated /\ f.name = e.name
      /\ f.quoted = e.quoted /\ f.exe = e.exe /\ f.spaces = e.spaces
  BY DEF EntryFacts
<1>2. ReadRight(f) <=> ReadRight(e)
  BY <1>1 DEF ReadRight, WholeProgram, Expanded
<1>3. ProgramExists(e) = "no" => ProgramExists(f) = "no"
  BY <1>1, <1>2 DEF ProgramExists
<1>4. QED
  BY <1>3 DEF Concerns

LEMMA ListedGrow ==
  ASSUME NEW a \in StartupFacts, NEW b \in StartupFacts, WorseStartup(a, b),
         IsFiniteSet(a.entries), Apart(a.entries), IsFiniteSet(b.entries), Apart(b.entries),
         NEW x \in Listed(a)
  PROVE  \E y \in Listed(b) : y.id = x.id /\ Concerns(x) \subseteq Concerns(y)
<1>1. PICK e \in a.entries : e.command /\ x = IF a.windows THEN e ELSE [e EXCEPT !.stated = FALSE]
  BY ListedAre
<1>2. PICK f \in b.entries :
        /\ f = [e EXCEPT !.there = f.there, !.temporary = f.temporary, !.encoded = f.encoded]
        /\ (f.there => e.there) /\ (e.temporary => f.temporary) /\ (e.encoded => f.encoded)
  BY DEF WorseStartup
<1>3. e \in EntryFacts /\ f \in EntryFacts
  BY DEF StartupFacts
<1>4. f.command = e.command /\ f.id = e.id /\ a.windows = b.windows
  BY <1>2, <1>3 DEF EntryFacts, WorseStartup
<1>5. CASE a.windows
  <2>1. x = e /\ f \in Listed(b)
    BY <1>1, <1>4, <1>5, ListedAre
  <2>2. QED
    BY <1>2, <1>3, <1>4, <2>1, ConcernsGrow
<1>6. CASE ~ a.windows
  <2> DEFINE g == [e EXCEPT !.stated = FALSE]
             h == [f EXCEPT !.stated = FALSE]
  <2>1. x = g /\ h \in Listed(b)
    BY <1>1, <1>4, <1>6, ListedAre
  <2>2. g \in EntryFacts /\ h \in EntryFacts
    BY <1>3 DEF EntryFacts
  <2>3. /\ h.there = f.there /\ h.temporary = f.temporary /\ h.encoded = f.encoded
        /\ g.there = e.there /\ g.temporary = e.temporary /\ g.encoded = e.encoded
        /\ g.id = e.id /\ h.id = f.id
    BY <1>3 DEF EntryFacts
  <2>4. h = [g EXCEPT !.there = h.there, !.temporary = h.temporary, !.encoded = h.encoded]
    BY <1>2, <1>3, <2>3 DEF EntryFacts
  <2> HIDE DEF g, h
  <2>5. Concerns(g) \subseteq Concerns(h)
    BY <1>2, <2>2, <2>3, <2>4, ConcernsGrow
  <2>6. QED
    BY <1>4, <2>1, <2>3, <2>5
<1>7. QED
  BY <1>5, <1>6

LEMMA ListedNoFewer ==
  ASSUME NEW a \in StartupFacts, NEW b \in StartupFacts, WorseStartup(a, b),
         IsFiniteSet(a.entries), Apart(a.entries), IsFiniteSet(b.entries), Apart(b.entries)
  PROVE  /\ Cardinality(Listed(a)) \in Nat /\ Cardinality(Listed(b)) \in Nat
         /\ Cardinality(Listed(a)) <= Cardinality(Listed(b))
<1> DEFINE f == [x \in Listed(a) |-> CHOOSE y \in Listed(b) : y.id = x.id]
<1>1. \A x \in Listed(a) : f[x] \in Listed(b) /\ f[x].id = x.id
  BY ListedGrow
<1>2. f \in [Listed(a) -> Listed(b)]
  BY <1>1
<1>3. Apart(Listed(a)) /\ IsFiniteSet(Listed(b))
  BY ListedAre
<1> HIDE DEF f
<1>4. \A x, y \in Listed(a) : f[x] = f[y] => x = y
  BY <1>1, <1>3 DEF Apart
<1>5. QED
  BY <1>2, <1>3, <1>4, NoFewer

LEMMA StartupNoMilder ==
  ASSUME NEW a \in StartupFacts, NEW b \in StartupFacts, WorseStartup(a, b),
         IsFiniteSet(a.entries), Apart(a.entries), IsFiniteSet(b.entries), Apart(b.entries)
  PROVE  StartupFindings(a) \subseteq StartupFindings(b)
<1> DEFINE any(m, c) == \E e \in Listed(m) : c \in Concerns(e)
<1>1. Preloaded(a) => Preloaded(b)
  BY DEF Preloaded, WorseStartup
<1>2. ASSUME NEW c, any(a, c) PROVE any(b, c)
  BY <1>2, ListedGrow
<1>3. Cardinality(Listed(a)) >= CROWDED => Cardinality(Listed(b)) >= CROWDED
  BY ListedNoFewer, JudgingAssumption
<1>4. \A m : StartupFindings(m) =
        (IF Preloaded(m) THEN {AboutStartup("startup.library-preload", "/etc/ld.so.preload", High, "queue")} ELSE {})
          \cup (IF any(m, "encoded") THEN {AboutStartup("startup.encoded-command", "", High, "queue")} ELSE {})
          \cup (IF any(m, "temporary") THEN {AboutStartup("startup.temporary-location", "", Medium, "queue")} ELSE {})
          \cup (IF any(m, "missing") THEN {AboutStartup("startup.points-at-nothing", "", Low, "queue")} ELSE {})
          \cup (IF Cardinality(Listed(m)) >= CROWDED THEN {AboutStartup("startup.crowded", "", Info, "none")} ELSE {})
  BY Zenon DEF StartupFindings
<1> HIDE DEF any
<1>5. QED
  BY <1>1, <1>2, <1>3, <1>4

LEMMA StartupGraded == ASSUME NEW m PROVE Graded(StartupFindings(m))
<1>1. ASSUME NEW id, NEW subject, NEW severity, NEW triage
      PROVE  AboutStartup(id, subject, severity, triage).severity = severity
  BY DEF AboutStartup, Finding
<1>2. ASSUME NEW f \in StartupFindings(m) PROVE f.severity \in {High, Medium, Low, Info}
  <2>1. \E id, subject, triage : \E severity \in {High, Medium, Low, Info} :
          f = AboutStartup(id, subject, severity, triage)
    BY DEF StartupFindings
  <2>2. QED
    BY <1>1, <2>1
<1>3. QED
  BY <1>2 DEF Graded, High, Medium, Low, Info

-----------------------------------------------------------------------------
(* More in the log.                                                         *)

\* The records of some runs, one by one.
Cells(log, runs) == UNION {{i} \X (1 .. log[i].count) : i \in runs}

LEMMA ACell ==
  ASSUME NEW log, NEW runs, NEW c
  PROVE  c \in Cells(log, runs) <=> \E i \in runs : \E k \in 1 .. log[i].count : c = <<i, k>>
BY DEF Cells

LEMMA CellsOfOne ==
  ASSUME NEW log, NEW i, log[i].count \in Nat
  PROVE  /\ IsFiniteSet({i} \X (1 .. log[i].count))
         /\ Cardinality({i} \X (1 .. log[i].count)) = log[i].count
<1> DEFINE n == log[i].count
<1>1. IsFiniteSet({i}) /\ Cardinality({i}) = 1
  BY FS_Singleton
<1>2. IsFiniteSet(1 .. n) /\ Cardinality(1 .. n) = n
  <2>1. 1 \in Int /\ n \in Int
    OBVIOUS
  <2>2. IsFiniteSet(1 .. n) /\ Cardinality(1 .. n) = IF 1 > n THEN 0 ELSE n - 1 + 1
    BY <2>1, FS_Interval
  <2>3. QED
    BY <2>2
<1>3. /\ IsFiniteSet({i} \X (1 .. n))
      /\ Cardinality({i} \X (1 .. n)) = Cardinality({i}) * Cardinality(1 .. n)
  BY <1>1, <1>2, FS_Product
<1>4. QED
  BY <1>1, <1>2, <1>3

LEMMA CellsAreFinite ==
  ASSUME NEW log, NEW runs, IsFiniteSet(runs), \A i \in runs : log[i].count \in Nat
  PROVE  IsFiniteSet(Cells(log, runs)) /\ Records(log, runs) = Cardinality(Cells(log, runs))
<1> DEFINE f == [i \in runs |-> {i} \X (1 .. log[i].count)]
           family == {{i} \X (1 .. log[i].count) : i \in runs}
<1>1. f \in Surjection(runs, family)
  BY DEF Surjection
<1>2. IsFiniteSet(family)
  BY <1>1, FS_Surjection
<1>3. \A T \in family : IsFiniteSet(T)
  BY CellsOfOne
<1>4. IsFiniteSet(UNION family)
  BY <1>2, <1>3, FS_UNION
<1>5. QED
  BY <1>4 DEF Cells, Records

\* Runs that are in both logs and as long, and perhaps others: no fewer records.
LEMMA RecordsGrow ==
  ASSUME NEW l, NEW m, NEW A, NEW B, IsFiniteSet(B), A \subseteq B,
         \A i \in B : m[i].count \in Nat, \A i \in A : l[i].count = m[i].count
  PROVE  /\ Records(l, A) \in Nat /\ Records(m, B) \in Nat
         /\ Records(l, A) <= Records(m, B)
<1>1. IsFiniteSet(A)
  BY FS_Subset
<1>2. /\ IsFiniteSet(Cells(l, A)) /\ Records(l, A) = Cardinality(Cells(l, A))
      /\ IsFiniteSet(Cells(m, B)) /\ Records(m, B) = Cardinality(Cells(m, B))
  BY <1>1, CellsAreFinite
<1>3. Cells(l, A) \in SUBSET Cells(m, B)
  <2>1. SUFFICES ASSUME NEW c \in Cells(l, A) PROVE c \in Cells(m, B)
    OBVIOUS
  <2>2. PICK i \in A : \E k \in 1 .. l[i].count : c = <<i, k>>
    BY ACell
  <2>3. i \in B /\ \E k \in 1 .. m[i].count : c = <<i, k>>
    BY <2>2
  <2>4. QED
    BY <2>3, ACell
<1>4. Cardinality(Cells(l, A)) <= Cardinality(Cells(m, B))
  BY <1>2, <1>3, FS_Subset
<1>5. QED
  BY <1>2, <1>4, FS_CardinalityType

LEMMA RunAndTheRest ==
  ASSUME NEW log, NEW B, IsFiniteSet(B), \A j \in B : log[j].count \in Nat, NEW i \in B
  PROVE  log[i].count + Records(log, B \ {i}) <= Records(log, B)
<1> DEFINE one == {i} \X (1 .. log[i].count)
           others == Cells(log, B \ {i})
<1>1. IsFiniteSet(one) /\ Cardinality(one) = log[i].count
  BY CellsOfOne
<1>2. IsFiniteSet(B \ {i})
  BY FS_Difference
<1>3. /\ IsFiniteSet(others) /\ Records(log, B \ {i}) = Cardinality(others)
      /\ IsFiniteSet(Cells(log, B)) /\ Records(log, B) = Cardinality(Cells(log, B))
  BY <1>2, CellsAreFinite
<1>4. one \cap others = {}
  <2>1. SUFFICES ASSUME NEW c \in one, c \in others PROVE FALSE
    OBVIOUS
  <2>2. PICK k \in 1 .. log[i].count : c = <<i, k>>
    BY <2>1
  <2>3. PICK j \in B \ {i} : \E h \in 1 .. log[j].count : c = <<j, h>>
    BY <2>1, ACell
  <2>4. QED
    BY <2>2, <2>3
<1>5. one \cup others \in SUBSET Cells(log, B)
  <2>1. one \subseteq Cells(log, B)
    BY DEF Cells
  <2>2. others \subseteq Cells(log, B)
    BY DEF Cells
  <2>3. QED
    BY <2>1, <2>2
<1> HIDE DEF one, others
<1>6. Cardinality(one \cup others) = Cardinality(one) + Cardinality(others)
  <2>1. Cardinality(one \cup others) = Cardinality(one) + Cardinality(others) - Cardinality(one \cap others)
    BY <1>1, <1>3, FS_Union
  <2>2. Cardinality(one \cap others) = 0
    BY <1>4, FS_EmptySet
  <2>3. Cardinality(one) \in Nat /\ Cardinality(others) \in Nat
    BY <1>1, <1>3, FS_CardinalityType
  <2>4. QED
    BY <2>1, <2>2, <2>3
<1>7. Cardinality(one \cup others) <= Cardinality(Cells(log, B))
  BY <1>3, <1>5, FS_Subset
<1>8. QED
  BY <1>1, <1>3, <1>6, <1>7

LEMMA CountsAre ==
  ASSUME NEW m \in LogFacts
  PROVE  /\ DOMAIN m.log = 1 .. Len(m.log) /\ Len(m.log) \in Nat
         /\ \A j \in DOMAIN m.log : m.log[j].count \in Nat
<1> DEFINE log == m.log
           Several == [record : LogRecord, count : Nat]
<1>1. log \in Seq(Several)
  BY DEF LogFacts
<1> HIDE DEF log, Several
<1>2. DOMAIN log = 1 .. Len(log) /\ Len(log) \in Nat
  BY <1>1
<1>3. \A j \in DOMAIN log : log[j] \in Several
  BY <1>1, <1>2
<1>4. \A j \in DOMAIN log : log[j].count \in Nat
  BY <1>3 DEF Several
<1>5. QED
  BY <1>2, <1>4 DEF log

\* A log that holds no more than what is read of one is read whole.
LEMMA ReadWhole ==
  ASSUME NEW m \in LogFacts, Records(m.log, DOMAIN m.log) <= MAX_ENTRIES, NEW i \in DOMAIN m.log
  PROVE  ReadCount(m.log, i) = m.log[i].count
<1> DEFINE log == m.log
           B == DOMAIN log
           later == i + 1 .. Len(log)
<1>2. B = 1 .. Len(log) /\ Len(log) \in Nat /\ \A j \in B : log[j].count \in Nat
  BY CountsAre
<1>3. IsFiniteSet(B)
  BY <1>2, FS_Interval
<1>4. i \in B /\ later \subseteq B \ {i}
  BY <1>2
<1>5. IsFiniteSet(B \ {i})
  BY <1>3, FS_Difference
<1> HIDE DEF log, B, later
<1>6. log[i].count + Records(log, B \ {i}) <= Records(log, B)
  BY <1>2, <1>3, <1>4, RunAndTheRest
<1>7. /\ Records(log, later) \in Nat /\ Records(log, B \ {i}) \in Nat
      /\ Records(log, later) <= Records(log, B \ {i})
  BY <1>2, <1>4, <1>5, RecordsGrow
<1>8. Records(log, B) \in Nat
  BY <1>2, <1>3, RecordsGrow
<1>9. Records(log, B) <= MAX_ENTRIES
  BY DEF log, B
<1> DEFINE n == log[i].count
           r == MAX_ENTRIES - Records(log, later)
<1>10. n \in Nat /\ r \in Int /\ n <= r
  BY <1>2, <1>4, <1>6, <1>7, <1>8, <1>9, JudgingAssumption
<1>11. ReadCount(log, i) = Max({0, Min({n, r})})
  BY DEF ReadCount, later
<1> HIDE DEF n, r
<1>12. Min({n, r}) = n
  BY <1>10 DEF Min
<1>13. Max({0, n}) = n
  BY <1>10 DEF Max
<1>14. QED
  BY <1>11, <1>12, <1>13 DEF n, log

-----------------------------------------------------------------------------
(* More errors of one source.                                               *)

LEMMA FourRungs ==
  ASSUME NEW a, NEW r, NEW b, NEW s, NEW c, NEW t, NEW d, NEW u
  PROVE  LET rungs == << <<a, r>>, <<b, s>>, <<c, t>>, <<d, u>> >>
         IN  /\ a => Ladder(rungs) = r
             /\ ~ a /\ b => Ladder(rungs) = s
             /\ ~ a /\ ~ b /\ c => Ladder(rungs) = t
             /\ ~ a /\ ~ b /\ ~ c /\ d => Ladder(rungs) = u
<1> DEFINE rungs == << <<a, r>>, <<b, s>>, <<c, t>>, <<d, u>> >>
<1>1. DOMAIN rungs = 1 .. 4 /\ 4 \in Nat
  OBVIOUS
<1>2. /\ rungs[1][1] = a /\ rungs[1][2] = r
      /\ rungs[2][1] = b /\ rungs[2][2] = s
      /\ rungs[3][1] = c /\ rungs[3][2] = t
      /\ rungs[4][1] = d /\ rungs[4][2] = u
  OBVIOUS
<1> HIDE DEF rungs
<1>3. ASSUME a PROVE Ladder(rungs) = r
  <2>1. rungs[1][1] /\ 1 \in 1 .. 4
    BY <1>2, <1>3
  <2>2. \A j \in 1 .. 1 - 1 : ~ rungs[j][1]
    BY <1>2, <1>3
  <2>3. Ladder(rungs) = rungs[1][2]
    BY <1>1, <2>1, <2>2, FirstRung, Zenon
  <2>4. QED
    BY <1>2, <2>3
<1>4. ASSUME ~ a, b PROVE Ladder(rungs) = s
  <2>1. rungs[2][1] /\ 2 \in 1 .. 4
    BY <1>2, <1>4
  <2>2. \A j \in 1 .. 2 - 1 : ~ rungs[j][1]
    BY <1>2, <1>4
  <2>3. Ladder(rungs) = rungs[2][2]
    BY <1>1, <2>1, <2>2, FirstRung, Zenon
  <2>4. QED
    BY <1>2, <2>3
<1>5. ASSUME ~ a, ~ b, c PROVE Ladder(rungs) = t
  <2>1. rungs[3][1] /\ 3 \in 1 .. 4
    BY <1>2, <1>5
  <2>2. \A j \in 1 .. 3 - 1 : ~ rungs[j][1]
    BY <1>2, <1>5
  <2>3. Ladder(rungs) = rungs[3][2]
    BY <1>1, <2>1, <2>2, FirstRung, Zenon
  <2>4. QED
    BY <1>2, <2>3
<1>6. ASSUME ~ a, ~ b, ~ c, d PROVE Ladder(rungs) = u
  <2>1. rungs[4][1] /\ 4 \in 1 .. 4
    BY <1>2, <1>6
  <2>2. \A j \in 1 .. 4 - 1 : ~ rungs[j][1]
    BY <1>2, <1>6
  <2>3. Ladder(rungs) = rungs[4][2]
    BY <1>1, <2>1, <2>2, FirstRung, Zenon
  <2>4. QED
    BY <1>2, <2>3
<1>7. QED
  BY <1>3, <1>4, <1>5, <1>6 DEF rungs

LEMMA ClusterIs ==
  ASSUME NEW n \in Nat, NEW critical \in BOOLEAN
  PROVE  LET severity == ClusterSeverity(n, critical)
             high == (critical /\ n >= CLUSTER_THRESHOLD) \/ n >= CLUSTER_THRESHOLD * 8
         IN  /\ high => severity = 4
             /\ ~ high /\ n >= CLUSTER_THRESHOLD * 3 => severity = 3
             /\ ~ high /\ ~ n >= CLUSTER_THRESHOLD * 3 => severity = 2
<1> DEFINE a == critical /\ n >= CLUSTER_THRESHOLD
           b == n >= CLUSTER_THRESHOLD * 8
           c == n >= CLUSTER_THRESHOLD * 3
           d == TRUE
           S == Ladder(<< <<a, High>>, <<b, High>>, <<c, Medium>>, <<d, Low>> >>)
<1>1. ClusterSeverity(n, critical) = S
  BY Zenon DEF ClusterSeverity
<1>d. d
  OBVIOUS
<1> HIDE DEF a, b, c, d
<1>2. /\ a => S = High
      /\ ~ a /\ b => S = High
      /\ ~ a /\ ~ b /\ c => S = Medium
      /\ ~ a /\ ~ b /\ ~ c /\ d => S = Low
  BY FourRungs
<1> HIDE DEF S
<1>3. QED
  BY <1>1, <1>2, <1>d DEF Low, Medium, High, a, b, c

\* More errors of one source, and more serious ones, are no milder.
LEMMA ClustersNoMilder ==
  ASSUME NEW n \in Nat, NEW k \in Nat, n <= k, NEW p \in BOOLEAN, NEW q \in BOOLEAN, p => q
  PROVE  /\ ClusterSeverity(n, p) \in 0 .. 5 /\ ClusterSeverity(k, q) \in 0 .. 5
         /\ ClusterSeverity(n, p) <= ClusterSeverity(k, q)
<1> DEFINE T == CLUSTER_THRESHOLD
           S == ClusterSeverity(n, p)
           R == ClusterSeverity(k, q)
<1>1. T \in Nat /\ T # 0
  BY JudgingAssumption
<1>2. LET high == (p /\ n >= T) \/ n >= T * 8
      IN  /\ high => S = 4
          /\ ~ high /\ n >= T * 3 => S = 3
          /\ ~ high /\ ~ n >= T * 3 => S = 2
  BY ClusterIs
<1>3. LET high == (q /\ k >= T) \/ k >= T * 8
      IN  /\ high => R = 4
          /\ ~ high /\ k >= T * 3 => R = 3
          /\ ~ high /\ ~ k >= T * 3 => R = 2
  BY ClusterIs
<1> HIDE DEF T, S, R
<1>4. S \in 0 .. 5 /\ R \in 0 .. 5 /\ S <= R
  BY <1>1, <1>2, <1>3
<1>5. QED
  BY <1>4 DEF S, R

-----------------------------------------------------------------------------
(* The whole of a log.                                                      *)

\* The parts Analyse goes by.
Present(log) == {i \in DOMAIN log : log[i].count > 0}
Hits(log, p) == {i \in Present(log) : Matches(p, log[i].record)}
Unrecognised(log) ==
  {i \in Present(log) : log[i].record.level # "warning" /\ \A p \in Patterns : i \notin Hits(log, p)}
Cluster(log, s) == {i \in Unrecognised(log) : Signature(log[i].record) = s}
CriticalIn(log, s) == \E i \in Cluster(log, s) : log[i].record.level = "critical"
Repeated(log) ==
  {s \in {Signature(log[i].record) : i \in Unrecognised(log)} :
     Records(log, Cluster(log, s)) >= CLUSTER_THRESHOLD}

LEMMA AnalyseIs ==
  ASSUME NEW log
  PROVE  Analyse(log) =
           {AboutLogs(p.id, p.id, p.severity) : p \in {p \in Patterns : Hits(log, p) # {}}}
             \cup {AboutLogs("logs.repeated-error", s,
                             ClusterSeverity(Records(log, Cluster(log, s)), CriticalIn(log, s))) :
                     s \in Repeated(log)}
BY Zenon DEF Analyse, Present, Hits, Unrecognised, Cluster, CriticalIn, Repeated

LEMMA PatternsGraded == ASSUME NEW p \in Patterns PROVE p.severity \in 0 .. 5
<1>1. \A id, sources, events, messages, severity :
        Pattern(id, sources, events, messages, severity).severity = severity
  BY DEF Pattern
<1>2. PICK id, sources, events, messages, severity :
        p = Pattern(id, sources, events, messages, severity) /\ severity \in {High, Critical}
  BY DEF Patterns
<1>3. p.severity \in {High, Critical}
  BY <1>1, <1>2
<1>4. QED
  BY <1>3 DEF High, Critical

\* A log that has everything the other has says at least as much.
LEMMA MoreLogNoMilder ==
  ASSUME NEW l, NEW m, DOMAIN l \subseteq DOMAIN m, IsFiniteSet(DOMAIN m),
         \A i \in DOMAIN l : l[i] = m[i], \A i \in DOMAIN m : m[i].count \in Nat
  PROVE  AtLeast(Analyse(l), Analyse(m)) /\ Graded(Analyse(l))
<1>1. Present(l) \subseteq Present(m) /\ \A i \in Present(l) : l[i] = m[i]
  BY DEF Present
<1>2. \A p : Hits(l, p) \subseteq Hits(m, p)
  BY <1>1 DEF Hits
<1>3. Unrecognised(l) \subseteq Unrecognised(m) /\ \A i \in Unrecognised(l) : l[i] = m[i]
  BY <1>1 DEF Unrecognised, Hits
<1>4. ASSUME NEW s
      PROVE  /\ Cluster(l, s) \subseteq Cluster(m, s) /\ \A i \in Cluster(l, s) : l[i] = m[i]
             /\ CriticalIn(l, s) \in BOOLEAN /\ CriticalIn(m, s) \in BOOLEAN
             /\ CriticalIn(l, s) => CriticalIn(m, s)
  BY <1>3 DEF Cluster, CriticalIn
<1>5. ASSUME NEW s
      PROVE  /\ Records(l, Cluster(l, s)) \in Nat /\ Records(m, Cluster(m, s)) \in Nat
             /\ Records(l, Cluster(l, s)) <= Records(m, Cluster(m, s))
  <2>1. Cluster(m, s) \in SUBSET DOMAIN m
    BY DEF Cluster, Unrecognised, Present
  <2>2. IsFiniteSet(Cluster(m, s))
    BY <2>1, FS_Subset
  <2>3. \A i \in Cluster(m, s) : m[i].count \in Nat
    BY <2>1
  <2>4. \A i \in Cluster(l, s) : l[i].count = m[i].count
    BY <1>4
  <2>5. QED
    BY <1>4, <2>2, <2>3, <2>4, RecordsGrow
<1>6. ASSUME NEW s \in Repeated(l) PROVE s \in Repeated(m)
  <2>1. s \in {Signature(m[i].record) : i \in Unrecognised(m)}
    BY <1>3 DEF Repeated
  <2>2. Records(m, Cluster(m, s)) >= CLUSTER_THRESHOLD
    BY <1>5, JudgingAssumption DEF Repeated
  <2>3. QED
    BY <2>1, <2>2 DEF Repeated
<1>7. \A id, subject, severity : AboutLogs(id, subject, severity).severity = severity
  BY DEF AboutLogs, Finding
<1> DEFINE about(log, s) == ClusterSeverity(Records(log, Cluster(log, s)), CriticalIn(log, s))
<1>8. ASSUME NEW s PROVE about(l, s) \in 0 .. 5 /\ about(l, s) <= about(m, s)
  BY <1>4, <1>5, ClustersNoMilder
<1> HIDE DEF about
<1>9. \A log : Analyse(log) =
        {AboutLogs(p.id, p.id, p.severity) : p \in {p \in Patterns : Hits(log, p) # {}}}
          \cup {AboutLogs("logs.repeated-error", s, about(log, s)) : s \in Repeated(log)}
  BY AnalyseIs DEF about
<1>10. ASSUME NEW f \in Analyse(l)
       PROVE  f.severity \in 0 .. 5 /\ \E g \in Analyse(m) : f.severity <= g.severity
  <2>1. CASE \E p \in Patterns : Hits(l, p) # {} /\ f = AboutLogs(p.id, p.id, p.severity)
    <3>1. PICK p \in Patterns : Hits(l, p) # {} /\ f = AboutLogs(p.id, p.id, p.severity)
      BY <2>1
    <3>2. f.severity \in 0 .. 5
      BY <1>7, <3>1, PatternsGraded
    <3>3. f \in Analyse(m)
      BY <1>2, <1>9, <3>1
    <3>4. f.severity <= f.severity
      BY <3>2
    <3>5. QED
      BY <3>2, <3>3, <3>4
  <2>2. CASE \E s \in Repeated(l) : f = AboutLogs("logs.repeated-error", s, about(l, s))
    <3>1. PICK s \in Repeated(l) : f = AboutLogs("logs.repeated-error", s, about(l, s))
      BY <2>2
    <3>2. AboutLogs("logs.repeated-error", s, about(m, s)) \in Analyse(m)
      BY <1>6, <1>9, <3>1
    <3>3. QED
      BY <1>7, <1>8, <3>1, <3>2
  <2>3. QED
    BY <1>9, <2>1, <2>2
<1>11. QED
  BY <1>10 DEF AtLeast, Graded

LEMMA LogsNoMilder ==
  ASSUME NEW a \in LogFacts, NEW b \in LogFacts, WorseLog(a, b)
  PROVE  /\ AtLeast(Analyse(Read(a)), Analyse(Read(b)))
         /\ Graded(Analyse(Read(a))) /\ Graded(Analyse(Read(b)))
<1>1. Reader(a) = Reader(b)
  BY DEF WorseLog, Reader, LogFacts
<1>2. /\ DOMAIN a.log = 1 .. Len(a.log) /\ Len(a.log) \in Nat
      /\ DOMAIN b.log = 1 .. Len(b.log) /\ Len(b.log) \in Nat
      /\ \A i \in DOMAIN a.log : a.log[i].count \in Nat
      /\ \A i \in DOMAIN b.log : b.log[i].count \in Nat
  BY CountsAre
<1>3. DOMAIN a.log \subseteq DOMAIN b.log /\ \A i \in DOMAIN a.log : a.log[i] = b.log[i]
  <2> DEFINE s == a.log
             t == b.log
  <2>1. /\ Len(s) <= Len(t) /\ SubSeq(s, 1, Len(s)) = SubSeq(t, 1, Len(s))
    BY DEF WorseLog, IsPrefix
  <2> DEFINE Several == [record : LogRecord, count : Nat]
  <2>2. s \in Seq(Several) /\ t \in Seq(Several)
    BY DEF LogFacts
  <2> HIDE DEF s, t, Several
  <2>3. \A i \in 1 .. Len(s) : SubSeq(s, 1, Len(s))[i] = s[i] /\ SubSeq(t, 1, Len(s))[i] = t[i]
    BY <2>1, <2>2
  <2>4. \A i \in 1 .. Len(s) : s[i] = t[i]
    BY <2>1, <2>3
  <2>5. DOMAIN s = 1 .. Len(s) /\ DOMAIN t = 1 .. Len(t) /\ Len(s) \in Nat /\ Len(t) \in Nat
    BY <2>2
  <2>6. DOMAIN s \subseteq DOMAIN t /\ \A i \in DOMAIN s : s[i] = t[i]
    BY <2>1, <2>4, <2>5
  <2>7. QED
    BY <2>6 DEF s, t
<1>4. IsFiniteSet(DOMAIN b.log)
  BY <1>2, FS_Interval
<1>5. Records(b.log, DOMAIN b.log) <= MAX_ENTRIES
  BY DEF WorseLog
<1>6. Records(a.log, DOMAIN a.log) <= MAX_ENTRIES
  <2>1. /\ Records(a.log, DOMAIN a.log) \in Nat /\ Records(b.log, DOMAIN b.log) \in Nat
        /\ Records(a.log, DOMAIN a.log) <= Records(b.log, DOMAIN b.log)
    BY <1>2, <1>3, <1>4, RecordsGrow
  <2>2. QED
    BY <1>5, <2>1, JudgingAssumption
<1>7. ASSUME NEW m \in {a, b}, NEW i \in DOMAIN m.log
      PROVE  Read(m)[i] = [record |-> Understood(Reader(m), m.log[i].record), count |-> m.log[i].count]
  BY <1>5, <1>6, ReadWhole DEF Read
<1>8. DOMAIN Read(a) = DOMAIN a.log /\ DOMAIN Read(b) = DOMAIN b.log
  BY DEF Read
<1>9. \A i \in DOMAIN Read(a) : Read(a)[i] = Read(b)[i]
  BY <1>1, <1>3, <1>7, <1>8
<1>10. ASSUME NEW i \in DOMAIN Read(b) PROVE Read(b)[i].count \in Nat
  <2>1. b \in {a, b} /\ i \in DOMAIN b.log
    BY <1>8
  <2>2. Read(b)[i] = [record |-> Understood(Reader(b), b.log[i].record), count |-> b.log[i].count]
    BY <1>7, <2>1
  <2>3. Read(b)[i].count = b.log[i].count
    BY <2>2
  <2>4. QED
    BY <1>2, <2>1, <2>3
<1>11. Graded(Analyse(Read(b)))
  BY <1>4, <1>8, <1>10, MoreLogNoMilder
<1>12. QED
  BY <1>3, <1>4, <1>8, <1>9, <1>10, <1>11, MoreLogNoMilder

-----------------------------------------------------------------------------
(* Every check.                                                             *)

LEMMA StillAsBad ==
  ASSUME NEW m
  PROVE  /\ m \in MemoryFacts => m = [m EXCEPT !.used = m.used, !.swapUsed = m.swapUsed]
         /\ m \in SUBSET ProcessFacts => WorseProcesses(m, m)
<1>1. m \in MemoryFacts => m = [m EXCEPT !.used = m.used, !.swapUsed = m.swapUsed]
  BY DEF MemoryFacts
<1>2. ASSUME m \in SUBSET ProcessFacts, NEW p \in m
      PROVE  \E q \in m :
               /\ q.memory >= p.memory /\ q.cpu >= p.cpu /\ q.minutes >= p.minutes
               /\ q = [p EXCEPT !.memory = q.memory, !.cpu = q.cpu, !.minutes = q.minutes]
  <2>1. p \in ProcessFacts
    BY <1>2
  <2>2. p.memory >= p.memory /\ p.cpu >= p.cpu /\ p.minutes >= p.minutes
    BY <2>1 DEF ProcessFacts
  <2>3. p = [p EXCEPT !.memory = p.memory, !.cpu = p.cpu, !.minutes = p.minutes]
    BY <2>1 DEF ProcessFacts
  <2>4. QED
    BY <2>2, <2>3
<1>3. QED
  BY <1>1, <1>2 DEF WorseProcesses

LEMMA ProcessesGraded ==
  ASSUME NEW m \in SUBSET ProcessFacts, IsFiniteSet(m), \A s, t \in m : s.pid = t.pid => s = t
  PROVE  Graded(BadProcesses(m))
<1>1. WorseProcesses(m, m)
  BY StillAsBad
<1>2. Graded(MemoryHog(m)) /\ Graded(ZombieBuildup(m)) /\ Graded(StuckProcesses(m))
  BY <1>1, HogsNoMilder, ZombiesNoMilder, StuckNoMilder
<1>3. QED
  BY <1>2 DEF Graded, BadProcesses

LEMMA MemoryGraded == ASSUME NEW m \in MemoryFacts PROVE Graded(HighPressure(m))
<1>1. m = [m EXCEPT !.used = m.used, !.swapUsed = m.swapUsed]
  BY StillAsBad
<1>2. m.used >= m.used /\ m.swapUsed >= m.swapUsed
  BY DEF MemoryFacts
<1>3. QED
  BY <1>1, <1>2, MemoryNoMilder

\* Check by check: the findings of the worse machine answer to those of the
\* other.
LEMMA WorseLooksNoMilder ==
  ASSUME NEW c, NEW a, NEW b, Readable(c, a), Readable(c, b), Worse(c, a, b)
  PROVE  Severest(FindingsOf(c, b)) >= Severest(FindingsOf(c, a))
<1> SUFFICES /\ AtLeast(FindingsOf(c, a), FindingsOf(c, b))
             /\ Graded(FindingsOf(c, a)) /\ Graded(FindingsOf(c, b))
  BY SeverestIsNoMilder
<1>1. CASE c = "disk_space"
  <2>1. a \in SUBSET DiskFacts /\ b \in SUBSET DiskFacts /\ WorseDisks(a, b)
    BY <1>1 DEF Readable, Worse
  <2>2. \A m : FindingsOf(c, m) = LowOnSpace(m, SystemMount)
    BY <1>1 DEF FindingsOf
  <2>3. QED
    BY <2>1, <2>2, DisksNoMilder, DisksGraded
<1>2. CASE c = "memory"
  <2>1. /\ a \in MemoryFacts /\ b \in MemoryFacts
        /\ b = [a EXCEPT !.used = b.used, !.swapUsed = b.swapUsed]
        /\ b.used >= a.used /\ b.swapUsed >= a.swapUsed
    BY <1>2 DEF Readable, Worse
  <2>2. \A m : FindingsOf(c, m) = HighPressure(m)
    BY <1>2 DEF FindingsOf
  <2>3. AtLeast(HighPressure(a), HighPressure(b))
    BY <2>1, MemoryNoMilder
  <2>4. QED
    BY <2>1, <2>2, <2>3, MemoryGraded
<1>3. CASE c = "processes"
  <2>1. /\ a \in SUBSET ProcessFacts /\ IsFiniteSet(a) /\ \A s, t \in a : s.pid = t.pid => s = t
        /\ b \in SUBSET ProcessFacts /\ IsFiniteSet(b) /\ \A s, t \in b : s.pid = t.pid => s = t
    BY <1>3 DEF Readable, Unique
  <2>2. WorseProcesses(a, b)
    BY <1>3 DEF Worse
  <2>3. \A m : FindingsOf(c, m) = BadProcesses(m)
    BY <1>3 DEF FindingsOf
  <2>4. QED
    BY <2>1, <2>2, <2>3, ProcessesNoMilder, ProcessesGraded
<1>4. CASE c = "devices_linux"
  <2>1. a \in DriverFacts /\ b \in DriverFacts /\ WorseKernel(a, b)
    BY <1>4 DEF Readable, Worse
  <2>2. \A m : FindingsOf(c, m) = DeviceFindings(LinuxIssues(m))
    BY <1>4 DEF FindingsOf
  <2>3. ASSUME NEW m PROVE Graded(DeviceFindings(LinuxIssues(m)))
    <3>1. DOMAIN DeviceSeverity = DOMAIN DeviceId
      BY DEF DeviceSeverity, DeviceId
    <3>2. \A i \in LinuxIssues(m) : i.kind \in DOMAIN DeviceSeverity
      BY <3>1, IssueKinds
    <3>3. QED
      BY <3>2, DevicesGraded
  <2>4. QED
    BY <2>1, <2>2, <2>3, DriversNoMilder
<1>5. CASE c = "drives_windows"
  <2>1. a \in SUBSET DriveFacts /\ b \in SUBSET DriveFacts /\ WorseDrives(a, b)
    BY <1>5 DEF Readable, Worse
  <2>2. \A m : FindingsOf(c, m) = WindowsDrives(m)
    BY <1>5 DEF FindingsOf
  <2>3. QED
    BY <2>1, <2>2, DrivesNoMilder, DrivesGraded
<1>6. CASE c = "startup"
  <2>1. /\ a \in StartupFacts /\ IsFiniteSet(a.entries) /\ Apart(a.entries)
        /\ b \in StartupFacts /\ IsFiniteSet(b.entries) /\ Apart(b.entries)
    BY <1>6 DEF Readable, Unique, Apart
  <2>2. WorseStartup(a, b)
    BY <1>6 DEF Worse
  <2>3. \A m : FindingsOf(c, m) = StartupFindings(m)
    BY <1>6 DEF FindingsOf
  <2>4. StartupFindings(a) \subseteq StartupFindings(b)
    BY <2>1, <2>2, StartupNoMilder
  <2>5. Graded(StartupFindings(a)) /\ Graded(StartupFindings(b))
    BY StartupGraded
  <2>6. AtLeast(StartupFindings(a), StartupFindings(b))
    BY <2>4, <2>5 DEF AtLeast, Graded
  <2>7. QED
    BY <2>3, <2>5, <2>6
<1>7. CASE c = "logs"
  <2>1. a \in LogFacts /\ b \in LogFacts /\ WorseLog(a, b)
    BY <1>7 DEF Readable, Worse
  <2>2. \A m : FindingsOf(c, m) = Analyse(Read(m))
    BY <1>7 DEF FindingsOf
  <2>3. QED
    BY <2>1, <2>2, LogsNoMilder
<1>8. CASE c = "files"
  <2>1. a \in PackageFacts /\ b \in PackageFacts /\ WorseFiles(a, b)
    BY <1>8 DEF Readable, Worse
  <2>2. \A m : FindingsOf(c, m) = FileFindings(FileReport(m))
    BY <1>8 DEF FindingsOf
  <2>3. QED
    BY <2>1, <2>2, FilesNoMilder, FilesGraded
<1>9. QED
  BY <1>1, <1>2, <1>3, <1>4, <1>5, <1>6, <1>7, <1>8 DEF Worse

\* A check that looks again at a machine that got worse, whatever check it
\* is, never reports less than it did.
THEOREM WorseNoMilder == ChecksSpec => WorseIsNoMilder
<1> DEFINE NoMilder == (looks' # looks /\ looks > 0 /\ Worse(check, seen, machine))
                     => Severest(found') >= Severest(found)
<1>1. Judgement /\ [ChecksNext]_checks => [NoMilder]_checks
  <2> SUFFICES ASSUME Judgement, ChecksNext, looks' # looks, looks > 0, Worse(check, seen, machine)
               PROVE  Severest(found') >= Severest(found)
    OBVIOUS
  <2>1. Look
    BY DEF ChecksNext, Changes, Work, Verify, Test, Testing, Tested, rules
  <2>2. /\ check \in DOMAIN Facts /\ machine \in Facts[check] /\ seen \in Facts[check]
        /\ found = FindingsOf(check, seen) /\ found' = FindingsOf(check, machine)
    BY <2>1 DEF Look, Judgement
  <2>3. Readable(check, seen) /\ Readable(check, machine)
    BY <2>2, ChecksAssumption
  <2>4. QED
    BY <2>2, <2>3, WorseLooksNoMilder
<1>2. QED
  BY <1>1, JudgementHolds, PTL DEF ChecksSpec, WorseIsNoMilder
=============================================================================
