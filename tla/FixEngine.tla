----------------------------- MODULE FixEngine -----------------------------
(***************************************************************************)
(* The fix-attempt loop of crates/ork-fix: the triage queue and attempt    *)
(* history of store.rs, the targeted backups of snapshot.rs and            *)
(* FixEngine::work_item of engine.rs, driven by the front-ends that work   *)
(* the queue (ork-cli/src/fix.rs, the window's fixing.rs).                 *)
(*                                                                         *)
(* A Runner is one process working the queue.  Every write to the database *)
(* and every file operation is a step of its own, so a crash, an error     *)
(* that leaves work_item through `?`, another process or another program   *)
(* can come between any two of them.                                       *)
(***************************************************************************)
EXTENDS Naturals

CONSTANTS
  Item,        \* occurrence keys: the problems a scan can put on the queue
  Action,      \* fix actions, told apart by FixAction::describe
  Path,        \* files a RemoveStaleFile action can name
  Content,     \* what can be in a file
  Runner,      \* processes that work the queue
  Absent,      \* the file is not there
  None,        \* no item, no action
  KindOf,      \* [Action -> Kind]
  TargetOf,    \* [Action -> Path], the file a "remove" action names
  Permitted,   \* the actions FixAction::validate accepts
  Candidates,  \* [Item -> SUBSET Action], what plan.rs builds from a runbook
  FindingOf,   \* [Item -> finding id]
  Severity,    \* [Item -> Nat], 0 is the worst
  Testable,    \* the items VerifierRegistry::for_item has a verifier for
  FrontEnd,    \* [Runner -> {"terminal", "window"}]
  Faults,      \* the failures that can happen: see Fault
  Interfering  \* the phases of a change in which other programs write its file

Kind == {"inspect", "remove", "restart", "manual"}
Fault == {"crash", "capture", "change", "restore"}

\* Between the copy and the change; from the change to the end of the rollback.
Phase == {"copied", "changed"}

ASSUME ConstantsAssumption ==
  /\ None \notin Item /\ None \notin Action
  /\ Absent \notin Content
  /\ KindOf \in [Action -> Kind]
  /\ TargetOf \in [Action -> Path]
  /\ Permitted \subseteq Action
  /\ Candidates \in [Item -> SUBSET Action]
  /\ Severity \in [Item -> Nat]
  /\ Testable \subseteq Item
  /\ FrontEnd \in [Runner -> {"terminal", "window"}]
  /\ Faults \subseteq Fault
  /\ Interfering \subseteq Phase

VARIABLES
  queue,      \* [Item -> the row's state, or "absent"]
  attempts,   \* the attempts table; a row repeated verbatim is kept once
  file,       \* [Path -> Content or Absent]
  backup,     \* the files under snapshots/<item id>-<n>/0.backup
  run,        \* what each runner holds in memory
  (* History: what the program itself does not keep. *)
  consented,  \* the <<item, action>> a person said yes to
  touched,    \* the <<item, action>> that reached the machine
  removed     \* the <<path, content>> taken away and not put back

store == <<queue, attempts>>
disk == <<file, backup>>
history == <<consented, touched, removed>>
vars == <<queue, attempts, file, backup, run, consented, touched, removed>>

-----------------------------------------------------------------------------
(* Types.                                                                   *)

ItemState == {"absent", "pending", "resolved", "exhausted"}
Outcome == {"succeeded", "rolled-back", "failed", "refused", "needs-a-person"}
Attempt == [item : Item, action : Action, outcome : Outcome]

\* The path is not kept on disk with the copy: it names what the copy is of.
Backup == [item : Item, number : Nat, path : Path, content : Content]

Stage == {"idle", "items", "loop", "asking", "approved", "captured",
          "applied", "undo", "log failed", "log success", "resolve",
          "rollback", "log rollback"}

Run == [pc : Stage, apply : BOOLEAN, cancelled : BOOLEAN,
        items : SUBSET Item, item : Item \cup {None},
        plan : SUBSET Action, proven : SUBSET Action,
        attempted : Nat, advised : BOOLEAN,
        action : Action \cup {None}, saved : Content \cup {Absent}]

IdleRun == [pc |-> "idle", apply |-> FALSE, cancelled |-> FALSE,
            items |-> {}, item |-> None, plan |-> {}, proven |-> {},
            attempted |-> 0, advised |-> FALSE,
            action |-> None, saved |-> Absent]

TypeOK ==
  /\ queue \in [Item -> ItemState]
  /\ attempts \subseteq Attempt
  /\ file \in [Path -> Content \cup {Absent}]
  /\ backup \subseteq Backup
  /\ run \in [Runner -> Run]
  /\ consented \subseteq Item \X Action
  /\ touched \subseteq Item \X Action
  /\ removed \subseteq Path \X Content

-----------------------------------------------------------------------------
(* What the store answers, and how a plan is ordered.                       *)

Pending == {i \in Item : queue[i] = "pending"}

AlreadyFailed(i) ==
  {a \in Action : \E t \in attempts :
     t.item = i /\ t.action = a /\ t.outcome \in {"rolled-back", "failed"}}

KnownGood(i) ==
  {a \in Action : \E t \in attempts :
     FindingOf[t.item] = FindingOf[i] /\ t.action = a /\ t.outcome = "succeeded"}

RiskOf == [inspect |-> 0, remove |-> 1, restart |-> 2, manual |-> 3]

ChangesTheSystem(a) == KindOf[a] \in {"remove", "restart"}

Validates(a) == a \in Permitted

\* Proven actions first, then the least invasive.
Rank(r, a) == (IF a \in run[r].proven THEN 0 ELSE 4) + RiskOf[KindOf[a]]

NextInPlan(r, a) ==
  /\ a \in run[r].plan
  /\ \A b \in run[r].plan : Rank(r, a) <= Rank(r, b)

Plan(i) == Candidates[i] \ AlreadyFailed(i)

WorstFirst(r, i) ==
  /\ i \in run[r].items
  /\ \A j \in run[r].items : Severity[i] <= Severity[j]

Record(r, outcome) ==
  attempts' = attempts \cup
    {[item |-> run[r].item, action |-> run[r].action, outcome |-> outcome]}

\* What a runner holds is private to it.
Becomes(r, x) == run' = [run EXCEPT ![r] = x]

Step(r, pc) == Becomes(r, [run[r] EXCEPT !.pc = pc])

-----------------------------------------------------------------------------
(* The scan, the person and the other programs on the machine.              *)

\* FixStore::enqueue.  A row already there keeps its state.
ScanFinds(i) ==
  /\ queue[i] = "absent"
  /\ queue' = [queue EXCEPT ![i] = "pending"]
  /\ UNCHANGED <<attempts, disk, run, history>>

PhaseOf(pc) ==
  CASE pc = "captured" -> {"copied"}
    [] pc \in {"applied", "undo", "rollback"} -> {"changed"}
    [] OTHER -> {}

LeftAlone(p) ==
  \E r \in Runner :
    /\ ~(PhaseOf(run[r].pc) \subseteq Interfering)
    /\ KindOf[run[r].action] = "remove"
    /\ TargetOf[run[r].action] = p

\* An application writes its own lock or cache file.
WorldWrites(p, c) ==
  /\ ~LeftAlone(p)
  /\ file' = [file EXCEPT ![p] = c]
  /\ UNCHANGED <<store, backup, run, history>>

Cancel(r) ==
  /\ run[r].pc # "idle"
  /\ Becomes(r, [run[r] EXCEPT !.cancelled = TRUE])
  /\ UNCHANGED <<store, disk, history>>

-----------------------------------------------------------------------------
(* Working the queue: one run, one item after another.                      *)

StartRun(r, apply) ==
  /\ run[r].pc = "idle"
  /\ Pending # {}
  /\ Becomes(r, [IdleRun EXCEPT !.pc = "items", !.apply = apply,
                                !.items = Pending])
  /\ UNCHANGED <<store, disk, history>>

NextItem(r, i) ==
  /\ run[r].pc = "items"
  /\ WorstFirst(r, i)
  /\ Plan(i) # {}
  /\ Becomes(r, [run[r] EXCEPT !.pc = "loop", !.items = @ \ {i}, !.item = i,
                               !.plan = Plan(i), !.proven = KnownGood(i),
                               !.attempted = 0, !.advised = FALSE])
  /\ UNCHANGED <<store, disk, history>>

NoCandidates(r, i) ==
  /\ run[r].pc = "items"
  /\ WorstFirst(r, i)
  /\ Plan(i) = {}
  /\ Becomes(r, [run[r] EXCEPT !.items = @ \ {i}])
  /\ UNCHANGED <<store, disk, history>>

EndRun(r) ==
  /\ run[r].pc = "items"
  /\ run[r].items = {}
  /\ Becomes(r, IdleRun)
  /\ UNCHANGED <<store, disk, history>>

\* ItemOutcome::Stopped: the front-end breaks out of its loop over the items.
StopAtLoop(r) ==
  /\ run[r].pc = "loop"
  /\ run[r].plan # {}
  /\ run[r].cancelled
  /\ Becomes(r, IdleRun)
  /\ UNCHANGED <<store, disk, history>>

-----------------------------------------------------------------------------
(* One candidate: refused, described, or put to the person.                 *)

AtCandidate(r, a) ==
  /\ run[r].pc = "loop"
  /\ ~run[r].cancelled
  /\ NextInPlan(r, a)

Refuse(r, a) ==
  /\ AtCandidate(r, a)
  /\ ~Validates(a)
  /\ attempts' = attempts \cup
       {[item |-> run[r].item, action |-> a, outcome |-> "refused"]}
  /\ Becomes(r, [run[r] EXCEPT !.plan = @ \ {a}])
  /\ UNCHANGED <<queue, disk, history>>

\* Manual, Inspect, and a change nobody could test: all offered as advice.
Advise(r, a) ==
  /\ AtCandidate(r, a)
  /\ Validates(a)
  /\ ~ChangesTheSystem(a) \/ run[r].item \notin Testable
  /\ attempts' = attempts \cup
       {[item |-> run[r].item, action |-> a, outcome |-> "needs-a-person"]}
  /\ Becomes(r, [run[r] EXCEPT !.plan = @ \ {a}, !.advised = TRUE])
  /\ UNCHANGED <<queue, disk, history>>

Ask(r, a) ==
  /\ AtCandidate(r, a)
  /\ Validates(a)
  /\ ChangesTheSystem(a)
  /\ run[r].item \in Testable
  /\ Becomes(r, [run[r] EXCEPT !.pc = "asking", !.action = a])
  /\ UNCHANGED <<store, disk, history>>

Declined(r) ==
  /\ run[r].pc = "asking"
  /\ Record(r, "needs-a-person")
  /\ Becomes(r, [run[r] EXCEPT !.pc = "loop", !.plan = @ \ {run[r].action}])
  /\ UNCHANGED <<queue, disk, history>>

\* Mutation: a dry run is granted permission.
DryRunApproves(r) ==
  /\ run[r].pc = "asking" /\ ~run[r].apply
  /\ Becomes(r, [run[r] EXCEPT !.pc = "approved", !.attempted = @ + 1])
  /\ UNCHANGED <<store, disk, history>>

\* DryRun::approve.
DryRunDeclines(r) == ~run[r].apply /\ Declined(r)

PersonDeclines(r) == run[r].apply /\ Declined(r)

Stopped(r) ==
  /\ run[r].pc = "asking"
  /\ run[r].apply
  /\ Becomes(r, IdleRun)
  /\ UNCHANGED <<store, disk, history>>

PersonStops(r) == Stopped(r)

\* Mutation: the parked question does not look at the token.
ParkIgnoresCancel(r) == FALSE /\ Stopped(r)

\* AskTheWindow::park looks at the token; AskInTerminal sits in read_line.
ParkSeesCancel(r) ==
  FrontEnd[r] = "window" /\ run[r].cancelled /\ Stopped(r)

PersonApproves(r) ==
  /\ run[r].pc = "asking"
  /\ run[r].apply
  /\ consented' = consented \cup {<<run[r].item, run[r].action>>}
  /\ Becomes(r, [run[r] EXCEPT !.pc = "approved", !.attempted = @ + 1])
  /\ UNCHANGED <<store, disk, touched, removed>>

-----------------------------------------------------------------------------
(* One change: copy, change, test, keep or put back.                        *)

Removes(r) == KindOf[run[r].action] = "remove"

Target(r) == TargetOf[run[r].action]

\* Mutation: snapshot ids without the item.
KeptByNumber(r) == {b \in backup : b.number = run[r].attempted}

\* Snapshot ids are "<item id>-<attempt number in this call>".
Kept(r) == {b \in backup : b.item = run[r].item /\ b.number = run[r].attempted}

\* Snapshot::create can leave through `?`: nothing is recorded.
CannotMakeSnapshot(r) ==
  /\ "capture" \in Faults
  /\ run[r].pc = "approved"
  /\ Becomes(r, IdleRun)
  /\ UNCHANGED <<store, disk, history>>

\* Snapshot::create and Snapshot::capture.
Capture(r) ==
  /\ run[r].pc = "approved"
  /\ LET now == IF Removes(r) THEN file[Target(r)] ELSE Absent IN
       /\ Becomes(r, [run[r] EXCEPT !.pc = "captured", !.saved = now])
       /\ backup' = IF now = Absent THEN backup
                    ELSE (backup \ Kept(r)) \cup
                           {[item |-> run[r].item, number |-> run[r].attempted,
                             path |-> Target(r), content |-> now]}
  /\ UNCHANGED <<store, file, history>>

\* The copy fails inside apply: recorded as a failed attempt, nothing to undo.
CannotCapture(r) ==
  /\ "capture" \in Faults
  /\ run[r].pc = "approved"
  /\ Removes(r)
  /\ Step(r, "log failed")
  /\ UNCHANGED <<store, disk, history>>

Taken(p) == IF file[p] = Absent THEN {} ELSE {<<p, file[p]>>}

Touch(r) == touched' = touched \cup {<<run[r].item, run[r].action>>}

\* remove_file or the service manager succeeds; an absent file is no error.
Change(r) ==
  /\ run[r].pc = "captured"
  /\ IF Removes(r)
     THEN /\ file' = [file EXCEPT ![Target(r)] = Absent]
          /\ removed' = removed \cup Taken(Target(r))
     ELSE UNCHANGED <<file, removed>>
  /\ Touch(r)
  /\ Step(r, "applied")
  /\ UNCHANGED <<store, backup, consented>>

\* The change is refused by the system; a service may be half restarted.
CannotChange(r) ==
  /\ "change" \in Faults
  /\ run[r].pc = "captured"
  /\ IF Removes(r) THEN UNCHANGED touched ELSE Touch(r)
  /\ Step(r, "undo")
  /\ UNCHANGED <<store, disk, consented, removed>>

\* Snapshot::restore.  Nothing was captured for a service.
PutBack(r) ==
  IF ~Removes(r) THEN UNCHANGED <<file, removed>>
  ELSE LET p == Target(r) IN
    \/ /\ run[r].saved = Absent
       /\ file' = [file EXCEPT ![p] = Absent]
       /\ removed' = removed \cup Taken(p)
    \/ /\ run[r].saved # Absent
       /\ \E b \in Kept(r) :
            /\ file' = [file EXCEPT ![p] = b.content]
            /\ removed' = (removed \cup Taken(p)) \ {<<p, b.content>>}

\* `let _ = snapshot.restore()`: how it went makes no difference.
UndoFailed(r) ==
  /\ run[r].pc = "undo"
  /\ \/ PutBack(r)
     \/ "restore" \in Faults /\ UNCHANGED <<file, removed>>
  /\ Step(r, "log failed")
  /\ UNCHANGED <<store, backup, consented, touched>>

LogFailed(r) ==
  /\ run[r].pc = "log failed"
  /\ Record(r, "failed")
  /\ Becomes(r, [run[r] EXCEPT !.pc = "loop", !.plan = @ \ {run[r].action}])
  /\ UNCHANGED <<queue, disk, history>>

VerdictFixed(r) ==
  /\ run[r].pc = "applied"
  /\ Step(r, "log success")
  /\ UNCHANGED <<store, disk, history>>

\* Mutation: "could not tell" is taken for "fixed".
CannotTellIsFixed(r) ==
  /\ run[r].pc = "applied"
  /\ Step(r, "resolve")
  /\ UNCHANGED <<store, disk, history>>

\* StillBroken and CannotTell alike.
VerdictNotFixed(r) ==
  /\ run[r].pc = "applied"
  /\ Step(r, "rollback")
  /\ UNCHANGED <<store, disk, history>>

LogSuccess(r) ==
  /\ run[r].pc = "log success"
  /\ Record(r, "succeeded")
  /\ Step(r, "resolve")
  /\ UNCHANGED <<queue, disk, history>>

MarkResolved(r) ==
  /\ run[r].pc = "resolve"
  /\ queue' = [queue EXCEPT ![run[r].item] = "resolved"]
  /\ Step(r, "items")
  /\ UNCHANGED <<attempts, disk, history>>

\* Mutation: the rollback puts nothing back.
RollBackNothing(r) ==
  /\ run[r].pc = "rollback"
  /\ Step(r, "log rollback")
  /\ UNCHANGED <<store, disk, history>>

RollBack(r) ==
  /\ run[r].pc = "rollback"
  /\ PutBack(r)
  /\ Step(r, "log rollback")
  /\ UNCHANGED <<store, backup, consented, touched>>

\* `snapshot.restore()?`: the run ends with the error.
CannotRollBack(r) ==
  /\ "restore" \in Faults
  /\ run[r].pc = "rollback"
  /\ Removes(r)
  /\ Becomes(r, IdleRun)
  /\ UNCHANGED <<store, disk, history>>

\* Mutation: a rolled-back change leaves no record.
ForgetRollBack(r) ==
  /\ run[r].pc = "log rollback"
  /\ Becomes(r, [run[r] EXCEPT !.pc = "loop", !.plan = @ \ {run[r].action}])
  /\ UNCHANGED <<store, disk, history>>

LogRollBack(r) ==
  /\ run[r].pc = "log rollback"
  /\ Record(r, "rolled-back")
  /\ Becomes(r, [run[r] EXCEPT !.pc = "loop", !.plan = @ \ {run[r].action}])
  /\ UNCHANGED <<queue, disk, history>>

-----------------------------------------------------------------------------
(* The end of an item.                                                      *)

\* ItemOutcome::NeedsAPerson: the row is left pending.
LeaveToPerson(r) ==
  /\ run[r].pc = "loop"
  /\ run[r].plan = {}
  /\ run[r].attempted = 0 /\ run[r].advised
  /\ Step(r, "items")
  /\ UNCHANGED <<store, disk, history>>

MarkExhausted(r) ==
  /\ run[r].pc = "loop"
  /\ run[r].plan = {}
  /\ ~(run[r].attempted = 0 /\ run[r].advised)
  /\ queue' = [queue EXCEPT ![run[r].item] = "exhausted"]
  /\ Step(r, "items")
  /\ UNCHANGED <<attempts, disk, history>>

\* The process dies, or an error from the database ends the run.
Crash(r) ==
  /\ "crash" \in Faults
  /\ run[r].pc # "idle"
  /\ Becomes(r, IdleRun)
  /\ UNCHANGED <<store, disk, history>>

-----------------------------------------------------------------------------
Init ==
  /\ queue = [i \in Item |-> "absent"]
  /\ attempts = {}
  /\ file \in [Path -> Content \cup {Absent}]
  /\ backup = {}
  /\ run = [r \in Runner |-> IdleRun]
  /\ consented = {} /\ touched = {} /\ removed = {}

\* What a run does by itself, without waiting for anybody.
EngineStep(r) ==
  \/ \E i \in Item : NextItem(r, i) \/ NoCandidates(r, i)
  \/ \E a \in Action : Refuse(r, a) \/ Advise(r, a) \/ Ask(r, a)
  \/ EndRun(r) \/ StopAtLoop(r)
  \/ DryRunDeclines(r) \/ ParkSeesCancel(r)
  \/ Capture(r) \/ CannotMakeSnapshot(r) \/ CannotCapture(r)
  \/ Change(r) \/ CannotChange(r) \/ UndoFailed(r) \/ LogFailed(r)
  \/ VerdictFixed(r) \/ LogSuccess(r) \/ MarkResolved(r)
  \/ VerdictNotFixed(r) \/ RollBack(r) \/ CannotRollBack(r) \/ LogRollBack(r)
  \/ LeaveToPerson(r) \/ MarkExhausted(r)

PersonStep(r) ==
  \/ \E apply \in BOOLEAN : StartRun(r, apply)
  \/ PersonApproves(r) \/ PersonDeclines(r) \/ PersonStops(r) \/ Cancel(r)

Next ==
  \/ \E i \in Item : ScanFinds(i)
  \/ \E p \in Path, c \in Content : WorldWrites(p, c)
  \/ \E r \in Runner : EngineStep(r) \/ PersonStep(r) \/ Crash(r)

Spec == Init /\ [][Next]_vars

\* The runtime keeps a run moving; nobody is obliged to answer a question.
FairSpec == Spec /\ \A r \in Runner : WF_vars(EngineStep(r))
-----------------------------------------------------------------------------
(* Properties.                                                              *)

\* A row says "resolved" only when the record holds a confirmed success for
\* it, whatever crashes, and however many processes work the queue
\* (ItemState::Resolved: "Fixed, and confirmed fixed by a test").
ResolvedMeansConfirmed ==
  \A i \in Item : queue[i] = "resolved" =>
    \E t \in attempts : t.item = i /\ t.outcome = "succeeded"

\* Whatever reached the machine was asked about and approved first, for that
\* very problem; it passed validation and its result could be tested.
PermissionBeforeChange ==
  \A e \in touched : /\ e \in consented
                     /\ e[1] \in Testable
                     /\ e[2] \in Permitted
                     /\ ChangesTheSystem(e[2])

\* What a fix took away can still be got back: it is in its file again or in
\* a backup (action.rs, on removal: "even here nothing is lost").
NothingLost ==
  \A e \in removed :
    \/ file[e[1]] = e[2]
    \/ \E b \in backup : b.path = e[1] /\ b.content = e[2]

Recorded(e) ==
  \E t \in attempts : /\ t.item = e[1] /\ t.action = e[2]
                      /\ t.outcome \in {"succeeded", "rolled-back", "failed"}

InHand(e) ==
  \E r \in Runner :
    /\ run[r].item = e[1] /\ run[r].action = e[2]
    /\ run[r].pc \in {"applied", "undo", "log failed", "log success",
                      "rollback", "log rollback"}

\* A change that reached the machine is on the record as soon as the run is
\* done with it: the record is of everything the tool attempted and changed.
EveryChangeIsRecorded == \A e \in touched : Recorded(e) \/ InHand(e)

\* The rows no candidate was able to fix: every change that could have been
\* made and tested was made, and failed.
ExhaustedMeansTried ==
  \A i \in Item : queue[i] = "exhausted" =>
    \A a \in Candidates[i] :
      Validates(a) /\ ChangesTheSystem(a) /\ i \in Testable
        => a \in AlreadyFailed(i)

\* A rollback leaves in the file what was in it when the change was made.
RollbackIsExact ==
  [][\A r \in Runner :
       run[r].pc = "rollback" /\ run'[r].pc = "log rollback" /\ Removes(r)
         => file'[Target(r)] = run[r].saved]_vars

\* A fixed item stays fixed, whatever later steps and later runs do.
ResolvedIsFinal ==
  [][\A i \in Item : queue[i] = "resolved" => queue'[i] = "resolved"]_vars

\* A step of the tool that empties a file leaves a copy of what was in it.
RemovedOnlyAfterBackup ==
  [][\A p \in Path :
       file[p] # Absent /\ file'[p] = Absent
         => \E b \in backup : b.path = p /\ b.content = file[p]]_vars

\* Once stopped, a run ends by itself: nobody has to answer first.
StopEndsRun ==
  \A r \in Runner : run[r].cancelled ~> (run[r].pc = "idle")
=============================================================================
