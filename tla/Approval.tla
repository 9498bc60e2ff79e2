----------------------------- MODULE Approval ------------------------------
(***************************************************************************)
(* Asking for permission in the desktop application:                       *)
(* apps/desktop/src-tauri/src/fixing.rs (fix_run, AskTheWindow::approve    *)
(* and park, fix_answer, deliver, fix_cancel) and the screen that shows    *)
(* the question, src/lib/QueueView.svelte.                                 *)
(*                                                                         *)
(* A Run is one call of the fix_run command.  Calls, answers, stops and    *)
(* screen changes interleave; `slot` and `running` are the two mutexes     *)
(* they share.                                                             *)
(***************************************************************************)
EXTENDS Integers

CONSTANTS
  Run,           \* calls of fix_run
  MaxQuestions,  \* how many questions one run can come to
  Block,         \* ids set aside for one run (1 000 in the code)
  None

ASSUME ApprovalAssumption ==
  /\ MaxQuestions \in Nat \ {0} /\ Block \in Nat \ {0}
  /\ None \notin Run /\ None \notin Run \X (1 .. MaxQuestions)

VARIABLES
  pc,        \* [Run -> where the call is]
  running,   \* FixState::running: the run whose token is in there
  cancelled, \* the runs whose token is cancelled
  stopping,  \* a fix_cancel call: sent, holding the lock, or none
  nextId,    \* FixState::next_id
  base,      \* [Run -> the first id of the run's block]
  asked,     \* [Run -> questions asked so far]
  slot,      \* FixState::asking: the open question, or None
  channel,   \* [Question -> what its Receiver holds, or "closed"]
  result,    \* [Question -> what approve() returned, or "none"]
  events,    \* fix://ask events the page has not handled
  clicks,    \* fix_answer calls on their way
  view,      \* the Queue screen
  said       \* history: the answers a person gave

call == <<pc, running>>
stop == <<cancelled, stopping>>
ids == <<nextId, base, asked>>
question == <<slot, channel>>
window == <<events, clicks, view, said>>
vars == <<pc, running, cancelled, stopping, nextId, base, asked, slot, channel,
          result, events, clicks, view, said>>

Question == Run \X (1 .. MaxQuestions)
Answer == {"approve", "decline", "stop"}

RunOf(q) == q[1]

\* A run takes a block of ids; each of its questions takes the next of them.
Id(q) == base[q[1]] + q[2] - 1

Current(r) == <<r, asked[r]>>

PC == {"ready", "called", "working", "asking", "posted", "parked",
       "clearing", "ended", "unlocked", "over", "done"}

\* `up`: the screen is mounted.  `mine`: the call it awaits.  `ask`: the dialog.
View == [up : BOOLEAN, mine : Run \cup {None}, ask : Question \cup {None}]
Mounted(up) == [up |-> up, mine |-> None, ask |-> None]

TypeOK ==
  /\ pc \in [Run -> PC]
  /\ running \in Run \cup {None}
  /\ cancelled \subseteq Run
  /\ stopping \in {"no", "sent", "release"}
  /\ nextId \in Nat
  /\ base \in [Run -> Nat]
  /\ asked \in [Run -> 0 .. MaxQuestions]
  /\ slot \in Question \cup {None}
  /\ channel \in [Question -> Answer \cup {"empty", "closed"}]
  /\ result \in [Question -> Answer \cup {"none"}]
  /\ events \subseteq Question
  /\ clicks \subseteq Question \X Answer
  /\ view \in View
  /\ said \subseteq Question \X Answer

Moves(r, from, to) == pc[r] = from /\ pc' = [pc EXCEPT ![r] = to]

\* A question leaves the slot, its Sender used (or dropped: "closed").
TakeSlot(a) ==
  /\ slot' = None
  /\ channel' = IF slot # None /\ channel[slot] = "empty"
                THEN [channel EXCEPT ![slot] = a] ELSE channel

-----------------------------------------------------------------------------
(* fix_run.                                                                 *)

\* fix_cancel holds the lock on `running` until it has released the question.
LockFree == stopping # "release"

TakeIds(r) ==
  /\ nextId' = nextId + Block
  /\ base' = [base EXCEPT ![r] = nextId]

Begin(r) ==
  /\ LockFree
  /\ running = None
  /\ Moves(r, "called", "working")
  /\ running' = r
  /\ TakeIds(r)
  /\ UNCHANGED <<stop, asked, question, result, window>>

\* "the queue is already being worked"
Refuse(r) ==
  /\ LockFree
  /\ running # None
  /\ Moves(r, "called", "over")
  /\ UNCHANGED <<running, stop, ids, question, result, window>>

\* The engine comes to a change that needs permission; it looks at the token.
NextChange(r) ==
  /\ asked[r] < MaxQuestions
  /\ r \notin cancelled
  /\ Moves(r, "working", "asking")
  /\ UNCHANGED <<running, stop, ids, question, result, window>>

EndOfQueue(r) ==
  /\ Moves(r, "working", "ended")
  /\ UNCHANGED <<running, stop, ids, question, result, window>>

Unlock(r) ==
  /\ LockFree
  /\ Moves(r, "ended", "unlocked")
  /\ running' = None
  /\ UNCHANGED <<stop, ids, question, result, window>>

\* `slot.take()`, with the lock on `running` already let go.
Sweep(r) ==
  /\ Moves(r, "unlocked", "over")
  /\ TakeSlot("closed")
  /\ UNCHANGED <<running, stop, ids, result, window>>

-----------------------------------------------------------------------------
(* AskTheWindow::approve and park, on the run's own thread.                 *)

\* A fresh id, a fresh channel, and the question put in the slot.
Post(r) ==
  /\ Moves(r, "asking", "posted")
  /\ asked' = [asked EXCEPT ![r] = @ + 1]
  /\ slot' = <<r, asked[r] + 1>>
  /\ channel' = IF slot # None /\ channel[slot] = "empty"
                THEN [channel EXCEPT ![slot] = "closed"] ELSE channel
  /\ UNCHANGED <<running, stop, nextId, base, result, window>>

\* The event was emitted; that says nothing of who is listening.
Announce(r) ==
  /\ Moves(r, "posted", "parked")
  /\ events' = events \cup {Current(r)}
  /\ UNCHANGED <<running, stop, ids, question, result, clicks, view, said>>

CannotAnnounce(r) ==
  /\ Moves(r, "posted", "working")
  /\ TakeSlot("closed")
  /\ result' = [result EXCEPT ![Current(r)] = "decline"]
  /\ UNCHANGED <<running, stop, ids, window>>

Answered(r, a) ==
  /\ Moves(r, "parked", "clearing")
  /\ result' = [result EXCEPT ![Current(r)] = a]
  /\ UNCHANGED <<running, stop, ids, question, window>>

Holds(r) == IF pc[r] = "parked" THEN channel[Current(r)] ELSE "empty"

\* Mutation: a question is not released by a stop.
ParkIgnoresStop(r) == FALSE /\ Answered(r, "stop")

ParkSeesStop(r) == r \in cancelled /\ Answered(r, "stop")

ParkReceives(r) ==
  \E a \in Answer : Holds(r) = a /\ Answered(r, a)

ParkDisconnected(r) ==
  Holds(r) = "closed" /\ Answered(r, "decline")

\* `slot.take()` after park, and the Receiver goes; the engine goes on, or
\* leaves on a stop.
Clear(r) ==
  /\ pc[r] = "clearing"
  /\ \/ result[Current(r)] # "stop" /\ Moves(r, "clearing", "working")
     \/ result[Current(r)] = "stop" /\ Moves(r, "clearing", "ended")
  /\ slot' = None
  /\ channel' = [channel EXCEPT ![Current(r)] = "closed"]
  /\ UNCHANGED <<running, stop, ids, result, window>>

-----------------------------------------------------------------------------
(* fix_answer and fix_cancel, on threads of the application.                *)

\* Mutation: an answer goes to whatever question is open.
DeliverToAny(q, a) ==
  /\ <<q, a>> \in clicks
  /\ clicks' = clicks \ {<<q, a>>}
  /\ IF slot # None THEN TakeSlot(a) ELSE UNCHANGED question
  /\ UNCHANGED <<call, stop, ids, result, events, view, said>>

\* An answer reaches the question whose id it names, or nothing.
Deliver(q, a) ==
  /\ <<q, a>> \in clicks
  /\ clicks' = clicks \ {<<q, a>>}
  /\ IF slot # None /\ Id(slot) = Id(q) THEN TakeSlot(a) ELSE UNCHANGED question
  /\ UNCHANGED <<call, stop, ids, result, events, view, said>>

\* fix_cancel takes the lock and cancels the token it finds.
CancelToken ==
  /\ stopping = "sent"
  /\ running # None
  /\ cancelled' = cancelled \cup {running}
  /\ stopping' = "release"
  /\ UNCHANGED <<call, ids, question, result, window>>

NothingToCancel ==
  /\ stopping = "sent"
  /\ running = None
  /\ stopping' = "no"
  /\ UNCHANGED <<call, cancelled, ids, question, result, window>>

ReleaseQuestion ==
  /\ stopping = "release"
  /\ stopping' = "no"
  /\ TakeSlot("stop")
  /\ UNCHANGED <<call, cancelled, ids, result, window>>

-----------------------------------------------------------------------------
(* QueueView.svelte.                                                        *)

\* "Work the queue", enabled while this screen awaits no run of its own.
Work(r) ==
  /\ view.up /\ view.mine = None /\ view.ask = None
  /\ Moves(r, "ready", "called")
  /\ view' = [view EXCEPT !.mine = r]
  /\ UNCHANGED <<running, stop, ids, question, result, events, clicks, said>>

\* The promise of fixRun settles: `running = false; ask = null`.
WorkReturns(r) ==
  /\ Moves(r, "over", "done")
  /\ view' = IF view.mine = r THEN [view EXCEPT !.mine = None, !.ask = None]
             ELSE view
  /\ UNCHANGED <<running, stop, ids, question, result, events, clicks, said>>

\* onFixAsk: the listener belongs to the screen, and goes with it.
HandleAsk(q) ==
  /\ q \in events
  /\ events' = events \ {q}
  /\ IF view.up
     THEN view' = [view EXCEPT !.ask = q]
     ELSE UNCHANGED view
  /\ UNCHANGED <<call, stop, ids, question, result, clicks, said>>

\* A button of the dialog: it closes, and fixAnswer is on its way.
Click(a) ==
  /\ view.ask # None
  /\ clicks' = clicks \cup {<<view.ask, a>>}
  /\ said' = said \cup {<<view.ask, a>>}
  /\ view' = [view EXCEPT !.ask = None]
  /\ UNCHANGED <<call, stop, ids, question, result, events>>

\* The Stop button, which is there while this screen awaits a run.
ClickStop ==
  /\ view.up /\ view.mine # None /\ view.ask = None
  /\ stopping = "no"
  /\ stopping' = "sent"
  /\ UNCHANGED <<call, cancelled, ids, question, result, window>>

\* Another tab: the screen is destroyed.  The dialog covers the tabs.
SwitchAway ==
  /\ view.up /\ view.ask = None
  /\ view' = Mounted(FALSE)
  /\ UNCHANGED <<call, stop, ids, question, result, events, clicks, said>>

SwitchBack ==
  /\ ~view.up
  /\ view' = Mounted(TRUE)
  /\ UNCHANGED <<call, stop, ids, question, result, events, clicks, said>>

-----------------------------------------------------------------------------
Init ==
  /\ pc = [r \in Run |-> "ready"]
  /\ running = None
  /\ cancelled = {} /\ stopping = "no"
  /\ nextId = 0
  /\ base = [r \in Run |-> 0]
  /\ asked = [r \in Run |-> 0]
  /\ slot = None
  /\ channel = [q \in Question |-> "empty"]
  /\ result = [q \in Question |-> "none"]
  /\ events = {} /\ clicks = {}
  /\ view = Mounted(TRUE)
  /\ said = {}

RunStep(r) ==
  \/ Begin(r) \/ Refuse(r) \/ NextChange(r) \/ EndOfQueue(r)
  \/ Unlock(r) \/ Sweep(r)
  \/ Post(r) \/ Announce(r) \/ CannotAnnounce(r)
  \/ ParkSeesStop(r) \/ ParkReceives(r) \/ ParkDisconnected(r) \/ Clear(r)

CommandStep ==
  \/ \E q \in Question, a \in Answer : Deliver(q, a)
  \/ CancelToken \/ NothingToCancel \/ ReleaseQuestion

PageStep ==
  \/ \E r \in Run : WorkReturns(r)
  \/ \E q \in Question : HandleAsk(q)

PersonStep ==
  \/ \E r \in Run : Work(r)
  \/ \E a \in Answer : Click(a)
  \/ ClickStop \/ SwitchAway \/ SwitchBack

Next == (\E r \in Run : RunStep(r)) \/ CommandStep \/ PageStep \/ PersonStep

Spec == Init /\ [][Next]_vars

\* The runtime schedules every thread, and a mutex that is free again and again
\* is got in the end; a person need not do anything.
FairSpec ==
  /\ Spec
  /\ \A r \in Run : WF_vars(RunStep(r)) /\ SF_vars(Unlock(r))
  /\ WF_vars(CommandStep)

-----------------------------------------------------------------------------
(* Properties.                                                              *)

Asking(r) == pc[r] \in {"posted", "parked"}

\* What the engine and the person can tell of each question.
Verdict ==
  [q \in Question |->
     IF result[q] # "none" THEN result[q]
     ELSE IF Asking(q[1]) /\ q = Current(q[1]) THEN "open" ELSE "unasked"]

C == INSTANCE Consent WITH verdict <- Verdict, stopped <- cancelled

\* One question at a time, settled once, and never with a yes that was not
\* said to that very question: with late clicks, stops and a next run in the way.
KeepsConsent == C!Spec

InQueue(r) ==
  pc[r] \in {"working", "asking", "posted", "parked", "clearing", "ended"}

\* At most one run works the queue, and it holds the lock that says so.
OneRunAtATime == \A r \in Run : InQueue(r) => running = r

\* A stopped run ends by itself, whatever question it was waiting on.
StoppedRunEnds == \A r \in Run : r \in cancelled ~> pc[r] \in {"over", "done"}

\* A question that is waited on was put on a screen: its event is not lost.
NoQuestionGetsLost ==
  [][\A r \in Run :
       pc[r] = "parked" /\ Current(r) \in events \ events'
         => view'.ask = Current(r)]_vars
=============================================================================
