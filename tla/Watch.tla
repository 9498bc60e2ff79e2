------------------------------- MODULE Watch --------------------------------
(***************************************************************************)
(* The watcher: crates/ork-core/src/watch.rs (Watcher::run, look and       *)
(* look_once), started and stopped from the window                         *)
(* (apps/desktop/src-tauri/src/watching.rs) and from a scheduled task      *)
(* (`outlaw watch --once`, crates/ork-cli/src/watch.rs).                   *)
(*                                                                         *)
(* A looker is one run of a Watcher: one watch_start of the window, or one *)
(* process of the scheduled task.  All of them share one file.             *)
(***************************************************************************)
EXTENDS WatchBaseline

CONSTANTS
  Probe,    \* what a scan of this system runs
  Check,    \* what the checks of a machine may be like
  Elsewhere, \* a probe that does not run on this system
  Window,   \* runs started by watch_start
  Once,     \* processes of `outlaw watch --once`
  Faults,   \* subset of {"save", "unreadable", "quit"}
  None

Looker == Window \cup Once

\* A check finds by one probe and writes a probe's name on what it finds: its
\* own, or, on the SMART findings of Linux, one that runs only on Windows.  A
\* check that is not sure completes without a finding where it could not tell.
ASSUME WatchAssumption ==
  /\ Check \subseteq [by : Probe, names : Probe \cup {Elsewhere}, sure : BOOLEAN]
  /\ \A c \in Check : c.names \in {c.by, Elsewhere}
  /\ Elsewhere \notin Probe
  /\ Window \cap Once = {}
  /\ None \notin Window /\ None \notin Baseline

VARIABLES
  check,     \* [Problem -> the check of this machine that finds it]
  truth,     \* [Problem -> how bad it is on the machine]
  file,      \* watch-baseline.json, or None
  memory,    \* [Looker -> its own copy of the baseline, Fresh when it is off]
  pc,        \* [Looker -> where it is]
  running,   \* WatchState::running: the looker whose token is in there
  cancelled, \* the lookers whose token is cancelled
  news,      \* [Looker -> the look it has not delivered yet, or Quiet]
  told,      \* history: [Problem -> what a reader last heard of it]
  tidy       \* history: nothing overlapped, and no word was lost on its way

vars == <<check, truth, file, memory, pc, running, cancelled, news, told, tidy>>
slot == <<running, cancelled>>
reader == <<told, tidy>>

PC == {"off", "loading", "top", "looking", "saving", "asleep"}

HeldQuiet == -1   \* announced as flapping, and muted since
NothingYet == -2  \* nothing heard, or the history was cleared

TypeOK ==
  /\ check \in [Problem -> Check]
  /\ truth \in [Problem -> Level]
  /\ file \in Baseline \cup {None}
  /\ memory \in [Looker -> Baseline]
  /\ pc \in [Looker -> PC]
  /\ running \in Window \cup {None}
  /\ cancelled \subseteq Window
  /\ news \in [Looker -> Look]
  /\ told \in [Problem -> Level \cup {HeldQuiet, NothingYet}]
  /\ tidy \in BOOLEAN

Active(l) == pc[l] # "off"
Busy(l) == Active(l) \/ news[l] # Quiet
NobodyElse(l) == \A k \in Looker \ {l} : ~ Busy(k)

Moves(l, from, to) == pc[l] = from /\ pc' = [pc EXCEPT ![l] = to]

\* What a baseline would tell a reader who heard all of it.
View(b) == [p \in Problem |-> IF p \in b.muted THEN HeldQuiet ELSE Was(b, p)]

-----------------------------------------------------------------------------
(* Starting and stopping.                                                   *)

\* A looker is used again once it has ended and everything it said was heard.
Begin(l) ==
  /\ news[l] = Quiet
  /\ Moves(l, "off", "loading")
  /\ tidy' = (tidy /\ NobodyElse(l))

WatchStart(l) ==
  /\ running = None
  /\ Begin(l)
  /\ running' = l
  /\ UNCHANGED <<check, truth, file, memory, cancelled, news, told>>

WatchStop ==
  /\ running # None
  /\ cancelled' = cancelled \cup {running}
  /\ running' = None
  /\ UNCHANGED <<check, truth, file, memory, pc, news, reader>>

LookOnce(l) ==
  /\ Begin(l)
  /\ UNCHANGED <<check, truth, file, memory, slot, news, told>>

\* A missing file is a first run; so is one that cannot be read.
Load(l) ==
  /\ Moves(l, "loading", IF l \in Once THEN "looking" ELSE "top")
  /\ \/ memory' = [memory EXCEPT ![l] = IF file = None THEN Fresh ELSE file]
     \/ "unreadable" \in Faults /\ memory' = [memory EXCEPT ![l] = Fresh]
  /\ UNCHANGED <<check, truth, file, slot, news, reader>>

\* Mutation: the token is not looked at before a look.
BeginLookRegardless(l) ==
  /\ news[l] = Quiet
  /\ Moves(l, "top", "looking")
  /\ UNCHANGED <<check, truth, file, memory, slot, news, reader>>

\* BOUND: one look at a time is waiting to be heard.
BeginLook(l) ==
  /\ l \notin cancelled
  /\ news[l] = Quiet
  /\ Moves(l, "top", "looking")
  /\ UNCHANGED <<check, truth, file, memory, slot, news, reader>>

Ends(l, from) ==
  /\ l \in cancelled
  /\ Moves(l, from, "off")
  /\ memory' = [memory EXCEPT ![l] = Fresh]
  /\ cancelled' = cancelled \ {l}
  /\ UNCHANGED <<check, truth, file, running, news, reader>>

-----------------------------------------------------------------------------
(* One look.                                                                *)

\* Problems a completed check may leave out though they are there: `systemctl`
\* exits with an error and an empty list is read, a drive gives no verdict, an
\* application cannot be tested.
Unsure == {p \in Problem : ~ check[p].sure}

\* What a finished scan reports when the probes `ran` ran to completion and
\* could not tell about the problems `missed`.
Reported(ran, missed) ==
  [judged |-> {p \in Problem : check[p].names \in ran},
   found |-> [p \in Problem |->
                IF check[p].by \in ran /\ p \notin missed THEN truth[p] ELSE Absent]]

Compare(l, r) ==
  /\ memory' = [memory EXCEPT ![l] = NextBaseline(memory[l], r)]
  /\ news' = [news EXCEPT ![l] = Compared(memory[l], r)]

\* The scan finished; the probes outside `ran` were skipped or failed.
LookDone(l, ran, missed) ==
  /\ Moves(l, "looking", "saving")
  /\ Compare(l, Reported(ran, missed))
  /\ UNCHANGED <<check, truth, file, slot, reader>>

\* The scan was stopped: a partial view is compared with nothing, and yet what
\* is remembered is saved.
LookStopped(l) ==
  /\ l \in cancelled
  /\ Moves(l, "looking", "saving")
  /\ UNCHANGED <<check, truth, file, memory, slot, news, reader>>

\* A running watcher sleeps until its next look; the task is over.
LookOver(l, from) ==
  /\ Moves(l, from, IF l \in Once THEN "off" ELSE "asleep")
  /\ memory' = IF l \in Once THEN [memory EXCEPT ![l] = Fresh] ELSE memory

\* The scan itself failed.
Trouble(l) ==
  /\ LookOver(l, "looking")
  /\ UNCHANGED <<check, truth, file, slot, news, reader>>

\* Mutation: only the starting point is ever written down.
SaveStartOnly(l) ==
  /\ LookOver(l, "saving")
  /\ file' = IF news[l].first THEN memory[l] ELSE file
  /\ UNCHANGED <<check, truth, slot, news, reader>>

Save(l) ==
  /\ LookOver(l, "saving")
  /\ file' = memory[l]
  /\ UNCHANGED <<check, truth, slot, news, reader>>

\* The running watcher reports the look all the same; the task exits with the
\* error and has shown nothing.
SaveFails(l) ==
  /\ "save" \in Faults
  /\ LookOver(l, "saving")
  /\ news' = IF l \in Once THEN [news EXCEPT ![l] = Quiet] ELSE news
  /\ tidy' = FALSE
  /\ UNCHANGED <<check, truth, file, slot, told>>

Wake(l) ==
  /\ Moves(l, "asleep", "top")
  /\ UNCHANGED <<check, truth, file, memory, slot, news, reader>>

-----------------------------------------------------------------------------
(* The reader, the machine, and what goes wrong around the watcher.         *)

\* What a change leaves the reader believing.
HeardOf(c) == IF c.change = "flapping" THEN HeldQuiet ELSE c.now

Heard(C) ==
  [p \in Problem |->
     IF \E c \in C : c.problem = p THEN HeardOf(CHOOSE c \in C : c.problem = p)
     ELSE told[p]]

\* The event of a look reaches the window, or the terminal prints it.
Deliver(l) ==
  /\ news[l] # Quiet
  /\ pc[l] # "saving"
  /\ told' = IF news[l].first THEN news[l].recorded ELSE Heard(news[l].changes)
  /\ news' = [news EXCEPT ![l] = Quiet]
  /\ UNCHANGED <<check, truth, file, memory, pc, slot, tidy>>

\* watch_forget removes the file and clears the history; it does not look at
\* whether a watcher is running.
Forget ==
  /\ file # None
  /\ file' = None
  /\ told' = [p \in Problem |-> NothingYet]
  /\ tidy' = (tidy /\ \A l \in Looker : ~ Busy(l))
  /\ UNCHANGED <<check, truth, memory, pc, slot, news>>

\* The processes of the lookers L end without a word.  What was saved and not
\* yet heard is lost.
Dies(L) ==
  /\ "quit" \in Faults
  /\ pc' = [l \in Looker |-> IF l \in L THEN "off" ELSE pc[l]]
  /\ memory' = [l \in Looker |-> IF l \in L THEN Fresh ELSE memory[l]]
  /\ news' = [l \in Looker |-> IF l \in L THEN Quiet ELSE news[l]]
  /\ tidy' = (tidy /\ \A l \in L : news[l] # Quiet => pc[l] = "saving")
  /\ UNCHANGED <<check, truth, file, told>>

QuitApp ==
  /\ \E l \in Window : Busy(l)
  /\ Dies(Window)
  /\ running' = None
  /\ cancelled' = {}

KillTask(l) ==
  /\ Busy(l)
  /\ Dies({l})
  /\ UNCHANGED slot

Drift(p, level) ==
  /\ level # truth[p]
  /\ truth' = [truth EXCEPT ![p] = level]
  /\ UNCHANGED <<check, file, memory, pc, slot, news, reader>>

-----------------------------------------------------------------------------
Init ==
  /\ check \in [Problem -> Check]
  /\ truth \in [Problem -> Level]
  /\ file = None
  /\ memory = [l \in Looker |-> Fresh]
  /\ pc = [l \in Looker |-> "off"]
  /\ running = None
  /\ cancelled = {}
  /\ news = [l \in Looker |-> Quiet]
  /\ told = [p \in Problem |-> NothingYet]
  /\ tidy = TRUE

Steps(l) ==
  \/ Load(l)
  \/ BeginLook(l)
  \/ Ends(l, "top")
  \/ \E ran \in SUBSET Probe, missed \in SUBSET Unsure : LookDone(l, ran, missed)
  \/ LookStopped(l)
  \/ Trouble(l)
  \/ Save(l)
  \/ SaveFails(l)
  \/ Wake(l)
  \/ Ends(l, "asleep")

Next ==
  \/ \E l \in Looker : Steps(l) \/ Deliver(l)
  \/ \E l \in Window : WatchStart(l)
  \/ \E l \in Once : LookOnce(l) \/ KillTask(l)
  \/ WatchStop
  \/ Forget
  \/ QuitApp
  \/ \E p \in Problem, level \in Level : Drift(p, level)

Spec == Init /\ [][Next]_vars

\* A looker that can go on does, and its event queue is drained.  Nobody need
\* start, stop or forget anything, and the machine need never change.
FairSpec == Spec /\ \A l \in Looker : WF_vars(Steps(l)) /\ WF_vars(Deliver(l))

-----------------------------------------------------------------------------
(* What must hold.                                                          *)

\* "So a problem is only ever declared gone by the check that would have found
\* it" (docs/watching.md:63): when a watcher marks a problem gone, the check
\* that finds it ran to the end and found nothing, and if it is a check that
\* can tell, the problem is gone -- whichever probes ran and however the scan
\* was stopped.  Of a check that cannot always tell, no more is so
\* (services.rs:126-136, disk_health.rs:44); and a finding that names a check of
\* another system is never marked gone.
GoneMeansGone ==
  [][\A l \in Looker, p \in Problem :
       Active(l) /\ Active(l)' /\ Present(memory[l], p) /\ ~ Present(memory'[l], p)
         => /\ check[p].names = check[p].by
            /\ check[p].sure => truth[p] = Absent]_vars

\* Every change told fits what the reader was told before: new only if it was
\* not there, worse and better from the level last named, gone only if it was
\* there, and nothing more of what is held quiet (docs/watching.md:19-24,67-74).
Lawful(c) ==
  /\ told[c.problem] = c.was
  /\ c.change \in {"appeared", "flapping"} => c.was = Absent /\ c.now # Absent
  /\ c.change = "worsened" => c.was # Absent /\ c.now > c.was
  /\ c.change = "eased" => c.now # Absent /\ c.now < c.was
  /\ c.change = "cleared" => c.was # Absent /\ c.now = Absent

\* Over any number of watchers and tasks one after the other, with restarts,
\* crashes and lost files in between, readers hear one coherent story.
TellsOneStory ==
  [][\A l \in Looker : tidy /\ Deliver(l) => \A c \in news[l].changes : Lawful(c)]_vars

\* A watcher with nothing left to deliver has told all it remembers.
ToldIsUpToDate ==
  \A l \in Looker :
    tidy /\ pc[l] = "asleep" /\ news[l] = Quiet /\ memory[l].established
      => told = View(memory[l])

\* The stop button reaches every watcher of the window that goes on looking.
NoStrayWatcher == \A l \in Window : Active(l) => running = l \/ l \in cancelled

\* "Stopping is immediate" (watch.rs:682-683): a stopped watcher ends.
StoppedWatcherEnds == \A l \in Window : l \in cancelled ~> ~ Active(l)

\* "One failed round is not a reason to stop" (watch.rs:552-553): the watcher
\* in the slot looks again and again.
KeepsWatching == \A l \in Window : running = l ~> pc[l] = "looking" \/ running # l

\* A look in which the check of the problem runs and can tell -- and, where
\* there is nothing to find, the check named on what was found before runs too.
Judged(l, p, level) ==
  \E ran \in SUBSET Probe, missed \in SUBSET Unsure :
    /\ check[p].by \in ran /\ p \notin missed
    /\ level = Absent => check[p].names \in ran
    /\ LookDone(l, ran, missed)

\* A problem that stays as it is under a watcher whose check judges it again and
\* again ends up told as it is, or held quiet -- even if the check misses it
\* again and again in between: no change is missed for good.
StayingProblemIsTold ==
  \A l \in Window, p \in Problem, level \in Level :
    /\ <>[](running = l /\ tidy /\ truth[p] = level)
    /\ []<><<Judged(l, p, level)>>_vars
    => <>[](told[p] \in {level, HeldQuiet})

\* docs/desktop.md:243-246: after "Forget and start over" the next look records
\* a fresh starting point and reports nothing.
ForgetStartsOver ==
  [][file = None /\ file' # None /\ file'.established
       => \E l \in Looker : pc[l] = "saving" /\ news[l].first]_vars
=============================================================================
