------------------------------- MODULE Outlaw -------------------------------
(***************************************************************************)
(* A use of the tool from the command line to the exit code, or of the      *)
(* window from its start: the self-test over a machine that changes, what   *)
(* it is asked to do, what goes wrong, and what is written down of that     *)
(* (ork-cli main, ork-boot, Incidents).                                     *)
(***************************************************************************)
EXTENDS Incidents

CONSTANTS
  Typed,      \* process -> what it may be asked for: [command, flags]
  Fragile,    \* subset of Thing: what may stop and start being in order
  MaxTurns,   \* bound: how often it does
  Alongside   \* bound: the report screen is used while another process is at
              \* work, or something is being written down

VARIABLES
  broken,     \* what the tool depends on and is not in order
  turns,      \* changes of that so far
  run         \* process -> Run

outlaw == <<broken, turns, run>>
vars == <<incidents, outlaw>>

Thing == {"platform", "configuration", "runbooks", "store", "snapshots"}

Ending == {"fine", "not ready", "something serious"}

\* the subcommands, and the window
Command ==
  {"scan", "watch", "watching", "stress", "models", "queue", "fix", "audit", "report", "config",
   "set-key", "link", "boot", "probes", "processes", "host", "docs", "window"}
Flag == {"json", "no_boot", "once", "apply", "explain", "clear"}

ASSUME OutlawAssumption ==
  /\ Fragile \subseteq Thing /\ MaxTurns \in Nat /\ Alongside \in BOOLEAN
  /\ \A p \in Proc : Typed[p] \subseteq [command : Command, flags : SUBSET Flag]

\* the exit code: what main makes of an ending, or of an error
Code(outcome) ==
  CASE outcome = "fine" -> 0
    [] outcome \in {"not ready", "broke", "refused"} -> 1
    [] outcome \in {"something serious", "not understood"} -> 2

NotAsked == [command |-> "none", flags |-> {}]
Mistyped == [command |-> "unknown", flags |-> {}]

Run ==
  [at : {"untyped", "checking", "failed", "working", "fixing", "done", "recording", "exited", "gone"},
   asked : [command : Command \cup {"none", "unknown"}, flags : SUBSET Flag], checks : 0 .. 7, failed : BOOLEAN, sound : SUBSET Thing, waived : BOOLEAN,
   worst : 0 .. 4, outcome : Ending \cup {"none", "broke", "refused", "unheard", "not understood"}, changed : BOOLEAN, code : -1 .. 255]
Untyped ==
  [at |-> "untyped", asked |-> NotAsked, checks |-> 0, failed |-> FALSE, sound |-> {}, waived |-> FALSE,
   worst |-> 0, outcome |-> "none", changed |-> FALSE, code |-> -1]

High == 3

command(p) == run[p].asked.command
flag(p, f) == f \in run[p].asked.flags

\* what the self-test said is not kept past the start-up
Set(p, r) ==
  run' = [run EXCEPT ![p] = IF r.at = "checking" THEN r ELSE [r EXCEPT !.checks = 0, !.failed = FALSE]]
Quiet == UNCHANGED <<located, screen, broken, turns>>

\* what is left of a process once its command is over: how it ended, its code,
\* and what these are to be held against
Left(p, at, outcome, code) ==
  Set(p, [Untyped EXCEPT !.at = at, !.asked.command = command(p), !.worst = run[p].worst,
                         !.outcome = outcome, !.code = code])
Answers(p, outcome) == Left(p, "done", outcome, -1)

-----------------------------------------------------------------------------
(* The self-test.                                                          *)

Checks == <<"platform", "probes", "configuration", "runbooks", "store", "snapshots", "recorded problems">>

\* where no directory for state can be found, there is nothing to be out of order
CheckState(thing) ==
  CASE thing = "recorded problems" ->
         IF located /\ \E i \in DOMAIN All(log) : All(log)[i].kind = "panic" THEN "warn" ELSE "pass"
    [] thing = "configuration" -> IF ~ located \/ thing \in broken THEN "warn" ELSE "pass"
    [] thing \in {"store", "snapshots"} ->
         IF ~ located THEN "warn" ELSE IF thing \in broken THEN "fail" ELSE "pass"
    [] thing \in {"platform", "runbooks"} -> IF thing \in broken THEN "fail" ELSE "pass"
    [] OTHER -> "pass"

Ready(p) == ~ run[p].failed

BootStyle(flags) ==
  IF "no_boot" \in flags THEN "skip" ELSE IF "json" \in flags THEN "quietly" ELSE "on screen"

\* (JsonSkips is a mutant: what it once was.)
JsonSkips(c) ==
  \/ c.command \in {"boot", "window"}
  \/ c.command \in {"scan", "stress", "fix"} /\ BootStyle(c.flags) = "on screen"
  \/ c.command = "watch" /\ "once" \notin c.flags /\ BootStyle(c.flags) = "on screen"

StartsUp(c) ==
  \/ c.command \in {"boot", "window"}
  \/ c.command \in {"scan", "stress", "fix"} /\ BootStyle(c.flags) # "skip"
  \/ c.command = "watch" /\ "once" \notin c.flags /\ BootStyle(c.flags) # "skip"

\* an invocation, or the window being opened
Type(p, c) ==
  /\ run[p].at = "untyped"
  /\ Alongside \/ (draft = NoDraft /\ Waits)
  /\ Set(p, [Untyped EXCEPT !.at = IF StartsUp(c) THEN "checking" ELSE "working", !.asked = c,
                            !.sound = Thing \ broken, !.waived = "no_boot" \in c.flags])
  /\ UNCHANGED <<incidents, broken, turns>>

\* what is typed is no command, or has an option it does not know
Mistype(p) ==
  /\ run[p].at = "untyped" /\ \E c \in Typed[p] : c.command # "window"
  /\ Set(p, [Untyped EXCEPT !.at = "exited", !.asked = Mistyped, !.outcome = "not understood",
                            !.code = Code("not understood")])
  /\ UNCHANGED file /\ Quiet

Check(p) ==
  /\ run[p].at = "checking" /\ run[p].checks < Len(Checks)
  /\ Set(p, [run[p] EXCEPT !.checks = @ + 1, !.failed = @ \/ CheckState(Checks[run[p].checks + 1]) = "fail"])
  /\ UNCHANGED file /\ Quiet

Checked(p) == run[p].at = "checking" /\ run[p].checks = Len(Checks)

Booted(p) ==
  /\ Checked(p) /\ command(p) = "boot"
  /\ Set(p, [run[p] EXCEPT !.at = "done", !.outcome = IF Ready(p) THEN "fine" ELSE "not ready"])
  /\ UNCHANGED file /\ Quiet

Refused(p) ==
  /\ Checked(p) /\ command(p) = "fix" /\ flag(p, "apply") /\ ~ Ready(p)
  /\ Answers(p, "refused")
  /\ UNCHANGED file /\ Quiet

StartedUp(p) ==
  /\ Checked(p) /\ command(p) # "boot"
  /\ Ready(p) \/ ~ (command(p) = "window" \/ (command(p) = "fix" /\ flag(p, "apply")))
  /\ Set(p, [run[p] EXCEPT !.at = "working"])
  /\ UNCHANGED file /\ Quiet

\* the window's start-up screen stays when a check failed, or when it could not be run
ScreenFails(p) ==
  /\ command(p) = "window" /\ run[p].at = "checking" /\ (Checked(p) => ~ Ready(p))
  /\ Set(p, [run[p] EXCEPT !.at = "failed"])
  /\ UNCHANGED file /\ Quiet

ContinueAnyway(p) ==
  /\ run[p].at = "failed"
  /\ Set(p, [run[p] EXCEPT !.at = "working", !.waived = TRUE])
  /\ UNCHANGED file /\ Quiet

-----------------------------------------------------------------------------
(* What was asked for.                                                     *)

Does(p, c) == run[p].at = "working" /\ command(p) = c


Scan(p, worst) ==
  /\ Does(p, "scan") /\ "platform" \notin broken /\ run[p].worst = 0
  /\ LET ending == IF worst >= High THEN "something serious" ELSE "fine"
         explained == flag(p, "explain") => broken \cap {"configuration", "runbooks"} = {} /\ located
     IN  Set(p, [run[p] EXCEPT !.at = "done", !.worst = worst, !.outcome = IF explained THEN ending ELSE "broke"])
  /\ UNCHANGED file /\ Quiet

OpensQueue(p) ==
  /\ Does(p, "fix") \/ Does(p, "window")
  /\ located /\ broken \cap {"store", "runbooks", "platform"} = {}
  /\ Set(p, [run[p] EXCEPT !.at = "fixing"])
  /\ UNCHANGED file /\ Quiet

ChangesMachine(p) ==
  /\ run[p].at = "fixing" /\ (flag(p, "apply") \/ command(p) = "window")
  /\ Set(p, [run[p] EXCEPT !.changed = TRUE])
  /\ UNCHANGED file /\ Quiet

QueueWorked(p) ==
  /\ run[p].at = "fixing"
  /\ IF command(p) = "window" THEN Set(p, [run[p] EXCEPT !.at = "working"]) ELSE Answers(p, "fine")
  /\ UNCHANGED file /\ Quiet

Forgets(p) ==
  /\ Does(p, "report") /\ flag(p, "clear") /\ located
  /\ Answers(p, "fine") /\ Clear /\ Quiet

\* everything else that is shown, watched or set
Finishes(p) ==
  /\ run[p].at = "working" /\ command(p) \notin {"scan", "fix", "window"} /\ ~ flag(p, "clear")
  /\ Answers(p, "fine")
  /\ UNCHANGED file /\ Quiet

\* "say which machine": declined, which is no fault
Declines(p) ==
  /\ Does(p, "stress")
  /\ Answers(p, "refused")
  /\ UNCHANGED file /\ Quiet

Breaks(p) ==
  /\ run[p].at \in {"working", "fixing"} /\ command(p) # "window"
  /\ Answers(p, "broke")
  /\ UNCHANGED file /\ Quiet

\* What is recorded while it carries on: a panic in one of its threads or
\* tasks; an error where something other than the command went wrong -- a step
\* of a rollback, a link that could not be written down, anything in the window.
Logs(p) ==
  /\ run[p].at \in {"working", "fixing"} /\ located /\ (Alongside \/ Waits)
  /\ \/ BeginRecord(<<p, "panic">>)
     \/ /\ command(p) \in {"window", "link"} \/ run[p].changed
        /\ BeginRecord(<<p, "error">>)
  /\ UNCHANGED run /\ Quiet

-----------------------------------------------------------------------------
(* The end.                                                                *)

Leaves(p, outcome, code) == Left(p, "exited", outcome, code)

\* (RecordsAny is a mutant: a refusal is an error like any other.)
RecordsAny(p) ==
  /\ run[p].at = "done" /\ run[p].outcome \in {"broke", "refused"} /\ located
  /\ BeginRecord(<<p, "error">>)
  /\ Left(p, "recording", run[p].outcome, Code(run[p].outcome))
  /\ Quiet

Records(p) ==
  /\ run[p].at = "done" /\ run[p].outcome = "broke" /\ located
  /\ BeginRecord(<<p, "error">>)
  /\ Left(p, "recording", "broke", Code("broke"))
  /\ Quiet

\* A command that returns waits for its threads; `process::exit`, which is how
\* the other endings become codes, does not.
Exits(p) ==
  /\ \/ /\ run[p].at = "done" /\ (run[p].outcome = "broke" => ~ located)
        /\ Leaves(p, run[p].outcome, Code(run[p].outcome))
        /\ IF run[p].outcome \in {"not ready", "something serious"} THEN Abandon(p)
           ELSE AllAtRest(p) /\ UNCHANGED file
     \/ /\ run[p].at = "recording" /\ AllAtRest(p)
        /\ Leaves(p, run[p].outcome, run[p].code) /\ UNCHANGED file
  /\ Quiet

\* whoever started it has read its code
Heard(p) ==
  /\ run[p].at = "exited"
  /\ Set(p, [Untyped EXCEPT !.at = "gone"])
  /\ UNCHANGED file /\ Quiet

Alive(p) == run[p].at \notin {"untyped", "exited", "gone"}
AtWork(p) == run[p].at \in {"checking", "failed", "working", "fixing"}

\* in the thread of the command itself, which ends it
Panics(p) ==
  /\ run[p].at \in {"checking", "working", "fixing"} /\ command(p) # "window"
  /\ IF located THEN BeginRecord(<<p, "panic">>) ELSE UNCHANGED file
  /\ Left(p, "recording", run[p].outcome, 101)
  /\ Quiet

\* whoever read the output has gone away: println! panics, and the hook exits
PipeBreaks(p) ==
  /\ run[p].at \in {"checking", "working", "fixing", "done"} /\ command(p) # "window" /\ located
  /\ Leaves(p, "unheard", 0) /\ Abandon(p)
  /\ Quiet

\* killed, or the power goes: there is no code
Dies(p) ==
  /\ Alive(p)
  /\ Set(p, [Untyped EXCEPT !.at = "gone"]) /\ Abandon(p)
  /\ IF command(p) = "window" THEN draft' = NoDraft /\ loading' = [l \in Load |-> NotLoading] ELSE UNCHANGED screen
  /\ UNCHANGED <<located, broken, turns>>

\* the world
Turns ==
  /\ turns < MaxTurns /\ turns' = turns + 1
  /\ \E t \in Fragile : broken' = IF t \in broken THEN broken \ {t} ELSE broken \cup {t}
  /\ run' = [p \in Proc |-> IF AtWork(p) THEN [run[p] EXCEPT !.sound = @ \cup (Thing \ broken')] ELSE run[p]]
  /\ UNCHANGED incidents

-----------------------------------------------------------------------------
(* The report screen of the window.                                        *)

Open == \E p \in Proc : Does(p, "window")

ReportScreen ==
  /\ Open /\ UNCHANGED <<located, outlaw>>
  /\ \/ Alongside
     \/ /\ ~ Writing(Writer)
        /\ \A p \in Proc : command(p) = "window" \/ run[p].at \in {"untyped", "gone"}
  /\ \/ /\ \E l \in Load : BeginLoad(l) \/ (located /\ (Build(l) \/ Loaded(l))) \/ CannotLoad(l)
        /\ UNCHANGED file
     \/ (PersonTypes \/ Restore) /\ UNCHANGED file
     \/ \E l \in Load : Forget(l) /\ Clear

-----------------------------------------------------------------------------
Init ==
  /\ IncidentsInit
  /\ broken \in SUBSET Fragile /\ turns = 0
  /\ run = [p \in Proc |-> Untyped]

Windows == {p \in Proc : Alive(p) /\ command(p) = "window"}

Uses(p) ==
  \/ \E c \in Typed[p] : (c.command = "window" => Windows = {}) /\ Type(p, c)
  \/ Mistype(p) \/ Check(p) \/ Booted(p) \/ Refused(p) \/ StartedUp(p) \/ ScreenFails(p) \/ ContinueAnyway(p)
  \/ \E worst \in {1, High} : Scan(p, worst)
  \/ OpensQueue(p) \/ ChangesMachine(p) \/ QueueWorked(p)
  \/ Forgets(p) \/ Finishes(p) \/ Declines(p) \/ Breaks(p) \/ Logs(p)
  \/ Records(p) \/ Exits(p) \/ Heard(p) \/ Panics(p) \/ PipeBreaks(p) \/ Dies(p)
  \/ (\E w \in Parts(p) : Recording(w)) /\ UNCHANGED <<located, screen, outlaw>>

Next == (\E p \in Proc : Uses(p)) \/ Turns \/ ReportScreen

Spec == Init /\ [][Next]_vars

-----------------------------------------------------------------------------
(* Properties.                                                             *)

TypeOK ==
  /\ \A i \in DOMAIN log : log[i] \in Line
  /\ broken \subseteq Thing
  /\ \A p \in Proc : run[p].at \in {"untyped", "gone"} <=> run[p].asked = NotAsked

Needed == IF located THEN Thing \ {"configuration"} ELSE {"platform", "runbooks"}

\* No fix reaches a machine on which something the tool has to rely on was out
\* of order from the moment it was started: the self-test comes first, whatever
\* is to be printed, unless it was waived by the person (--no-boot, "Continue
\* anyway").  What breaks after it was looked at is not seen; and the programs
\* that `processes --stop` ends are no fix: that command asks for no self-test.
\* (main.rs start_up, boot_style.)
VouchedFor ==
  \A p \in Proc :
    \/ run[p].changed /\ ~ run[p].waived
    \/ command(p) = "boot" /\ run[p].at = "done" /\ run[p].outcome = "fine"
    => Needed \subseteq run[p].sound

\* Wherever the processes are killed, and whatever could not be written: as
\* long as nothing was written to the file while one of its writers was
\* rewriting it -- two processes, or the two writers of one -- and no line was
\* cut inside a character, the file is the newest of what was written, KEEP
\* lines of it at least.  (incident/mod.rs try_record, trim, clear.)
HistoryIsKept ==
  ~ raced /\ Legible(written) =>
    /\ \E n \in 0 .. Len(written) : log = Newest(written, n)
    /\ Len(log) >= IF Len(written) < KEEP THEN Len(written) ELSE KEEP

\* What a script may conclude from the code alone: 0 means nothing serious,
\* ready, nothing refused; 2 that something serious was found, or that what was
\* typed was not understood.  And neither goes with an error on record, nor does
\* a refusal, but for what goes wrong under a fix or a link that carries on.
\* (main.rs main, Ending, run_scan; docs/commands.md:36.)
ExitSpeaks ==
  \A p \in Proc : run[p].at = "exited" /\ run[p].outcome # "unheard" =>
    /\ run[p].code = 0 => run[p].worst < High /\ run[p].outcome = "fine"
    /\ run[p].code = 2 => run[p].worst >= High \/ run[p].outcome = "not understood"
    /\ run[p].code \in {0, 2} \/ run[p].outcome = "refused" =>
         \A i \in DOMAIN written : written[i].by = p /\ written[i].kind = "error"
                                  => command(p) \in {"fix", "link"}

\* What the person has written leaves the screen when they ask for it, with
\* "Undo my edits" or "Forget", and never because a reading came back that was
\* begun when it stood there: what they write while one is under way is theirs
\* only from the next on.  (report.svelte.ts load.)
EditsAreKept ==
  [][draft.text = Theirs /\ draft'.text # Theirs =>
       \/ Restore \/ (\E l \in Load : Forget(l)) \/ Windows' = {}
       \/ \E l \in Load : Loaded(l) /\ ~ loading[l].theirs]_vars

\* A record that was written whole can be read.  (incident/mod.rs:185.)
RecordedIsRead == \A i \in DOMAIN written : written[i].kind # "unreadable"
\* docs/commands.md:46: 2 is what a scan that found something serious ends with
SeriousIsTwo ==
  \A p \in Proc : run[p].at = "exited" /\ run[p].worst >= High => run[p].code = 2
=============================================================================
