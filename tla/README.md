# Outlaw Repair Kit in TLA+

Outlaw Repair Kit looks for problems on a computer, keeps them in a queue, and
works the queue: it tries one fix after another, tests each, keeps the one that
helped and puts everything else back.  It never changes anything without being
told to.  This directory is the specification kept beside that program: TLA+
modules translated from the source, small instances for the model checker TLC,
and theorems checked by the proof system TLAPS.  Paths below are relative to the
repository, which is under `src/`.

To check an instance, `tlc -config LinkRun.cfg MCLink`; to check proofs,
`tlapm LinkProofs.tla`.

## 1. Inventory

| Part | Source | State it keeps | Operations | Talks to | Modules |
|---|---|---|---|---|---|
| Fix engine | `crates/ork-fix/src/engine.rs`, `plan.rs`, `snapshot.rs` | the plan, the attempt counter and the snapshot of the item in hand (memory); `snapshots/<id>/n.backup` (disk) | `work_item`, `plan`, `apply`, `Snapshot::create/capture/restore` | store, verifiers, approver, the file system, the service manager | `FixEngine` |
| Triage store | `crates/ork-fix/src/store.rs` | SQLite tables `queue`, `attempts`, `audit` | `enqueue`, `pending`, `set_state`, `record_attempt`, `already_failed`, `known_good` | every front-end, each through a connection of its own | `FixEngine` |
| Actions, verifiers | `crates/ork-fix/src/action.rs`, `verify.rs`, `verify/` | none | `validate`, `risk`, `from_recipe`, `VerifierRegistry::for_item`, `verify` | the operating system | `FixEngine`, `Judging`, `Launch`, `Checks` |
| Terminal front-end | `crates/ork-cli/src/fix.rs` | none | `enqueue_from_scan`, `work_queue`, `AskInTerminal` | engine, store, Ctrl-C | `FixEngine` |
| Window front-end | `apps/desktop/src-tauri/src/fixing.rs`, `apps/desktop/src/lib/QueueView.svelte` | mutexes `running` and `asking`, counter `next_id`; the screen's own `running` and `ask` | `fix_run`, `fix_answer`, `fix_cancel`, `AskTheWindow`, `work`, `answer`, `stop` | engine; events `fix://ask` and `fix://event` | `Consent`, `Approval` |
| Watcher | `crates/ork-core/src/watch.rs`, `apps/desktop/src-tauri/src/watching.rs` | the baseline (memory of each watcher, one JSON file), a slot, a history | `compare`, `run`, `look_once`, `watch_start/stop/forget` | scanner | `WatchBaseline`, `Watch` |
| Scan | `crates/ork-core/src/scan.rs`, `probe.rs`, `commands.rs`, `apps/desktop/src/lib/scan.svelte.ts` | the slot of the running scan, its token, the report on screen | `Scanner::run`, `start_scan`, `cancel_scan`, `explain_report` | probes, supervised commands, routing | `Scan` |
| Probes | `crates/ork-core/src/probes/`, `platform/` | none | `probe.run`, one per check | the operating system | `Judging`, `Launch`, `Checks` |
| Supervised commands | `crates/ork-core/src/exec.rs` | last activity, unseen time | `run_supervised` | child processes | `Scan` |
| Stress tests | `crates/ork-core/src/stress/`, `apps/desktop/src-tauri/src/stressing.rs` | a slot, the last report; per run a flag, a deadline, a channel of faults | `stress_start/stop`, `StressTest::run`, `burn_core`, `fill_memory` | worker threads, sensors | `Stress` |
| Linked machines | `crates/ork-link/src`, `apps/desktop/src-tauri/src/linking.rs` | peer books (memory and disk), the open pairing | pair, join, authorise, remove | the network | `Link` |
| AI routing, explanations | `crates/ork-ai/src` | none kept | `resolve`, `choose_model`, `analyse`, the runbook | models, linked machines | `Explain`, `Scan` |
| Process control | `crates/ork-core/src/processes`, `crates/ork-fix/src/processes.rs` | the pins in the settings; the audit log | survey, classify, `stop_these`, `judge`, `stop` | the operating system | `Standing`, `Sweep` |
| Start-up, exit codes | `crates/ork-boot/src`, `crates/ork-cli/src/main.rs`, `BootScreen.svelte` | a boot report | the self-test, `start_up`, `main`; the update check | everything | `Outlaw` |
| Incidents and reports | `crates/ork-core/src/incident`, `report.svelte.ts` | `incidents.jsonl`; the draft on screen | `record`, `trim`, `recent`, `clear`, `report`; `load`, `restore`, `forget` | every command, panics | `Incidents`, `Outlaw` |
| CritterScript | `crates/ork-critter/src` | none kept | tokenise, parse, run, run as guest, check | its host's commands | `Reading`, `Running`, `Critter` |
| Installer | `crates/ork-setup/src`, `install/` | staged, retired and placed files, a receipt | install, update, remove | the network, the file system | `Setup` |
| Configuration, facts, documentation index | `crates/ork-core/src/config.rs`, `platform/`, `docs.rs` | the settings | load, save; ask the system; search | all of the above | `Judging` and `Explain` for what is made of them |
| The window's other screens | `apps/desktop/src` | what they show | presentation | commands | none |

The front-ends are processes: the window and any number of terminals can work
one database, one directory of snapshots, one memory of the watcher and one
record of incidents at once.  Inside the window, commands run on threads of the
runtime, the fix loop and the scan each on a task of their own, and the page in a process
of its own that hears of both through events.  A stop is always a token that is
cancelled; what it reaches is whatever looks at that token.

What is hard to test here, and what each part owes:

* *Fix engine*: every change passes through copy, change, test, record and
  state, which are separate writes.  Anything can come between two of them: an
  error that leaves `work_item` through `?`, the end of the process, the program
  that owns the file, another process on the same queue.  Owed: nothing happens
  without permission for it; what was taken away can be got back; what was done
  is on record; "resolved" means a test said so.
* *Permission in the window*: a run parks on a channel while answers, stops,
  the next run and the screen come and go.  Owed: a yes only ever approves the
  change it was said to; one run at a time; a stop always works.
* *Watcher*: what is remembered is in a file and in the memory of every watcher
  that loaded it; checks are skipped, fail, or are cut short; watchers are
  stopped, started, killed and replaced by a scheduled task.  Owed: one coherent
  story for whoever reads it; a problem is cleared only by a check that ran;
  nothing that stays is missed; a stop stops.
* *Scan*: checks are skipped for several reasons, fail, and run programs that
  may be silent, busy or out of sight; what they found is sorted, queued,
  explained by whichever model answers.  Owed: only silence is called stuck; what
  kept a check from going the whole way is told; nothing leaves home that should
  not; no model puts an action on a finding; a stop ends the scan.
* *Checks*: a check and the test of its repair ask different tools and judge by
  different rules.  Owed: what is called fixed is no longer found; what got worse is not
  judged milder; an application that was running is left alone.
* *Stress tests*: worker threads at full load that only a shared flag reaches;
  stop, heat, faults, the deadline and the end of the window can all come at
  once.  Owed: nothing heats the machine with nobody watching the temperature;
  stop, heat and deadline each end the load; no fault is missing from the
  report, and a clean one means the work was done.
* *Linked machines*: requests are handled side by side, replies come late, and
  every session and command that has the list of linked machines in hand writes the
  whole of it back.  Owed: a short code cannot be guessed at without end; who was
  told it is linked is served, now and after the next start.
* *Process control*: between the list, the consent, the second look and the
  signal the machine goes on living.  Owed: nothing the tool runs in is stopped;
  nothing is stopped that was not agreed to; every stop is in the log.
* *Installer*: each step may fail or be the last.  Owed: what is under the
  program's name is a whole program; a receipt names what is there.
* *Start-up, exit codes, incidents*: what was tested may change before it is relied
  upon; the record is trimmed while the tool is crashing, by two parts of a process and by
  several processes; a script goes by the exit code.  Owed: no fix reaches a machine
  the self-test would not vouch for; the newest incidents are kept; the code tells
  what was found; edits stay.
* *CritterScript*: a guest may look and not touch, whatever way a command is
  called; what is read is what is written.

Every hazard found so far, at its line, with the property that covers it or the
reason there is none, is in `PROJECT.json`.

## 2. Modules

| Component | Specification | Instances | Theorems |
|---|---|---|---|
| fix loop, store, snapshots, any number of runners | `FixEngine` | `MCFixEngine` | `FixEngineProofs` |
| what asking for permission promises, and the window's mechanism for it | `Consent`, `Approval` | (in the `.cfg`) | `PermissionProofs` |
| the comparison with one scan; watchers and tasks around one file | `WatchBaseline`, `Watch` | `MCWatch` | `WatchProofs` |
| stress tests: supervisor, workers, deadman, slot | `Stress` | `MCStress` | `StressProofs` |
| lending a model: host, joiners, books, codes | `Link` | `MCLink` | `LinkProofs` |
| the installer's job and pages | `Setup` | `MCSetup` | `RecordProofs` |
| who may be stopped; stopping them | `Standing`, `Sweep` | `MCSweep` | `SweepProofs` |
| routing, runbook, explanations; a scan and its programs | `Explain`, `Scan` | `MCScan` | `ScanProofs` |
| the rules of the checks; starting an application; a check, a repair, a test | `Judging`, `Launch`, `Checks` | `MCChecks` | `FixEngineProofs` |
| reading and running scripts | `Reading`, `Running`, `Critter` | `MCCritter` | `PermissionProofs` |
| incidents and reports; one use of the tool from command line to exit code | `Incidents`, `Outlaw` | `MCOutlaw` | `RecordProofs` |

A module is built on those left of it: `Watch` steps by the comparison of
`WatchBaseline`, `Sweep` judges by `Standing`, a scan ends in `Explain`,
`Checks` composes the rules with the launch test, `Outlaw` composes the record
of incidents with every process that writes to it.  `Approval` is shown to
implement `Consent`.  Two modules of theorems hold those of two components: the
loop and the checks it goes by, and the two that keep a record, the installer its
receipt and the tool its incidents.

### FixEngine and the code

`queue` and `attempts` are the two tables (a row that repeats another verbatim
is kept once: nothing the code computes from the table tells the difference,
`known_good`'s count orders rows nobody looks at beyond membership).  `file` is
what is on the disk at the paths actions name, `backup` the copies under
`snapshots/`.  `run[r]` is what one process holds in memory while it works the
queue: the items it read when it started, the plan for the item in hand, the
number of changes tried in this call, the action, and whether the snapshot found
a file.  `consented`, `touched` and `removed` are history: the program does not
keep them, properties do.

The loop of `work_item` is the runner's `pc`:

    items -> loop -> asking -> approved -> captured -> applied -> log success -> resolve
              ^  \-> refused, advised         |           \-> rollback -> log rollback -> loop
              |                               \-> undo -> log failed -> loop
              `- declined

One action is one call that changes shared state: `Capture` is
`Snapshot::create` and `capture`, `Change` the removal or the restart in
`apply`, `RollBack` the `restore()?` after a test that did not pass, `UndoFailed`
the `let _ = restore()` after a change that did not succeed, `LogX`
a `record_attempt`, `MarkX` a `set_state`.  Each early return is an action of its own:
`NoCandidates`, `StopAtLoop`, `Refuse`, `Advise`, `Declined`, `Stopped`,
`CannotMakeSnapshot`, `CannotRollBack`, `LeaveToPerson`.  The verifier's verdict
is free: `VerdictFixed` or `VerdictNotFixed` (the code treats "still broken" and
"cannot tell" alike).  The plan is a set with the code's two-part sort key;
actions of equal key are taken in any order.

`Faults` says which failures an instance has: a copy that fails, a change the
system refuses, a rollback that fails, a process that dies.  `Interfering` says
in which phases of a change other programs may write the file concerned; they
may always write it at other times.

### Approval and the code

`running` and `slot` are the two mutexes of `FixState`; `base` and `asked` give
each question its id (`next_id.fetch_add(1_000)` is `Block`).  `channel[q]` is
what the Receiver of a question holds, "closed" once its Sender is gone.
`events`, `clicks` and `stopping` are messages under way between the page and the
commands; each arrives whenever it likes.  `view` is the Queue screen: mounted or not, the
run its `work()` awaits, the dialog it shows.

`Begin`, `Refuse`, `Unlock`, `Sweep` are `fix_run`; `Post`, `Announce`,
`CannotAnnounce`, `ParkX`, `Clear` are `approve` and `park`; `Deliver` is
`fix_answer`; `CancelToken`, `NothingToCancel` and `ReleaseQuestion` are
`fix_cancel`, which holds the lock on `running` for its two steps (`LockFree`).
What the engine does between two questions is `NextChange` and `EndOfQueue`.

`Consent` has three variables: the verdict on each question, what a person
said, whom they stopped.  A question is put when no other is open and settled
once; a yes needs that yes to have been said to that question, a stop needs a
stop, a refusal needs nothing.  `Approval` maps to it by `Verdict`, computed from
`result`, `pc` and `asked`.

### WatchBaseline, Watch and the code

`WatchBaseline` is `compare()` without its loops: which problems are found
(`Current`), are back (`Returns`), are gone (`Gone`: remembered, not found, and
the check their finding names ran), are held quiet from now on (`NewlyMuted`); and
from these the next baseline and the changes to report.  A problem is an occurrence key, a
severity a number; titles and times are left out.  The
count of appearances stops at `FlapLimit`, where it has done its work: from there
on the problem is muted.

`check[p]` is the check of a problem on this machine, chosen once: the probe that
finds it (`by`, the code's `outcome.probe`), the probe its finding names
(`names`, the code's `finding.probe`, which decides what it is cleared by), and whether
it always tells (`sure`).  The two probes differ for SMART findings, which name
`storage.health`, a probe that runs on Windows only (`Elsewhere`).  A check that is
not sure completes without a finding where it could not tell: `systemctl` ended with
an error and its empty list was read (`probes/services.rs:126-136`), a drive gave
no verdict (`probes/disk_health.rs:44`), an application could not be tested.  `Reported(ran, missed)`
is a report of the probes `ran` of which the unsure ones `missed` some.

A `Looker` of `Watch` is one run of a `Watcher`: started by `watch_start` (in
`Window`) or a process of `outlaw watch --once` (in `Once`).  Its `pc`:

    off -> loading -> top -> looking -> saving -> asleep -> top ...   (Window)
                 \-> looking -> saving -> off                         (Once)

`WatchStart`, `WatchStop` and `Forget` are the window's commands, `running` is
the slot of `WatchState` and `cancelled` the tokens that were cancelled.  A scan
is one step, for the machine may change (`Drift`) between any two: `LookDone`
compares a report of any set of completed checks, `LookStopped` is the early
return for a cancelled scan, after which the unchanged memory is saved all the
same, `Trouble` a scan that fails.  `Save` and `SaveFails` are `baseline.save`,
`Deliver` the event that reaches the reader, `Ends` the two places where `run`
notices a stop.  `Dies` is the end of a process (`QuitApp`, `KillTask`) between any
two steps.  `Faults` says whether saves fail, files cannot be read, processes end.

`told` and `tidy` are history.  `told` is what a reader last heard of each
problem, and with it what `WatchState::history` shows; `Forget` clears both.
`tidy` is lost for good when two lookers overlap, when a saved change dies before it is
heard, when a save fails, and when memory is forgotten under a running looker: each of these makes
readers hear something twice or not at all, and no document promises otherwise.

### Stress and the code

Each run has what one call of `StressTest::run` has: `halt`, the flag shared
with its workers; `channel`, the faults on their way; `faults` and `ending`, the
supervisor's locals; `work`, what each worker thread does.  Its `pc`:

    off -> starting -> watching -> joining -> done -> off
              |   \-> done (the memory could not be read)
              \--- Close, from any of them ---> dropped -> off

`watching` is the `select!`: `SeesStop`, `Hears`, `SeesAllEnded` and `SeesHeat` are
its branches, in any order, as the macro takes them.  `StopWatching` is what
follows each way out of the loop, `halt.store(true)` included.  `joining` awaits
the workers; `Publish` empties the channel and makes the report.  A core that
reported a wrong block is "spent": it keeps its core busy and reports no second
one; a memory worker that cannot begin is "refused".  `Spawn` starts the memory worker or leaves it out, as `memory::budget` decides.
`running` is the slot of `StressState`, `cancelled` the tokens in it that were
cancelled; `Clear` is the end of the spawned task, which empties the slot whoever is in it.
`Close` is the end of the window: every run is dropped, and `Deadman` sets the
flag; the threads outlive it until they see the flag or the process is `Gone`.
`wrong` is history: what went wrong while there was somebody to tell.

### Link and the code

A `Session` is one `HostState`, that is one start of lending, in the window or in a
terminal; several may run at once.  `showing` is its
`ActivePairing` (the code, the wrong tries, whether it is past its ten
minutes), `book` the peers it loaded when it started and honours.  `disk` is the
host's `peers.json` (`None` where a save tore it: nothing loads it then), `kept` what each joiner has in
its own.  An `Errand` is a command on the host beside the sessions, `link_join` or
`link_remove`: it reads the file (`Load`), waits for the other machine or looks for a
name, and writes its `copy` back (`Save`), or gives up (`Drop`).  A `Request` is one POST;
its `job` is how far the handler is:

    sent -> accepted -> recorded -> linked        (RightCode, Record, CloseAndAnswer)
       \-> refused            \-> failed          (WrongCode, Refuse; Record)

The three steps of a right answer are three locks of the code: handlers of
several requests interleave between them, and a code may be shown again
(`Reopen`) between them.  `Record` writes the session's whole copy over whatever the
file holds, which is why a machine that was cut comes back, and why a machine that
another session or a join has not seen is erased.  Its save may fail, with the machine in the copy and
the file as it was or torn.  A handler of a session that was stopped finishes; where the
process was killed it takes no further step.  `Join`,
`Joined`, `TurnedDown`, `GiveUp` are `client.rs`: a reply that comes after the
joiner gave up leaves the two machines remembering different things.  The key
exchange is its promise: a proof is accepted exactly with the code that is shown.
`wrongs` and `smooth` are history: how often a code was guessed at, and which
machines were linked with nothing in the way: no save failed, nobody gave up or cut
them, and they were recorded while nobody else had a copy in hand (`Alone`).

### Setup and the code

`stage` is how far `carry_out` is, one action per step that touches the machine;
each can fail with the error of its kind (`Fails`), and `Restart` is the window
closed or the power gone at any of them, and the installer started again.
`windows` is which system it runs on; the two part where a bundle is only an
installer, in the link on PATH, in the entry for the window and in Ollama.
`program` is the three names a placed program has: its own, `.incoming`, and
`.old`; `Write`, `Retire`, `Rename` are `place`, with what each leaves when it
stops half-way.  The conveniences (`LinkIntoPath`, `AddToPath`,
`TerminalShortcut`, `WindowShortcut`) and `GetModel` may fail without ending the
job, as `note` says, and leave something half done behind.  `RunsWindowInstaller` and
the one of Ollama are other people's programs: one that ends with zero may have left
nothing, and the code writes the step down before it looks (`job.rs:286-324`,
`model.rs:191-217`).  `steps` is the
receipt in memory, `receipt` the file; it is overwritten by a later installation,
so it names that one's steps only.  `page`, `listed`, `choices` are the pages of
`ui.rs`, whose buttons are the only way to start a job.

### Standing, Sweep and the code

`Standing` is `classify`: the order in which lists, lineage, age, and pins are
asked, with the lists themselves a parameter.  `Lineage` follows parents through
identifiers as the code does, up to `Hops` of them, and an identifier handed out again leads
it to a stranger, as in the code.  `Sweep` is `Show`, `Agree` or `Decline`, and for every target
`Judge` (the second look, by identifier and name), `Ask` (the signal) and
`WriteDown` (the audit line); between any two the machine lives: programs end,
start under identifiers that were let go, come to the front, are pinned.
`OwnLineage` is who really started the tool, by birth and not by identifier, and
is what `OursIsSpared` compares with.

### Explain, Scan and the code

`Explain` has operators only: `Resolve` and what each tier makes of the settings
and of the servers there are, `ChooseModel`, the runbook's answer, and what
`analyse` keeps of a model's reply.  `Scan` is one scan: the click (`RunScan`),
the slot (`StartScan`), the probes in turn with each reason to skip one in the
code's order, the programs a probe runs, and the supervisor of each program:

    asked -> probes -> reading ------------------------> probes -> report
                  \-> programs -> supervised -> answered -/

`Read` is a probe that asks the platform; one that is `unsure` takes an answer it
cannot read for one with nothing in it.  `NothingToAsk` is an application that is not
installed or cannot be tested (`respond.rs:182-219`), which leaves no finding.
A look (`Look`, `LookSeesNothing`) is one poll of `run_supervised` and the sleep
after it, which is one look long or, with "slow" in `Faults`, longer.  `quiet`
and `unseen` are its two counters, `Idle` is what it subtracts, and `silent` is the
truth it is compared with: how long the program has really done nothing.  A
stop ends the program (`Terminate`); a probe cut short
returns what it has as a completed outcome, which is what the code does
(`probes/apps.rs:142` and its like).  An outcome has `gaps` as history, what kept the
check from going the whole way: "stalled", "stopped", "unclear", "unread",
"untested", and "cut short" for a verifier killed from outside.  Two things of the
code run under no supervisor and are left out: `run_capture`
(`platform/common.rs:237-249`), which no stop reaches, inside `Read`, and the facts about the
host (`scan.rs`, `host()`).

### Judging, Launch, Checks and the code

`Judging` has one operator per rule: from the facts a platform parser returns to
findings with their severity.  Numbers are the code's own thresholds, the facts either
side of each of them; the four counts an instance could not reach are
constants.  `Launch` is `launch.rs`: look whether it runs, locate, spawn, poll, settle, stop what was
started, with the person starting and closing the same application meanwhile.
What is spawned is a wrapper, and what runs is its child, which is why an
application that was started again is not a second one.  `Checks` picks one check
and lets its machine change (`Changes`), looks, works on a finding and verifies.

### Reading, Running, Critter and the code

`Reading` is `parse.rs` from tokens on; each operator takes a place in the
tokens and returns a tree and the next place, or a refusal.  It ends with the two
ways back that the properties compare with: a tree written out again, and a script
whose pipelines are written out as one line a step.

`Running` is `run.rs` as a machine: a run has its budgets, variables, output and
what it did, and on a stack (`todo`) what is still to do.  `Advance` takes the
next thing off the stack.  Where the code calls itself and goes on with the
answer (`block`, `statement`, `eval`, `binary`, `invoke`, `call_defined`), the call
is put above what goes on: an `if` puts its condition above its `branch`, a call
its arguments, each `keep`t, above the `call`.  A fault ends a run where it stands; a
break, a continue and a return pass by what they skip (`PassBy`) until a loop or the
caller (`back`) takes them.  A statement and an expression spend a step each, as
`spend_a_step` has it.

`Critter` reads a script and runs it, three times side by side: as whoever runs it,
as anybody who may change things, and with its pipelines written out.  Only the
first is the program's; the other two are what `GuestOnlyLooks` and
`PipeIsItsSteps` compare it with.  The parser and the writing-out are constants of
`Critter` (`Reader`, `Unchainer`), given by the instance: what is proved of a
run holds for whatever was read.

### Incidents, Outlaw and the code

`log` is the file, line by line; `writer[w]` is where a part of a process is in
`record`: the layer that takes errors, one at a time, or the panic hook, which does not
wait for the layer:

    rest -> append -> read -> create -> write -> rename -> rest

(`read` is the end where there are few enough lines; `create`, `write` and
`rename` concern the temporary file everybody shares.)  A process may be killed between any
two, and an append may stop in mid-line with the disk full: a "half" line is continued by the next
append, a line "cut" inside a character is no text, and reading stops at it
(`mod.rs:158-161`, `:188-192`).  `raced` is history: the file was written to while a
writer was rewriting it.  `draft` and `loading` are `report.svelte.ts`: what was
generated, what is typed, and a reading awaited between comparing and overwriting,
while which the person may type.
`Outlaw` is `main.rs` and `ork-boot`: a process is typed, makes the
seven checks one after the other (`Check`), prints and goes on, refuses, or is
waved through; then does what it was asked; then ends as an answer, a refusal, an
error, a panic, a broken pipe or a kill, and `Records` and `Exits` follow from
that.  `Mistype` is a command line that is not understood (exit code 2).  `Panics` is a panic in
the command's own thread, which ends it with 101; `Logs` is what is recorded while it
goes on, a panic in one of its tasks among it.  `Turns` changes what is in order on the machine at any of these moments.

## 3. Runs

| Run | Instance | What holds |
|---|---|---|
| `fix_loop` | one process of the window, two problems, four kinds of candidate, one file with two contents, failing copies and changes; fair | `EveryChangeIsRecorded`, `NothingLost`, `RollbackIsExact`, `StopEndsRun` |
| `fix_pair` | two processes on one queue, a testable and an untestable problem, crashes at every step, failing rollbacks | `ResolvedMeansConfirmed`, `PermissionBeforeChange` |
| `ask_consent` | two calls of `fix_run`, answers, stops and screen changes at any moment; fair | `KeepsConsent` (the refinement), `StoppedRunEnds` |
| `watch` | the window's watcher and a scheduled task on one memory, `FlapLimit` 3; a check that can always tell, one that cannot, one whose findings name another probe; stops, quits, kills, failed saves, unreadable files, forgetting; fair | `ToldIsUpToDate`, `GoneMeansGone`, `TellsOneStory`, `StoppedWatcherEnds`, `StayingProblemIsTold` |
| `stress_run` | two runs, a core and a memory worker in the first and a core in the second, overlapping as the slot lets them; heat, faults, stops, the window closing; fair | `HeatIsWatched`, `FaultsReported`, `CleanMeansWorked`, `RunEnds`, `HeatEndsLoad` |
| `link` | two machines that join, two sessions that may run at once, a command beside them, two codes, three requests, two wrong tries; saves that fail or tear the file, late replies, cuts | `GuessesAreBounded`, `LinkedIsHonoured` |
| `setup` | three installations of two versions in one folder, on Windows and on Linux, everything ticked or little; no network, full disk, denied, cut off, installers that leave nothing | `WholeProgram`, `ReceiptIsTrue` |
| `sweep` | four identifiers and four programs: a shell that runs the tool, a game of two processes, one that starts meanwhile; failing surveys, logs and signals | `StopsAreWrittenDown`, `OursIsSpared`, `OnlyWhatWasAgreed` |
| `scan` | one scan: two programs that are asked whether they work, a check that needs rights, one that does not run here, the system files; a stall window of two looks, late looks, a verifier killed, answers that cannot be read; then every route and every reply; fair | `OnlySilenceIsStuck`, `GapsAreTold`, `ActionsAreReviewed`, `StaysHome`, `StopIsHonoured` |
| `critter` | every script of up to five block lines, every expression of up to four tokens, every run of three blocks, with small budgets | `TreeIsWhatWasWritten`, `GuestOnlyLooks`, `PipeIsItsSteps` |
| `checks` | fifteen checks, each over machines either side of each of its thresholds; an application its owner starts twice | `FixedIsNotFound`, `AlreadyRunningIsLeftAlone`, `WorseIsNoMilder` |
| `outlaw` | a terminal and the window, one command of each kind, or one mistyped; crashes, panics in tasks, kills, a disk that refuses or takes half a line, one part of the machine that breaks and comes back | `VouchedFor`, `HistoryIsKept`, `ExitSpeaks`, `EditsAreKept` |

Where one of these properties holds only while something does not happen, the
instance leaves exactly that out, or the property says so by name, and the table
below has it.

### Where the code and the repository's words part

These are found by the same modules and instances with one thing changed; where
a `.cfg` is named it is in this directory, to be run by hand.

| What goes wrong | Contradicts | How to see it |
|---|---|---|
| a preview retires the row: "exhausted" without a fix tried | `store.rs:36` | `FixDryRun.cfg` of `MCFixEngine`, `ExhaustedMeansTried` |
| a question announced while no screen listens is never seen | `fixing.rs:135` | `AskUnseen.cfg` of `Approval`, `NoQuestionGetsLost` |
| a running watcher saves again what was forgotten | `watching.rs:166` | `WatchForget.cfg` of `MCWatch`, `ForgetStartsOver` |
| the end of a stopped stress test empties the slot of the next one, which can then not be stopped (scans share this, `commands.rs:127`, `:153`) | `stressing.rs:175` | `StressEscape.cfg` of `MCStress`, `StopIsAvailable` |
| one code links two machines whose requests are handled at once | `docs/linking.md:54` | `LinkRun.cfg` with `OneCodeOneMachine`, without its symmetry, no faults, `MaxWrong` 5 |
| on Linux no entry for the window is made, though one was asked for | `docs/install.md:42` | `SetupWindow.cfg` of `MCSetup`, `WindowIsReachable` |
| a program that works is given up as stuck, where a poll comes late after it was last seen | `exec.rs:338` | `ScanRun.cfg`, `OnlySilenceIsStuck` without its last disjunct |
| a problem is told as gone though it is there: the service manager's error was read as an empty list, the drive gave no verdict | `docs/watching.md:62-64`, `docs/commands.md:356-359` | `WatchRun.cfg`, `GoneMeansGone` without `check[p].sure` |
| a verifier of the system files killed half-way reads as one that found nothing | `platform/integrity.rs`, the comment in `from_outcome` | `ScanRun.cfg`, `GapsAreTold` without "cut short" in `Hidden` |
| a machine that was told it is linked is erased by a second session, or by a join that ends later | `docs/linking.md:51` | `LinkRun.cfg`, `LinkedIsHonoured` with `Alone` left out of `Record` |
| the receipt lists a window, or Ollama, whose installer left nothing | `job.rs:293-296` | `SetupRun.cfg`, `ReceiptIsTrue` with `Believed` empty |
| startup entries are reported missing though their program is there | `probes/startup.rs`, the comment on `expand` | `StartupAccused.cfg` of `MCChecks`, `NothingIsAccusedUnseen` |
| a check of the drives by SMART reports findings under another check's name | `finding.rs:124` | `ChecksRun.cfg` with `NamesItsProbe` and `Facts <- DrivesOnly` |
| the exit code is 2 though nothing was scanned: what was typed was not understood | `docs/commands.md:46` | `OutlawRun.cfg`, `ExitSpeaks` without its second case of 2 |
| an application its owner started during the test is stopped with it | `launch.rs:23` | `ChecksRun.cfg` with `OnlyOursIsStopped` |
| a record written whole joins the half line before it and is not read | `incident/mod.rs:185` | `TornRecord.cfg` of `MCOutlaw`, `RecordedIsRead` |
| something serious was found and the exit code is 1 (explaining it failed) or 0 (the reader went away) | `docs/commands.md:46` | `OutlawRun.cfg` with `SeriousIsTwo` |
| what is typed while a report is read again is overwritten | `report.svelte.ts:39` | `OutlawRun.cfg`, `EditsAreKept` without its last disjunct |
| an error from a rollback leaves before the attempt is recorded | `docs/fixing.md:263`, `store.rs:254` | `FixLoop.cfg` with "restore" in `Faults`, `EveryChangeIsRecorded` |
| after a crash the next run's copy replaces the first one's | `docs/fixing.md:233` | `FixLoop.cfg` with "crash" in `Faults`, `NothingLost` |
| a file written during the test is removed by the rollback | (no line) | `FixLoop.cfg` with `Interfering`, `RemovedOnlyAfterBackup` |
| a row one process resolved is set to exhausted by another | (no line) | `FixPair.cfg` with `ResolvedIsFinal` |
| a stop does not reach a terminal that waits for a line | (no line) | `FixLoop.cfg` with `FrontEnd <- Terminal`, `StopEndsRun` |

Read in the code and left as notes: a question of one run can be declined by the
`Sweep` of the run before; the Queue screen has no Stop button after leaving it
and coming back during a run; nothing in `fix_run` asks for the self-test, which
the terminal does; a stopped watcher saves what it remembers over what a newer
one saved; memory is saved before a look is heard, so a process that ends in
between has written down a change nobody was told; `list_models` sends no bearer token
(`ork-ai/src/client.rs:66`), so a linked machine that asks for one reads as refusing;
a later installation's receipt forgets the steps of the earlier; a click on
cancel before the slot of a scan is filled is lost; pins are compared with `leaf_name`
and listed by `name`; two stuck processes of one name share one finding; a SMART finding of Linux is never
cleared, for it names a check that does not run there; what follows `end` or `else` on
its line is ignored, so the tree is not that text (`TreeIsWhatWasWritten` is checked over
scripts that have nothing there); `WorseIsNoMilder` speaks of logs of at most
`MAX_ENTRIES` lines, for of a longer one the newest are read; a
cleared record may come back when it was being trimmed; `processes --stop` changes the machine
without passing through `start_up`; a machine that breaks after its check was passed is
fixed all the same; in the moment between the second look and the signal nothing protects
a stranger that was given the number.

### Bounds

* *Fix loop.* Two problems are enough for the item loop, for two rows naming one
  file and for a stop to leave one unworked; one item's candidates cover every
  kind of action and a refused one.  Two contents tell a copy from an overwritten
  copy.  Two runners give every pairwise interleaving of two front-ends; a third
  adds no new kind of step because runners only meet in `queue`, `attempts`,
  `file` and `backup`.  The number of runs of the queue is not bounded: the state
  is finite because attempts are a set.
* *Permission.* One question per run: the hard cases lie between two runs (a
  late click, a late stop, the sweep) and all of them occur; that more questions
  per run change nothing is the theorem `AsksForConsent`.
* *Watcher.* One problem, because the comparison treats each by itself, and one
  check, of each of three kinds, which runs or does not, tells or misses; one watcher and one task are used again and
  again, so any number of them in turn is covered, and with `FlapLimit` 3 the
  problem returns, is held quiet, and stays so.  A looker has at most one look
  nobody has heard yet (the guard in `BeginLook`): its next one is a quarter of
  an hour away.  Any number of problems, severities and watchers is in the theorems.
* *Stress tests.* A core and a memory worker end and report differently, and
  workers meet only in the flag and the channel; two runs are one that winds
  down and one that starts.
* *Link.* Three requests are two that race and one that comes after; two codes
  and two sessions are two that run at once, or one and its successor; one command at a
  time beside them, any number in turn; two wrong tries
  tell the last permitted one from the one too many (the code has `MaxWrong` 5).
* *Setup.* Three installations: one that is cut off, one over what it left,
  one over what both left; `MaxRuns` bounds how often Install is pressed, two
  versions tell old from new and are alike otherwise, so they may be exchanged (`SYMMETRY`).
* *Sweep.* `MaxStarts` 1 is the one program that is given an identifier let go
  of; the tool, what started it, the target and its sibling need four.
* *Scan.* A stall window of two looks tells silence from silence interrupted;
  `MaxUnseen` 2 covers the whole window being out of sight, and a late sleep is two
  looks long, the shortest that makes a difference.  `MaxScans` 1: a
  second scan only meets the first in the slot, where `Stress` shows what happens.
  Routing settings are enumerated fully where they differ for a rule.
* *Critter.* Five lines are a block in a block; four tokens are two operators;
  every budget is small enough to be used up by some script.  The three runs of a script
  step together, so that each script is one line of states.
* *Checks.* A few dozen machines per check, either side of each threshold and of each
  pair of rules that overlap; `MaxLooks` 2 (`Changes` comes between them), `MaxTests` 2, `MaxStarts` 2.
* *Outlaw.* `MaxLines` 2 over `KEEP` 1: a line is trimmed away.  `AtOnce` 2: two
  writers at the file, of one process or of two, which is what it takes to race; once they
  have (`raced`) the property asks nothing more until the file is cleared, so no more is
  recorded (`AfterRace` FALSE).  One reading
  of the report at a time, and the report screen is used while no other process
  is at work (`Alongside` FALSE): the two meet only in the file.  Of the five things
  the tool depends on one (`Fragile`, the snapshots) changes, once (`MaxTurns` 1): the checks read
  each by itself.  The theorems have none of these bounds.

### Fairness

`FairSpec` of `FixEngine` is weak fairness of each runner's own
steps: a thread that can go on does.  Nothing is assumed of the person, of the
scan or of other programs, so `StopEndsRun` holds with nobody ever answering.
`Approval` assumes the same of each run and of the commands, and strong
fairness of `Unlock`: the mutex it needs is taken by `fix_cancel` and given
back again and again, and a thread that waits for a mutex gets it in the end.  The
page and the person owe nothing.  `Stress` assumes weak fairness of every
supervisor and every worker that has been told to end, and of `SeesHeat` by itself: the
branches of the `select!` are tried in random order, so the ticker gets its turn
however many faults there are.  Nothing makes the deadline come
(`DeadlinePasses` is not fair, it may be an hour away), so `HeatEndsLoad` rests on the
temperature alone.  `Watch` assumes weak fairness of each looker's
own steps and of the delivery of its events; that a scan ever succeeds is not
assumed, and `StayingProblemIsTold` asks for it where it is needed: the check in
question completes again and again.  `Scan` assumes that the scan's task
goes on (`Scans`, its supervisor's polls included); the programs it runs may run
for ever, and nobody has to press anything.  `Link`, `Setup`, `Sweep`,
`Critter`, `Checks` and `Outlaw` are checked for safety only: each step of
theirs may be the last.

## 4. Proofs

All theorems hold for every value of the constants that satisfies the module's
assumption: any number of runners, problems, candidates and runs of the queue.

*FixEngineProofs.*  `TypeCorrect` is the type invariant.  `ResolvedConfirmed` needs the
strengthening `ResolvedStep` carries: a runner at "resolve" has recorded its
success.  `PermissionFirst` follows the runner from its question to the change: at
"approved" and later, the pair in hand was consented to, is permitted, is a
change, and its item testable; a runner's memory is only its own, which is what
the lemma `OthersStep` says.  `ChangesRecorded` assumes that nothing crashes and no rollback
fails, the two faults of the table above, and needs that the
pair a runner is about to record is the pair it changed.  `RollbackExact` is for
one runner (`Alone`): backups are named by the item and the number of the
attempt, so a second runner of the same queue could put its copy under the same
name; `CopyInv` says that from `Capture` on there is one copy under the name the
rollback reads, and that it holds what was in the file.  `NothingIsLost` is for
one runner that does not die, whose rollbacks succeed and whose files nobody else
writes while it works (`Undisturbed`).  Each of the four is needed: the table
above has the crash and the write, and a rollback that fails is one more.  Its
invariant `KeepInv` adds that what a runner has yet to do is still pending
(`Waiting`), that the file in hand is as the last step left it (`InFile`), and
that every removed content has a copy that belongs to a resolved item, which no
run takes up again, or to the change in hand (`Safe`).

The second half is about the checks, for every machine they may be shown and
every threshold.  `ChecksAssumption` says what that is (`Readable`): the shapes the platform
layer returns, a process known by its number, a service and a start-up entry by
their names, an application by its id (`APPS` repeats none, and has none of
`LAUNCHERS`).  `LeavesAlone`: a test that finds its application running is over
before it starts anything.  `FixedIsGone` rests on `Judgement`, that what was found
and what was said are what the rules make of what was read, and on two lemmas, that
a unit listed as failed is none that the other tool calls running, and that who
did not answer does not answer.  `WorseNoMilder` is the same invariant and, for each check,
that every finding on the one machine has one as severe on the worse
(`AtLeast`).  The rules are ladders, and the lemmas `FirstRung` to `FiveRungs` say
which rung decides; the hard ones are those where a rung lets a disk pass between
two that do not (`FullerIsNoMilder`), where the newest kernel is named by another
order than it was chosen by (`DriversNoMilder`), and where what is recognised leaves
the count of its source (`MoreLogNoMilder`); counting goes by injections
(`NoFewer`).

*PermissionProofs.*  `OneRun`: while a run is between `Begin` and `Unlock` the slot
`running` holds it, for every other step leaves the slot alone.  `AsksForConsent`
assumes that no run comes to more questions than the ids set aside for it, and
proves that `Approval` implements `Consent`.  Its invariant `AskInv` says why:
blocks of ids do not overlap (`Apart`), so an id names one question
(`IdNamesOne`); only questions that were asked are on screen or on their way
(`Heard`); the slot holds the question of the run that is asking (`Held`); a
question without a result is the one being asked (`Settled`); and a channel
carries a yes only if that yes was said to that question (`Carried`).  Without `Apart` a late
click could meet a question of the same id; without the lock `fix_cancel` keeps for its second step, a stop
could release a question of a run that was not stopped.

The second half is `LooksOnly`: whatever the script, the reader, the commands and
the budgets, a guest's run only looks.  Nothing is assumed of the constants.  The lemmas
go through what a step can do: all but two of them are `Quiet`, neither saying nor
doing anything nor refusing a guest, whatever is on the stack; the two that are not
add one line or one command (`Adds`), a guest's only for looking.  `SameWay` says
that asking who runs it changes a step only by refusing it.  The invariant
`Together` keeps a guest's run `Beside` anybody's: the same run until it
is refused, and after that one that stays where it was while anybody's goes on
from there, so that what it did and said is a beginning of anybody's.  That each
way to call a command (a statement, a step of a pipeline, a bracket, a
function's body) ends in the one `Call` is what makes the lemmas few; the mutant
`LookingOnlyAtTop` is a run where it does not.

*WatchProofs.*  The invariant `Inv` has three parts.  `InSlot`: types, the slot
names every active watcher that is not cancelled (`StopReachesAll`), a looker
that is off remembers nothing.  `Orderly`: where a look waits to be heard, by `pc`.  `Story`, while
`tidy`: at most one looker is busy, and what its memory and the file hold `Leads` from
what the reader was told by exactly the look still to be heard.  The lemmas about
`WatchBaseline` say that the comparison keeps this: whatever it reports has `was` as
the reader knew it and `now` as the next baseline has it.  `OneStory` and
`NothingKeptBack` follow.  `ClearedByItsCheck` needs the types, and that of a check that is
sure and ran nothing that is there goes unreported (`ToldByItsCheck`); of one that is not
sure no more is proved than that it ran, for no more is so.  They hold for any
number of lookers, problems, checks and severities and any `FlapLimit` above 1.

*StressProofs.*  `Sound` speaks of each run by itself: a run that has not started
its workers has none (`Fresh`); every fault was heard or is on its way (`NoneLost`);
a report is made when nothing more can arrive (`Final`); who loads the machine is
watched or told to stop (`Watched`); and while a run is watched only the deadline
ends a core (`Worked`).  A step changes one run, and `Elsewhere` says the others
keep theirs; `Close` changes all.  `HeatWatched`, `AllFaultsReported` and
`CleanWorked` follow, for any number of runs and workers.

*LinkProofs.*  `IInv` is the types and four parts.  `Codes`: a code is shown by
one session at most, and what it counts is the wrong tries answered while it was
shown, fewer than the limit: `GuessesBounded` follows.  `Used`: a code a machine
came in with is shown by no other session, and by none once the answer is out,
which is `ClosedOnceLinked`.  `Told`: what a joiner of `smooth` keeps, or is waiting to be
told, is what the file has for it.  `Copies`: for a joiner of `smooth`, whoever may yet write the file --
a session that serves, one that still has a handler to finish, a command -- has the
file's entry in its copy.  That is what `Alone` is for: a machine stays in `smooth`
only if nobody else had a copy when it was recorded, and every copy made afterwards has
it (`CopiesKept`, `NoNewWriter`, `LoadKeeps`, `DropKeeps`, `SaveKeeps`).
`LinkedHonoured` follows, for any number of sessions and commands at once; without
`Alone` TLC finds it violated in a few steps.

*RecordProofs.*  The installer: `Staged` says that the staged file is the chosen version from its
writing to its renaming, `StepsAreTrue` that every step the receipt in memory
names is on the machine, `Fetched` which of them there can be so early, `Before` and
`Written` what the receipt is at both ends; `ProgramIsWhole` and `ReceiptTrue`
(where another's installer is believed, that it was run and reported success) follow for any versions, systems, wishes, faults and number of installations.
The tool: `HistoryKept` speaks of the file as long as it was not written to while it was
being rewritten (`raced`) and no line of it is cut inside a character (`Legible`); both go wrong otherwise
and are hazards of the list.  `History` is why it holds: what a writer holds is what the
file is, and the temporary file it is about to rename is the newest of what was written
(`IsTail`, `Keeps`), whoever was killed before, and a writer that does not rewrite may append
beside another.  `Vouching` needs that what the
self-test ticked was sound at some moment since the start of that process (`Vouched`), whatever
breaks and mends meanwhile, and the order of the seven checks.  `CodeSpeaks`
follows each process from what it found to its code, and knows of whom there may be
a line in the file (`Speaks`).  `EditsKept` has
in `Drafted` that every reading that began when the person's text stood there will keep it.

*SweepProofs.*  `Told`: a process is told from the next one under its identifier by
its birth.  `Log`: of what the sweep asked to end, all but one is written down, and
all of it where nothing is in hand.  `Judged`: a verdict holds until the
identifier changes hands, for what is under it is what was judged, or nothing.  They
give `StopsWritten` and `AgreedOnly`, for any machine and any lists.  `OursSpared`
says that what was judged is none of the tool's own (`Spared`).  The tool knows
its lineage by climbing parents that were born first (`OwnIsKnown`, by induction
on the climb: `FromZeroUp`), and what really started it only shrinks after that
(`OwnShrinks`): whatever takes over a freed identifier is younger than everything
that is there, so it has started none of it.

*ScanProofs.*  `Shape` and `Watching` relate the supervisor's counters with the
truth: what it calls idle is at most the real silence, unless a sleep ran over since the
program was last seen to work (`late`) and it has worked since the last look that was kept (`did`).
Hence `SilenceOnly`, which assumes nothing of the polls.  `GapsTold` needs `Progress`, that
what is left of a probe's programs, what was found and what its gaps are go together, and
that every end of a program that leaves a gap which is not hidden leaves a finding.  `HomeFirst` needs that
`Resolve` stops at the first tier selected and that the cloud is the last.
`Reviewing` needs that an explanation has an item for each finding, in order
(`AllReviewed`), that what a runbook answered is kept as it was, and that a new
scan starts from none (`Afresh`).

Only model-checked: what depends on time (`StopEndsRun`, `StoppedRunEnds`, `StoppedWatcherEnds`,
`StayingProblemIsTold`, `RunEnds`, `HeatEndsLoad`, `StopIsHonoured`: liveness is beyond the
prover), and two properties of `Critter`: `TreeIsWhatWasWritten` is about what the recursive
operators of `Reading` compute, and `PipeIsItsSteps` compares a script with what the recursive
`WrittenOut` makes of it; both need an induction on the tree, which the prover cannot
make.  Every other property of the runs is a theorem.
Theorems that no run repeats: `TypeCorrect` of each module, `OneRun`,
`StopReachesAll` and `ClosedOnceLinked`.

## 5. Not modelled

*Fix engine and store.*  The audit table's wording and the timestamps; dismissed
rows (no front-end sets that state); the schema migration; the rules by which a
path or an argument is permitted (a set, `Permitted`); poisoned mutexes.  A fix
through the service manager is one step without contents: nothing is captured
for it and nothing is put back.

*Watcher.*  `outlaw watch` until Ctrl-C, which is a watcher in a process of its
own without a slot; `watch_status`; the length of the history; the page.

*Stress tests.*  How much memory is budgeted and which patterns are written, the
record of temperatures, the last report and `stress_status`, a worker that
panics, and the terminal, whose Ctrl-C cancels the one token it has.  (A run of
memory alone on a machine with none to spare ends "completed" without faults and
is called clean; `CleanMeansWorked` asks for the note that the memory was not
tested beside it.)

*Linked machines.*  The key exchange, the identity `PeerBook::load` makes and saves when there is
none, what a machine lends to beside what it borrows from (its own `link_join` is an errand of
the model it is the host of), discovery on the network, the status page and
the forwarding of completions.

*Scan, checks, AI.*  Reading a child's pipes; asking the operating system, whose
answers are the facts `Judging` starts from, and `run_capture`, the unsupervised call
that asks it; the facts about the host in a report; the wording of findings and of
prompts; the conversation in the window; pulling a model.

*Process control.*  How memory is measured and the list ordered; the window's
commands, which end in the same `stop_these`.

*CritterScript.*  Characters to tokens, the text commands of the library, numbers
beyond small ones, the prompt and completion.  The language is not yet reachable
from the terminal or the window.

*Installer.*  Uninstalling, discs, the terminal's installer and the shell
scripts.

*Start-up, incidents.*  The update check, which only says that there is a newer
version; the drawing of the boot screen; redaction, which is text processing; the link to the issue form.

*Configuration, documentation index, the window's other screens.*  Parsing and
saving of settings, search and presentation: pure data or input and output.

## 6. Plan

In this order, the most important first:

1. Uninstalling after any number of installations, with the receipt of `Setup`.
2. The window's talk with a model, and the forwarding of completions to a linked
   machine, over `Explain` and `Link`.
3. `outlaw watch` until Ctrl-C and the history's length, in `Watch`.
4. The text commands of CritterScript's library, and the prompt.
