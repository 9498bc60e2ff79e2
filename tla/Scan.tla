-------------------------------- MODULE Scan --------------------------------
(***************************************************************************)
(* A scan, from the window: runScan and cancelScan (scan.svelte.ts), the    *)
(* slot of a running scan (commands.rs), the probes one after another       *)
(* (scan.rs, probe.rs), the programs two of them run under the liveness     *)
(* supervisor (exec.rs, respond.rs, integrity.rs), and what is made of the  *)
(* report: the triage queue, and explanations (Explain).                    *)
(***************************************************************************)
EXTENDS Explain

CONSTANTS
  Probes,     \* the registry: [id, does, tier, elevated, runs_here, tools, reads,
              \*   unsure: an answer it cannot read is taken for none, finds]
  Window,     \* stall_window, in looks
  MaxUnseen,  \* bound: looks at one program that see nothing
  MaxScans,   \* bound: scans
  Says,       \* bound: what programs say as they end
  SubjectNo,  \* the order of the subjects
  Library,    \* the runbook entries
  Configs,    \* bound: the routing settings tried
  Replies,    \* bound: what a model may reply
  Faults      \* subset of {"killed", "slow", "probe", "spawn"}

TierNo == [quick |-> 1, full |-> 2, deep |-> 3]
Scope == DOMAIN TierNo

ASSUME ScanAssumption ==
  Window \in Nat \ {0} /\ MaxUnseen \in Nat /\ MaxScans \in Nat /\ Len(Probes) \in Nat

ASSUME ProbesAssumption ==
  \A i \in 1 .. Len(Probes) :
    Probes[i].does \in {"reads", "starts programs", "verifies files"} /\ Probes[i].unsure \in BOOLEAN

ASSUME ConfigsAssumption == Configs \subseteq Config

ASSUME ExplainAssumption ==
  /\ Len(Library) \in Nat /\ DOMAIN Library = 1 .. Len(Library)
  /\ \A i \in 1 .. Len(Library) : IsFiniteSet(Library[i].keywords)
  /\ \A reply \in Replies : Len(reply.says) \in Nat

VARIABLES
  slot,       \* AppState.scan holds a token
  elevated,   \* is_elevated, asked once
  scope,      \* the tier of this scan
  stage,      \* how far it is
  cancelled,  \* its token
  at,         \* the probe it is at
  todo,       \* what is left of that probe's programs
  found,      \* what the probe has found
  gaps,       \* history: what kept that probe from going the whole way
  outcomes,   \* one [status, findings, gaps] per probe considered
  child,      \* the program being run
  quiet,      \* time since the supervisor last saw it do something
  unseen,     \* time it could not be looked at
  did,        \* it has done something since the look that was kept
  silent,     \* history: time since it really did something, up to Window
  late,       \* history: a sleep took longer than a look since it was last seen to do something
  queued,     \* the findings on the triage queue
  report,     \* what the window was given
  scans,      \* how many scans were started
  routing,    \* the route taken for an explanation
  items       \* the explanation

vars == <<slot, elevated, scope, stage, cancelled, at, todo, found, gaps, outcomes,
          child, quiet, unseen, did, silent, late, queued, report, scans, routing, items>>
window == <<slot, report, scans, routing, items, queued>>
program == <<child, quiet, unseen, did, silent, late>>
probing == <<at, todo, found, gaps, outcomes>>

Stage == {"none", "asked", "probes", "reading", "programs", "supervised", "answered", "report"}
NoReport == [there |-> FALSE, cancelled |-> FALSE, outcomes |-> <<>>]
NoRoute == [tier |-> None, attempts |-> <<>>]
NoChild == [name |-> None, state |-> "none", said |-> "nothing"]

Init ==
  /\ slot = FALSE /\ elevated \in BOOLEAN
  /\ scope = "quick" /\ stage = "none" /\ cancelled = FALSE
  /\ at = 1 /\ todo = {} /\ found = <<>> /\ gaps = {} /\ outcomes = <<>>
  /\ child = NoChild /\ quiet = 0 /\ unseen = 0 /\ did = FALSE /\ silent = 0 /\ late = FALSE
  /\ queued = {} /\ report = NoReport /\ scans = 0
  /\ routing = NoRoute /\ items = <<>>

Finding(id, subject) ==
  [id |-> id, subject |-> subject,
   triage |-> IF id = "system.files-unverified" THEN "none" ELSE "queue",
   severity |-> IF id = "system.files-unverified" THEN 0 ELSE 4,
   says |-> IF id = "app.launch-failed" THEN {subject} ELSE {}]

-----------------------------------------------------------------------------
(* The window.                                                             *)

\* runScan: one at a time, as long as scan.running says so
RunScan(tier) ==
  /\ stage = "none" /\ scans < MaxScans
  /\ report' = NoReport /\ items' = <<>> /\ routing' = NoRoute
  /\ scans' = scans + 1 /\ scope' = tier /\ stage' = "asked" /\ cancelled' = FALSE
  /\ UNCHANGED <<slot, elevated, queued, program, probing>>

\* start_scan: refused while the slot holds a token
StartScan ==
  /\ stage = "asked" /\ ~ slot
  /\ slot' = TRUE /\ stage' = "probes" /\ at' = 1 /\ outcomes' = <<>> /\ found' = <<>> /\ gaps' = {} /\ todo' = {}
  /\ UNCHANGED <<elevated, scope, cancelled, queued, report, scans, routing, items, program>>

\* cancel_scan: takes the token out of the slot; before there is one, and
\* once it was taken, nothing happens
CancelScan ==
  /\ slot /\ slot' = FALSE /\ cancelled' = TRUE
  /\ UNCHANGED <<elevated, scope, stage, queued, report, scans, routing, items,
                 program, probing>>

-----------------------------------------------------------------------------
(* The probes (Scanner::run).                                              *)

\* skip_reason, in the order it asks
SkipReason(p) ==
  IF TierNo[p.tier] > TierNo[scope] THEN "above tier"
  ELSE IF ~ p.runs_here THEN "unsupported platform"
  ELSE IF p.elevated /\ ~ elevated THEN "requires elevation"
  ELSE IF ~ p.tools THEN "missing tool"
  ELSE None

Outcome(status, findings, missed) ==
  [status |-> status, findings |-> findings, gaps |-> missed]

Considered(outcome, then) ==
  /\ outcomes' = Append(outcomes, outcome)
  /\ at' = at + 1 /\ found' = <<>> /\ gaps' = {} /\ todo' = {} /\ stage' = then

Skip ==
  /\ stage = "probes" /\ at <= Len(Probes) /\ SkipReason(Probes[at]) # None
  /\ Considered(Outcome("skipped", <<>>, {}), "probes")
  /\ UNCHANGED <<elevated, scope, cancelled, program, window>>

DroppedByCancel ==
  /\ stage = "probes" /\ at <= Len(Probes) /\ SkipReason(Probes[at]) = None /\ cancelled
  /\ Considered(Outcome("cancelled", <<>>, {}), "probes")
  /\ UNCHANGED <<elevated, scope, cancelled, program, window>>

BeginProbe ==
  /\ stage = "probes" /\ at <= Len(Probes) /\ SkipReason(Probes[at]) = None /\ ~ cancelled
  /\ stage' = IF Probes[at].does = "reads" THEN "reading" ELSE "programs"
  /\ todo' = Probes[at].reads
  /\ UNCHANGED <<elevated, scope, cancelled, at, found, gaps, outcomes, program, window>>

\* A probe that asks the platform and judges the answer.  Some take an answer
\* they cannot read for one with nothing in it: a service manager that fails,
\* a drive that says nothing of itself.
Read ==
  /\ stage = "reading"
  /\ \E unread \in SUBSET todo : \E bad \in SUBSET (todo \ unread) :
       /\ unread # {} => Probes[at].unsure
       /\ Considered(Outcome("completed", [i \in 1 .. Cardinality(bad) |->
                               Finding(Probes[at].finds, SetToSeq(bad)[i])],
                             IF unread = {} THEN {} ELSE {"unread"}), "probes")
  /\ UNCHANGED <<elevated, scope, cancelled, program, window>>

\* an error ends the probe and not the scan, as a failure or, once the token
\* is cancelled, as a cancellation
ProbeFails ==
  /\ \/ stage = "reading" /\ "probe" \in Faults
     \/ stage = "programs" /\ "spawn" \in Faults /\ Probes[at].does = "verifies files" /\ todo # {}
  /\ Considered(Outcome(IF cancelled THEN "cancelled" ELSE "failed", <<>>, {}), "probes")
  /\ UNCHANGED <<elevated, scope, cancelled, program, window>>

\* the next program of a probe that starts some; AppLaunchProbe stops at a
\* cancelled token, the file check has only the one program
Spawn(name) ==
  /\ stage = "programs" /\ name \in todo
  /\ cancelled => Probes[at].does = "verifies files"
  /\ todo' = todo \ {name} /\ stage' = "supervised"
  /\ child' = [name |-> name, state |-> "runs", said |-> "nothing"]
  /\ quiet' = 0 /\ unseen' = 0 /\ did' = FALSE /\ silent' = 0 /\ late' = FALSE
  /\ UNCHANGED <<elevated, scope, cancelled, at, found, gaps, outcomes, window>>

\* a program that is not installed, or cannot be asked (CouldNotTest), says
\* nothing; without a package tool the files could not be verified
NothingToAsk(name) ==
  /\ stage = "programs" /\ name \in todo /\ todo' = todo \ {name}
  /\ \/ /\ Probes[at].does = "starts programs" /\ ~ cancelled
        /\ UNCHANGED found /\ gaps' \in {gaps, gaps \cup {"untested"}}
     \/ /\ Probes[at].does = "verifies files" /\ UNCHANGED gaps
        /\ found' = <<Finding("system.files-unverified", None)>>
  /\ UNCHANGED <<elevated, scope, stage, cancelled, at, outcomes, program, window>>

ToldWithoutStall(p, name, end, said) ==
  IF p.does = "starts programs"
  THEN CASE end = "stalled" -> <<Finding("app.launch-hung", name)>>
         [] end = "exited" /\ said # "fine" -> <<Finding("app.launch-failed", name)>>
         [] OTHER -> <<>>
  ELSE IF said = "altered" THEN <<Finding("system.files-altered", None)>> ELSE <<>>

\* what a program's end tells (interpret and finding_for; from_outcome and
\* findings_for)
Told(p, name, end, said) ==
  IF p.does = "starts programs"
  THEN CASE end = "stalled" -> <<Finding("app.launch-hung", name)>>
         [] end = "exited" /\ said # "fine" -> <<Finding("app.launch-failed", name)>>
         [] OTHER -> <<>>
  ELSE CASE end \in {"stalled", "cancelled"} \/ said = "unclear" ->
                <<Finding("system.files-unverified", None)>>
         [] end = "exited" /\ said = "altered" -> <<Finding("system.files-altered", None)>>
         [] OTHER -> <<>>

\* what a program's end leaves open
Left(end, said) ==
  CASE end = "stalled" -> {"stalled"} [] end = "cancelled" -> {"stopped"}
    [] said \in {"cut short", "unclear"} -> {said} [] OTHER -> {}

Answered ==
  /\ stage = "answered" /\ stage' = "programs"
  /\ found' = found \o Told(Probes[at], child.name, child.state, child.said)
  /\ gaps' = gaps \cup Left(child.state, child.said)
  /\ child' = NoChild /\ quiet' = 0 /\ unseen' = 0 /\ did' = FALSE /\ silent' = 0 /\ late' = FALSE
  /\ UNCHANGED <<elevated, scope, cancelled, at, todo, outcomes, window>>

\* the probe returns what it found, all of it or as far as it got
ProbeReturns ==
  /\ stage = "programs" /\ (todo = {} \/ (cancelled /\ Probes[at].does = "starts programs"))
  /\ Considered(Outcome("completed", found, gaps \cup (IF todo = {} THEN {} ELSE {"stopped"})), "probes")
  /\ UNCHANGED <<elevated, scope, cancelled, program, window>>

-----------------------------------------------------------------------------
(* A program, and run_supervised watching it.                              *)

Works ==
  /\ stage = "supervised" /\ child.state = "runs" /\ (~ did \/ silent > 0)
  /\ did' = TRUE /\ silent' = 0
  /\ UNCHANGED <<elevated, scope, stage, cancelled, probing, window, child, quiet, unseen, late>>

\* it ends by itself; killed from outside it has said what it got to
Ends(said) ==
  /\ stage = "supervised" /\ child.state = "runs"
  /\ said = "cut short" => "killed" \in Faults
  /\ child' = [child EXCEPT !.state = "gone", !.said = said]
  /\ did' = TRUE /\ silent' = 0
  /\ UNCHANGED <<elevated, scope, stage, cancelled, probing, window, quiet, unseen, late>>

Over(how) == stage' = "answered" /\ child' = [child EXCEPT !.state = how]

TerminateIfGone ==
  /\ stage = "supervised" /\ cancelled /\ child.state = "gone" /\ Over("cancelled")
  /\ UNCHANGED <<elevated, scope, cancelled, probing, window,
                 quiet, unseen, did, silent, late>>

Terminate ==
  /\ stage = "supervised" /\ cancelled /\ Over("cancelled")
  /\ UNCHANGED <<elevated, scope, cancelled, probing, window,
                 quiet, unseen, did, silent, late>>

Exited ==
  /\ stage = "supervised" /\ ~ cancelled /\ child.state = "gone" /\ Over("exited")
  /\ UNCHANGED <<elevated, scope, cancelled, probing, window,
                 quiet, unseen, did, silent, late>>

Later(time) == IF time > Window THEN Window ELSE time
IdleAlways(q, u) == q
Idle(q, u) == IF q > u THEN q - u ELSE 0

\* a look, the judgement, and the sleep until the next: a sleep is one look
\* long, longer where the machine is too busy to come back in time
Judge(q, u) ==
  \/ Idle(q, u) >= Window /\ Over("stalled") /\ quiet' = q /\ UNCHANGED <<silent, late>>
  \/ /\ Idle(q, u) < Window /\ UNCHANGED <<stage, child>>
     /\ \E slept \in IF "slow" \in Faults THEN {1, 2} ELSE {1} :
          /\ quiet' = q + slept /\ silent' = Later(silent + slept)
          /\ late' = (slept > 1 \/ (late /\ q > 0))

Look ==
  /\ stage = "supervised" /\ ~ cancelled /\ child.state = "runs"
  /\ did' = FALSE /\ UNCHANGED unseen
  /\ Judge(IF did THEN 0 ELSE quiet, unseen)
  /\ UNCHANGED <<elevated, scope, cancelled, probing, window>>

\* a look that sees nothing concludes nothing: its time does not count
LookSeesNothing ==
  /\ stage = "supervised" /\ ~ cancelled /\ child.state = "runs" /\ unseen < MaxUnseen
  /\ unseen' = unseen + 1 /\ UNCHANGED did
  /\ Judge(quiet, unseen')
  /\ UNCHANGED <<elevated, scope, cancelled, probing, window>>

-----------------------------------------------------------------------------
(* The report.                                                             *)

IdNo == [id \in {"app.launch-failed", "app.launch-hung", "storage.drive-failing",
                 "storage.volume-low-on-space", "system.files-altered", "system.files-unverified"} |->
           CASE id = "app.launch-failed" -> 1 [] id = "app.launch-hung" -> 2
             [] id = "storage.drive-failing" -> 3 [] id = "storage.volume-low-on-space" -> 4
             [] id = "system.files-altered" -> 5 [] OTHER -> 6]

\* ScanReport::findings: worst first, then by id and subject
Earlier(a, b) ==
  \/ a.severity > b.severity
  \/ a.severity = b.severity /\ IdNo[a.id] < IdNo[b.id]
  \/ a.severity = b.severity /\ a.id = b.id /\ SubjectNo[a.subject] < SubjectNo[b.subject]
Findings(os) == SortSeq(FlattenSeq([i \in DOMAIN os |-> os[i].findings]), Earlier)

\* the slot is let go, what is for a person goes on the queue
Report ==
  /\ stage = "probes" /\ at > Len(Probes)
  /\ report' = [there |-> TRUE, cancelled |-> cancelled, outcomes |-> outcomes]
  /\ slot' = FALSE /\ stage' = "none" /\ outcomes' = <<>>
  /\ queued' = queued \cup {f \in ToSet(Findings(outcomes)) : f.triage = "queue"}
  /\ UNCHANGED <<elevated, scope, cancelled, scans, routing, items, at, todo, found, gaps, program>>

\* explain_report: routed afresh each time, then analysed
Route(c) ==
  /\ report.there /\ routing = NoRoute
  /\ routing' = [tier |-> Resolve(c).tier, attempts |-> Resolve(c).attempts, asked |-> c]
  /\ UNCHANGED <<slot, report, scans, items, queued, elevated, scope, stage, cancelled,
                 program, probing>>

Explain(reply) ==
  /\ report.there /\ routing # NoRoute /\ items = <<>> /\ Findings(report.outcomes) # <<>>
  /\ items' = Analyse(Library, Findings(report.outcomes), routing, reply)
  /\ UNCHANGED <<slot, report, scans, routing, queued, elevated, scope, stage, cancelled,
                 program, probing>>

-----------------------------------------------------------------------------
Scans ==
  \/ StartScan \/ Skip \/ DroppedByCancel \/ BeginProbe \/ Read \/ ProbeFails
  \/ \E name \in todo : Spawn(name) \/ NothingToAsk(name)
  \/ Answered \/ ProbeReturns \/ Terminate \/ Exited \/ Look \/ LookSeesNothing \/ Report

Programs ==
  \/ Works
  \/ \E said \in Says : Ends(said)

Person ==
  \/ \E tier \in Scope : RunScan(tier)
  \/ CancelScan
  \/ \E c \in Configs : Route(c)
  \/ \E reply \in Replies : Explain(reply)

Next == Scans \/ Programs \/ Person

\* the scan is a task of its own and goes on; a program may run for ever
Spec == Init /\ [][Next]_vars /\ WF_vars(Scans)

-----------------------------------------------------------------------------
(* Properties.                                                             *)

TypeOK ==
  /\ stage \in Stage /\ scope \in Scope /\ slot \in BOOLEAN /\ cancelled \in BOOLEAN
  /\ at \in 1 .. Len(Probes) + 1 /\ Len(outcomes) <= Len(Probes)
  /\ silent \in 0 .. Window /\ unseen \in 0 .. MaxUnseen

\* A program that is given up as stuck has really done nothing for a whole
\* stall window, however often it could not be looked at and however late the
\* looks came, but for one case: it has worked since the look that was last
\* kept, none after it saw anything, and the sleeps between them ran over, for
\* what cannot be seen is counted in looks and taken off time on the clock
\* (exec.rs:296-369).
OnlySilenceIsStuck == child.state = "stalled" => silent >= Window \/ (did /\ late)

\* What keeps a kind of check from going the whole way and shows nowhere: an
\* answer of the platform's it could not read, an application it could not
\* start, and a verifier that was killed from outside half way through.
Hidden(p) ==
  CASE p.does = "reads" -> IF p.unsure THEN {"unread"} ELSE {}
    [] p.does = "starts programs" -> {"untested"}
    [] OTHER -> {"cut short"}
Vouched(o, p) == o.status = "completed" /\ o.findings = <<>> => o.gaps \subseteq Hidden(p)

\* A report that was not cancelled has one outcome for every probe, and where
\* a probe is reported as done with nothing found, whatever kept its check
\* from going the whole way would have shown, the hidden gaps of its kind set
\* aside: what was stopped, what stalled and what could not be made out never
\* passes for clean (scan.rs:208-300, integrity.rs:239-268, respond.rs:225-249).
GapsAreTold ==
  report.there =>
    /\ Len(report.outcomes) = Len(Probes)
    /\ ~ report.cancelled => \A i \in 1 .. Len(Probes) : Vouched(report.outcomes[i], Probes[i])

\* An explanation has one item for every finding; what a runbook answers
\* stays the runbook's whatever the model says, and nothing else carries an
\* action that could be carried out (analysis.rs:238-435).
ActionsAreReviewed ==
  items # <<>> =>
    LET fs == Findings(report.outcomes)
    IN  /\ DOMAIN items = DOMAIN fs
        /\ \A i \in DOMAIN fs :
             /\ items[i].id = fs[i].id /\ items[i].subject = fs[i].subject
             /\ (items[i].source = "runbook") = (\E e \in ToSet(Library) : Matches(e, fs[i]))
             /\ items[i].action # None =>
                  \E e \in ToSet(Library) : Matches(e, fs[i]) /\ e.action = items[i].action

\* Findings leave the person's own machines only when the cloud is switched on
\* and wanted, and no nearer model that is wanted can be used
\* (router.rs:512-555).
Usable(c, server) ==
  server \in {"models", "embeddings only"} \/ (server = "empty" /\ c.named # "nothing")
StaysHome ==
  routing.tier = "cloud" =>
    LET c == routing.asked
    IN  /\ c.cloud = "ready" /\ c.mode \in {"auto", "cloud"}
        /\ c.mode = "auto" => ~ Usable(c, c.remote)
        /\ c.mode = "auto" /\ c.local = "addresses" => \A i \in 1 .. 2 : ~ Usable(c, c.locals[i])

\* A stop that reached a scan ends it, whatever the program it waits for does
\* (commands.rs:148-160, exec.rs:306-313).
StopIsHonoured == (cancelled /\ stage # "none") ~> (stage = "none")
=============================================================================
