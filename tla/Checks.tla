------------------------------- MODULE Checks -------------------------------
(***************************************************************************)
(* One check, and the machine it is about: the machine changes, the check   *)
(* looks, what it found is worked on and put to the test again.  A check is *)
(* the rules of one probe (Judging) or starting an application (Launch).    *)
(***************************************************************************)
EXTENDS Judging, Launch, SequencesExt

CONSTANTS
  Facts,     \* a check's name -> what it may read: a finite set
  MaxLooks   \* bound: looks

Unique(things, key(_)) == \A s, t \in things : key(s) = key(t) => s = t

\* what a check can be told: a process is known by its number, a service by its
\* name, an application by its id; and the applications that are asked for their
\* version are not those that are tested by starting them
Readable(c, m) ==
  CASE c = "disk_space" -> m \in SUBSET DiskFacts
    [] c = "memory" -> m \in MemoryFacts
    [] c = "processes" -> m \in SUBSET ProcessFacts /\ IsFiniteSet(m) /\ Unique(m, LAMBDA p : p.pid)
    [] c = "devices_linux" -> m \in DriverFacts
    [] c \in {"services_windows", "services_linux"} -> Unique(m.services, LAMBDA s : s.name)
    [] c = "drives_windows" -> m \in SUBSET DriveFacts
    [] c = "startup" -> m \in StartupFacts /\ IsFiniteSet(m.entries) /\ Unique(m.entries, LAMBDA e : e.id)
    [] c = "apps" -> Unique(m, LAMBDA a : a.id) /\ \A a \in m : a.id \notin Launchers
    [] c = "logs" -> m \in LogFacts
    [] c = "files" -> m \in PackageFacts
    [] OTHER -> TRUE

ASSUME ChecksAssumption ==
  /\ MaxLooks \in Nat
  /\ \A c \in DOMAIN Facts : \A m \in Facts[c] : Readable(c, m)

VARIABLES
  check,     \* the check of this behaviour
  machine,   \* what it would read now
  seen,      \* what it read when it last looked
  found,     \* what it made of that
  looks,     \* looks so far
  item,      \* the finding that is being worked on
  purpose,   \* why an application is being started: "look" or "verify"
  verdict,   \* what the verifier last said
  judged     \* what it was looking at

rules == <<check, machine, seen, found, looks, item, purpose, verdict, judged>>
checks == <<rules, launch>>

NoItem == Finding("", "", "", Passed, "none")
SystemMount == "/"

\* the probe that answers for a check
ProbeOf == [
  disk_space |-> DiskSpaceProbe, memory |-> MemoryPressureProbe, processes |-> ProcessesProbe,
  devices_windows |-> DeviceHealthProbe, devices_linux |-> DeviceHealthProbe,
  services_windows |-> FailedServicesProbe, services_linux |-> FailedServicesProbe,
  drives_windows |-> DiskHealthProbe, drives_smart |-> SmartHealthProbe,
  startup |-> StartupProbe, apps |-> AppLaunchProbe, logs |-> RecentLogErrorsProbe,
  launcher |-> LauncherProbe, files |-> PackageFilesProbe, files_windows |-> SystemFilesProbe]

FindingsOf(c, m) ==
  CASE c = "disk_space" -> LowOnSpace(m, SystemMount)
    [] c = "memory" -> HighPressure(m)
    [] c = "processes" -> BadProcesses(m)
    [] c = "devices_windows" -> DeviceFindings(WindowsIssues(m))
    [] c = "devices_linux" -> DeviceFindings(LinuxIssues(m))
    [] c = "services_windows" -> FailedServices(m.services, m.answers, WindowsFailed)
    [] c = "services_linux" -> FailedServices(m.services, m.answers, SystemdFailed)
    [] c = "drives_windows" -> WindowsDrives(m)
    [] c = "drives_smart" -> SmartDrives(m)
    [] c = "startup" -> StartupFindings(m)
    [] c = "apps" -> AppFindings(m)
    [] c = "logs" -> Analyse(Read(m))
    [] c \in {"files", "files_windows"} -> FileFindings(FileReport(m))

\* what the verifier of the item makes of the machine
VerdictOf(c, m, f) ==
  IF VerifierOf(f) = "responds"
  THEN ResponseVerdict(Response(CHOOSE a \in m : a.id = f.subject))
  ELSE LET s == CHOOSE s \in m.services : s.name = f.subject
       IN  IF ~ m.answers THEN "cannot tell"
           ELSE ServiceVerdict(IF c = "services_windows" THEN WindowsStatus(s.state) ELSE SystemdStatus(s))

ChecksInit ==
  /\ check \in DOMAIN ProbeOf \cap (DOMAIN Facts \cup {"launcher"})
  /\ machine \in (IF check = "launcher" THEN {{}} ELSE Facts[check])
  /\ seen = {} /\ found = {} /\ looks = 0 /\ item = NoItem
  /\ purpose = "look" /\ verdict = "none" /\ judged = {}
  /\ LaunchInit

-----------------------------------------------------------------------------
(* Checks that read.                                                       *)

\* the world, or a fix
Changes ==
  /\ check # "launcher"
  /\ machine' \in Facts[check] \ {machine}
  /\ UNCHANGED <<check, seen, found, looks, item, purpose, verdict, judged, launch>>

\* a reader of no log there is fails the probe instead: nothing is looked at
Look ==
  /\ check # "launcher" /\ looks < MaxLooks
  /\ check = "logs" => Reader(machine) # "none"
  /\ looks' = looks + 1 /\ seen' = machine /\ found' = FindingsOf(check, machine)
  /\ UNCHANGED <<check, machine, item, purpose, verdict, judged, launch>>

\* the queue works on a finding: only one a verifier can test
Work ==
  /\ check # "launcher" /\ item = NoItem
  /\ item' \in {f \in found : VerifierOf(f) # "none"}
  /\ UNCHANGED <<check, machine, seen, found, looks, purpose, verdict, judged, launch>>

Verify ==
  /\ check # "launcher" /\ item # NoItem /\ verdict = "none"
  /\ verdict' = VerdictOf(check, machine, item) /\ judged' = machine
  /\ UNCHANGED <<check, machine, seen, found, looks, item, purpose, launch>>

-----------------------------------------------------------------------------
(* The check that starts an application, and the verifier that does too.   *)

Test ==
  /\ check = "launcher"
  /\ purpose' = IF item = NoItem THEN "look" ELSE "verify"
  /\ BeginTest
  /\ UNCHANGED <<check, machine, seen, found, looks, item, verdict, judged>>

Testing == check = "launcher" /\ (TestStep \/ WorldStep) /\ UNCHANGED rules

Tested ==
  /\ step = "done" /\ step' = "idle"
  /\ IF purpose = "look"
     THEN /\ found' = LaunchFinding("steam", result)
          /\ item' = IF found' = {} THEN NoItem ELSE CHOOSE f \in found' : TRUE
          /\ UNCHANGED verdict
     ELSE /\ verdict' = LaunchVerdict(result) /\ item' = NoItem /\ UNCHANGED found
  /\ UNCHANGED <<check, machine, seen, looks, purpose, judged>>
  /\ UNCHANGED <<app, wrapper, polls, result, before, closed, tests, starts>>

ChecksNext == Changes \/ Look \/ Work \/ Verify \/ Test \/ Testing \/ Tested

ChecksSpec == ChecksInit /\ [][ChecksNext]_checks

-----------------------------------------------------------------------------
(* Properties.                                                             *)

ChecksTypeOK ==
  /\ check \in DOMAIN ProbeOf /\ looks \in 0 .. MaxLooks
  /\ item.severity \in Passed .. Critical /\ \A f \in found : f.severity \in Info .. Critical
  /\ purpose \in {"look", "verify"}
  /\ verdict \in {"none", "fixed", "still broken", "cannot tell"}
  /\ app \in {"none", "we", "you"} /\ step \in LaunchStep /\ result \in LaunchResult
  /\ polls \in 0 .. SETTLE /\ closed \subseteq {"we", "you"}

\* b is a, got worse in some respect and better in none
WorseDisks(a, b) ==
  \A d \in a : \E e \in b : e.free <= d.free /\ e = [d EXCEPT !.free = e.free]
WorseProcesses(a, b) ==
  \A p \in a : \E q \in b :
    /\ q.memory >= p.memory /\ q.cpu >= p.cpu /\ q.minutes >= p.minutes
    /\ q = [p EXCEPT !.memory = q.memory, !.cpu = q.cpu, !.minutes = q.minutes]
WorseKernel(a, b) ==
  /\ b = [a EXCEPT !.installed = b.installed]
  /\ a.installed # {} /\ a.installed \ {a.running} \subseteq b.installed
  /\ a.running \notin a.installed => a.running \notin b.installed
HealthNo == [healthy |-> 1, warning |-> 2, unhealthy |-> 3]
WorseDrives(a, b) ==
  \A d \in a : \E e \in b :
    /\ e = [d EXCEPT !.health = e.health]
    /\ e = d \/ ({d.health, e.health} \subseteq DOMAIN HealthNo /\ HealthNo[d.health] <= HealthNo[e.health])
WorseStartup(a, b) ==
  /\ a.windows = b.windows /\ (a.preload => b.preload)
  /\ \A e \in a.entries : \E f \in b.entries :
       /\ f = [e EXCEPT !.there = f.there, !.temporary = f.temporary, !.encoded = f.encoded]
       /\ (f.there => e.there) /\ (e.temporary => f.temporary) /\ (e.encoded => f.encoded)
WorseLog(a, b) ==
  /\ b = [a EXCEPT !.log = b.log]
  /\ IsPrefix(a.log, b.log) /\ Records(b.log, DOMAIN b.log) <= MAX_ENTRIES
WorseFiles(a, b) ==
  /\ a.tool # "sfc" /\ b = [a EXCEPT !.says = b.says] /\ a.says \subseteq b.says

Worse(c, a, b) ==
  CASE c = "disk_space" -> WorseDisks(a, b)
    [] c = "memory" -> /\ b = [a EXCEPT !.used = b.used, !.swapUsed = b.swapUsed]
                       /\ b.used >= a.used /\ b.swapUsed >= a.swapUsed
    [] c = "processes" -> WorseProcesses(a, b)
    [] c = "devices_linux" -> WorseKernel(a, b)
    [] c = "drives_windows" -> WorseDrives(a, b)
    [] c = "startup" -> WorseStartup(a, b)
    [] c = "logs" -> WorseLog(a, b)
    [] c = "files" -> WorseFiles(a, b)
    [] OTHER -> FALSE

Severest(findings) == Max({f.severity : f \in findings} \cup {Passed})

\* A machine that got worse is never told a milder story: whatever thresholds
\* a rule puts in front of which, and however repeats are counted, what the
\* check finds on the worse machine is at least as severe (probes: assess,
\* analyse, cluster_severity, check_kernel_modules, finding_for).
WorseIsNoMilder ==
  [][(looks' # looks /\ looks > 0 /\ Worse(check, seen, machine))
       => Severest(found') >= Severest(found)]_checks

\* What the verifier calls fixed the check no longer finds on the same
\* machine, though they ask different tools: systemctl show or Get-Service
\* here, a list of failed units or a query there (verify.rs, services.rs).
FixedIsNotFound ==
  (verdict = "fixed" /\ looks > 0 /\ check # "launcher" /\ judged = seen) => item \notin found

\* An application that was running when a test of it began, and has not been
\* closed since, is not closed by that test: no hand-over of a second start to
\* it, and no second test of it by a verifier, ends in asking it to quit
\* (launch.rs: test, stop, stop_detached).
AlreadyRunningIsLeftAlone == before => closed = {}

-----------------------------------------------------------------------------
(* What the source says of itself and the code does not do.                *)

\* probes/startup.rs, expand: "a path that silently lost a segment would be
\* reported as a missing file, which is a false accusation dressed as a fact":
\* an entry is called missing only if its program really is not there.
NothingIsAccusedUnseen ==
  (check = "startup" /\ looks > 0) =>
    \A e \in Listed(seen) : "missing" \in Concerns(e) => ~ e.there

\* finding.rs, Finding.probe: "The probe that produced this finding."
NamesItsProbe == \A f \in found : f.probe = ProbeOf[check].id

\* launch.rs: "Only a process this module started is ever stopped."
OnlyOursIsStopped == "you" \notin closed
=============================================================================
