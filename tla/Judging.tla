------------------------------ MODULE Judging -------------------------------
(***************************************************************************)
(* What each check makes of what it reads: the rules of the thirteen probes *)
(* (probes/) over the facts the platform layer hands them (platform/), as   *)
(* operators from facts to findings.  Sizes are in GiB, memory in percent   *)
(* of the machine, times in minutes.  A command line, a version or a log    *)
(* record is a record of what the rules ask of it, never its text.          *)
(***************************************************************************)
EXTENDS Integers, Sequences, FiniteSets, FiniteSetsExt

CONSTANTS
  ZOMBIE_THRESHOLD,   \* finished processes not cleaned up before it is said
  CLUSTER_THRESHOLD,  \* unrecognised errors of one source before it is said
  CROWDED,            \* start-up entries before the list is mentioned
  MAX_ENTRIES         \* records read of a log, the newest

ASSUME JudgingAssumption ==
  /\ {ZOMBIE_THRESHOLD, CLUSTER_THRESHOLD, CROWDED, MAX_ENTRIES} \subseteq Nat \ {0}

Passed == 0  \* no finding
Info == 1
Low == 2
Medium == 3
High == 4
Critical == 5

Finding(probe, id, subject, severity, triage) ==
  [probe |-> probe, id |-> id, subject |-> subject, severity |-> severity, triage |-> triage]

\* the first rule that holds decides: a sequence of <<condition, severity>>
Ladder(rules) ==
  LET held == {i \in DOMAIN rules : rules[i][1]}
  IN  IF held = {} THEN Passed ELSE rules[Min(held)][2]

-----------------------------------------------------------------------------
(* The probes: the id each answers under, and the findings on its list.    *)

Probe(id, emits) == [id |-> id, emits |-> emits]

DriveFindings == {"storage.drive-failing", "storage.drive-warning"}
IntegrityFindings == {"system.files-altered", "system.config-altered", "system.files-unverified"}

DiskSpaceProbe == Probe("storage.disk-space", {"storage.volume-low-on-space"})
MemoryPressureProbe == Probe("memory.pressure", {"memory.high-pressure"})
ProcessesProbe == Probe("system.processes",
  {"process.memory-hog", "process.sustained-high-cpu", "process.zombie-buildup"})
DeviceHealthProbe == Probe("devices.health",
  {"device.not-working", "device.driver-missing", "device.driver-mismatch", "device.reboot-required"})
FailedServicesProbe == Probe("services.failed", {"service.stopped"})
DiskHealthProbe == Probe("storage.health", DriveFindings)
SmartHealthProbe == Probe("storage.health-smart", DriveFindings)
StartupProbe == Probe("startup.entries",
  {"startup.encoded-command", "startup.temporary-location", "startup.points-at-nothing",
   "startup.library-preload", "startup.crowded"})
AppLaunchProbe == Probe("apps.launch-check", {"app.launch-failed", "app.launch-hung"})
RecentLogErrorsProbe == Probe("logs.recent-errors",
  {"logs.unexpected-shutdown", "logs.bugcheck", "logs.kernel-panic", "logs.hardware-error",
   "logs.display-driver-timeout", "logs.gpu-fault", "logs.oom-kill", "logs.storage-error",
   "logs.repeated-error"})
LauncherProbe == Probe("apps.launcher-check", {"app.launch-failed"})
SystemFilesProbe == Probe("system.files", IntegrityFindings)
PackageFilesProbe == Probe("system.files-packaged", IntegrityFindings)

-----------------------------------------------------------------------------
(* Disk space.                                                             *)

DiskFacts == [mount : STRING, removable : BOOLEAN, readOnly : BOOLEAN, pseudo : BOOLEAN,
              total : Nat, free : Nat]

\* a filesystem that is no disk, or has no size, is not a volume
Volumes(disks) == {d \in disks : ~ d.pseudo /\ d.total # 0}

Role(d, systemMount) ==
  IF d.removable THEN "removable" ELSE IF d.mount = systemMount THEN "system" ELSE "data"

\* an absolute floor first, then ample room, then a share of the drive
VolumeSeverity(role, d) ==
  LET less(percent) == 100 * d.free < percent * d.total
  IN  IF role = "removable" \/ d.readOnly THEN Passed
      ELSE IF role = "system"
      THEN Ladder(<< <<d.free < 2, Critical>>, <<d.free < 10, High>>, <<d.free >= 64, Passed>>,
                     <<less(5), High>>, <<less(10), Medium>> >>)
      ELSE Ladder(<< <<d.free < 1, High>>, <<d.free < 5, Medium>>, <<d.free >= 64, Passed>>,
                     <<less(3), Medium>>, <<less(7), Low>> >>)

LowOnSpace(disks, systemMount) ==
  LET found(d) == Finding("storage.disk-space", "storage.volume-low-on-space", d.mount,
                          VolumeSeverity(Role(d, systemMount), d), "inline")
  IN  {f \in {found(d) : d \in Volumes(disks)} : f.severity # Passed}

-----------------------------------------------------------------------------
(* Memory and processes.                                                   *)

MemoryFacts == [total : Nat, used : Nat, swapTotal : Nat, swapUsed : Nat]
ProcessFacts == [pid : Nat, name : STRING, memory : Nat, cpu : Nat, minutes : Nat, zombie : BOOLEAN]

\* the share of a total, and nothing at all of a total of nothing
Share(used, total) == IF total = 0 THEN 0 ELSE (100 * used) \div total

HighPressure(m) ==
  LET used == Share(m.used, m.total)
      thrashing == used >= 90 /\ Share(m.swapUsed, m.swapTotal) >= 50
      severity == Ladder(<< <<thrashing \/ used >= 96, High>>, <<used >= 90, Medium>> >>)
  IN  IF severity = Passed THEN {}
      ELSE {Finding("memory.pressure", "memory.high-pressure", "", severity, "queue")}

\* the single largest, the last of them in the order of the list
Largest(processes) ==
  CHOOSE p \in processes : \A q \in processes :
    q.memory < p.memory \/ (q.memory = p.memory /\ q.pid <= p.pid)

MemoryHog(processes) ==
  LET worst == Largest(processes)
      severity == Ladder(<< <<worst.memory >= 75, Medium>>, <<worst.memory >= 40, Low>> >>)
  IN  IF processes = {} \/ severity = Passed THEN {}
      ELSE {Finding("system.processes", "process.memory-hog", worst.name, severity, "queue")}

StuckProcesses(processes) ==
  {Finding("system.processes", "process.sustained-high-cpu", p.name, Low, "queue") :
     p \in {p \in processes : p.cpu >= 90 /\ p.minutes >= 10}}

ZombieBuildup(processes) ==
  LET zombies == Cardinality({p \in processes : p.zombie})
      severity == Ladder(<< <<zombies >= 5 * ZOMBIE_THRESHOLD, Medium>>,
                            <<zombies >= ZOMBIE_THRESHOLD, Low>> >>)
  IN  IF severity = Passed THEN {}
      ELSE {Finding("system.processes", "process.zombie-buildup", "", severity, "queue")}

BadProcesses(processes) ==
  MemoryHog(processes) \cup ZombieBuildup(processes) \cup StuckProcesses(processes)

-----------------------------------------------------------------------------
(* Devices and their drivers.                                              *)

\* the text of a version is its place in the order of texts
Version == [number : Nat, text : Nat, name : STRING]
DriverFacts == [running : Version, installed : SUBSET Version, module : STRING, userspace : STRING]

DeviceSeverity == [not_working |-> Medium, driver_missing |-> Medium,
                   driver_mismatch |-> High, reboot_required |-> Low]
DeviceId == [not_working |-> "device.not-working", driver_missing |-> "device.driver-missing",
             driver_mismatch |-> "device.driver-mismatch", reboot_required |-> "device.reboot-required"]

DeviceFindings(issues) ==
  {Finding("devices.health", DeviceId[i.kind], i.device, DeviceSeverity[i.kind], "queue") : i \in issues}

\* the codes of Windows: nothing wrong, or turned off by its owner, is no issue
Deliberate == {22, 45}
Explained(code) ==
  IF code = 14 THEN "reboot_required"
  ELSE IF code \in {18, 19} \cup 37 .. 40 THEN "driver_mismatch"
  ELSE IF code = 28 THEN "driver_missing"
  ELSE "not_working"

WindowsIssues(devices) ==
  {[device |-> d.name, kind |-> Explained(d.code)] : d \in {d \in devices : d.code \notin {0} \cup Deliberate}}

\* a version is its numbers, in their order, and its text, in its own
NewerThan(a, b) == a.number > b.number \/ (a.number = b.number /\ a.text > b.text)

\* (KernelNewerFirst is a mutant: a kernel that is gone is looked for last.)
KernelNewerFirst(running, installed) ==
  IF \E k \in installed : NewerThan(k, running)
  THEN {[device |-> running.name, kind |-> "reboot_required"]}
  ELSE IF running \notin installed THEN {[device |-> running.name, kind |-> "driver_mismatch"]} ELSE {}

\* of the newer ones the greatest text is named: the versions are strings
KernelIssues(running, installed) ==
  LET newer == {k \in installed : NewerThan(k, running)}
      named == CHOOSE k \in newer : \A other \in newer : other.text <= k.text
  IN  IF running \notin installed
      THEN {[device |-> running.name, kind |-> "driver_mismatch"]}
      ELSE IF newer = {} THEN {} ELSE {[device |-> named.name, kind |-> "reboot_required"]}

\* both halves of the driver known, and not the same
NvidiaIssues(module, userspace) ==
  IF "" \in {module, userspace} \/ module = userspace THEN {}
  ELSE {[device |-> "NVIDIA graphics driver", kind |-> "driver_mismatch"]}

\* no list of modules is a container or a kernel without any: nothing is said
LinuxIssues(m) ==
  (IF m.installed = {} THEN {} ELSE KernelIssues(m.running, m.installed))
    \cup NvidiaIssues(m.module, m.userspace)

-----------------------------------------------------------------------------
(* What drives say of themselves.                                          *)

DriveFacts == [name : STRING, health : STRING, operational : STRING]

\* what Windows says: a healthy drive that is not simply OK is a warning
WindowsVerdict(d) ==
  IF d.health = "healthy"
  THEN IF d.operational \in {"", "ok", "online"} THEN "healthy" ELSE "warning"
  ELSE IF d.health = "warning" THEN "warning"
  ELSE IF d.health = "unhealthy" THEN "failing"
  ELSE "unknown"

\* what smartctl says: no answer, or none it can use, is unknown
SmartVerdict(d) ==
  IF d.answers /\ d.passed = "yes" THEN "healthy"
  ELSE IF d.answers /\ d.passed = "no" THEN "failing"
  ELSE "unknown"

\* both probes answer under the id of the first
DriveFinding(name, verdict) ==
  IF verdict = "failing"
  THEN {Finding("storage.health", "storage.drive-failing", name, Critical, "queue")}
  ELSE IF verdict = "warning"
  THEN {Finding("storage.health", "storage.drive-warning", name, High, "queue")}
  ELSE {}

WindowsDrives(drives) == UNION {DriveFinding(d.name, WindowsVerdict(d)) : d \in drives}
SmartDrives(drives) == UNION {DriveFinding(d.name, SmartVerdict(d)) : d \in drives}

-----------------------------------------------------------------------------
(* Services: what the probe lists, and what the verifier is told of one.   *)

\* set to start by itself, not running, and stopped with an error
WindowsFailed(s) == s.auto /\ s.state # "running" /\ s.exit # 0

\* systemctl list-units --state=failed, of which only services are taken
SystemdFailed(s) == s.active = "failed" /\ s.suffix = ".service"

ServiceFindings(names) ==
  {Finding("services.failed", "service.stopped", name, Medium, "queue") : name \in names}

\* the exit status of the tool is not looked at: one that says nothing has
\* listed nothing
FailedServices(services, answers, failed(_)) ==
  ServiceFindings({s.name : s \in {s \in services : answers /\ failed(s)}})

\* (PausedRuns is a mutant: what is not stopped is taken to run.)
PausedRuns(state) ==
  IF state \in {"stopped", "notfound", ""} THEN "stopped" ELSE "running"

WindowsStatus(state) ==
  IF state = "running" THEN "running"
  ELSE IF state \in {"stopped", "paused"} THEN "stopped"
  ELSE IF state \in {"notfound", ""} THEN "not found"
  ELSE "unknown"  \* on its way somewhere

ActiveStatus(active) ==
  IF active = "active" THEN "running"
  ELSE IF active \in {"inactive", "failed", "deactivating"} THEN "stopped"
  ELSE IF active = "unknown" THEN "not found"
  ELSE "unknown"

SystemdStatus(s) ==
  IF s.load = "loaded" THEN ActiveStatus(s.active)
  ELSE IF s.load = "not-found" THEN "not found"
  ELSE "unknown"

-----------------------------------------------------------------------------
(* Files of the operating system.                                          *)

Report(verdict, files, config) == [verdict |-> verdict, files |-> files, config |-> config]

\* the sentences of sfc, in the order they are looked for: "did not find"
\* holds the words of "found"
SfcVerdict(says) ==
  IF "did not find any integrity violations" \in says THEN "intact"
  ELSE IF "found integrity violations" \in says THEN "damaged"
  ELSE "could not check"

Verdict(files) == IF files = {} THEN "intact" ELSE "damaged"

\* pacman: a line that ends in ": /path"
PacmanFiles(lines) == {l.path : l \in {l \in lines : l.form = ": /path"}}

\* rpm: letters for what differs, a word for a file that is gone, and a mark
\* on configuration; a time alone is no difference
RpmDiffers(l) == l.letters \cap {"5", "S", "M", "missing"} # {}
RpmFiles(lines) == {l.path : l \in {l \in lines : RpmDiffers(l) /\ ~ l.config}}
RpmConfig(lines) == {l.path : l \in {l \in lines : RpmDiffers(l) /\ l.config}}

\* debsums: a line of its own that names a path
DebsumsFiles(lines) == {l.path : l \in {l \in lines : l.form = "debsums: /path"}}

PackageFacts == [
  tool : {"none", "pacman", "rpm", "debsums"}, ended : STRING,
  says : SUBSET [path : STRING, form : STRING, letters : SUBSET STRING, config : BOOLEAN]]

\* the first of the three that is installed is asked; a run that stalled or
\* was cancelled is no pass, and its exit code is not looked at
FileReport(m) ==
  IF m.tool = "none" \/ m.ended \in {"stalled", "cancelled"} THEN Report("could not check", {}, {})
  ELSE IF m.tool = "sfc" THEN Report(SfcVerdict(m.says), {}, {})
  ELSE IF m.tool = "rpm" THEN Report(Verdict(RpmFiles(m.says)), RpmFiles(m.says), RpmConfig(m.says))
  ELSE LET files == IF m.tool = "pacman" THEN PacmanFiles(m.says) ELSE DebsumsFiles(m.says)
       IN  Report(Verdict(files), files, {})

AboutFiles(id, severity, triage) == Finding("system.files", id, "", severity, triage)

FileFindings(report) ==
  {AboutFiles("system.files-altered", High, "queue") : r \in {report.verdict} \cap {"damaged"}}
    \cup {AboutFiles("system.files-unverified", Info, "none") : r \in {report.verdict} \cap {"could not check"}}
    \cup {AboutFiles("system.config-altered", Info, "none") : r \in {report.config} \ {{}}}

-----------------------------------------------------------------------------
(* The system log.                                                         *)

\* a pattern: what it asks of source, event and message ({} asks nothing)
Pattern(id, sources, events, messages, severity) ==
  [id |-> id, sources |-> sources, events |-> events, messages |-> messages, severity |-> severity]

Patterns == {
  Pattern("logs.unexpected-shutdown", {"kernel-power"}, {"41"}, {}, High),
  Pattern("logs.bugcheck", {"bugcheck"}, {}, {}, High),
  Pattern("logs.hardware-error", {"whea-logger"}, {}, {}, Critical),
  Pattern("logs.display-driver-timeout", {"display", "nvlddmkm", "amdkmdap"}, {},
          {"stopped responding", "has been recovered", "timeout detection"}, High),
  Pattern("logs.kernel-panic", {}, {},
          {"kernel panic", "oops:", "bug: unable to handle", "soft lockup", "hard lockup"}, Critical),
  Pattern("logs.gpu-fault", {}, {},
          {"nvrm: xid", "gpu has fallen off the bus", "amdgpu: gpu reset", "ring gfx timeout"}, High),
  Pattern("logs.oom-kill", {}, {}, {"out of memory: killed", "oom-killer", "killed process"}, High),
  Pattern("logs.storage-error", {"disk", "ntfs", "nvme", "ata"}, {},
          {"i/o error", "bad block", "unrecoverable", "medium error", "failed command"}, Critical)}

\* every criterion a pattern has must hold; `source` and `words` are the
\* needles the text of the record contains
Matches(pattern, record) ==
  /\ pattern.sources # {} => pattern.sources \cap record.source # {}
  /\ pattern.events # {} => record.event \in pattern.events
  /\ pattern.messages # {} => pattern.messages \cap record.words # {}
  /\ pattern.sources \cup pattern.events \cup pattern.messages # {}

\* the levels of the readers, as numbers of theirs
WindowsLevel(n) == IF n = 1 THEN "critical" ELSE IF n = 3 THEN "warning" ELSE "error"
JournalLevel(priority) ==
  IF priority \in 0 .. 2 THEN "critical" ELSE IF priority = 4 THEN "warning" ELSE "error"
DmesgLevel(name) ==
  IF name \in {"emerg", "alert", "crit"} THEN "critical" ELSE IF name = "warn" THEN "warning" ELSE "error"

\* the event log; the journal; or the kernel's own buffer, when the journal
\* cannot be had
Reader(m) ==
  IF m.windows THEN "events"
  ELSE IF m.journal = "answers" THEN "journal"
  ELSE IF m.dmesg = "answers" THEN "dmesg"
  ELSE "none"

\* off Windows the source stands in for the event
Understood(reader, r) ==
  [r EXCEPT !.event = IF reader = "events" THEN r.event ELSE r.name,
            !.level = IF reader = "events" THEN WindowsLevel(r.level.windows)
                      ELSE IF reader = "journal" THEN JournalLevel(r.level.priority)
                      ELSE DmesgLevel(r.level.dmesg)]

Signature(r) == IF r.event = "" THEN r.name ELSE r.name \o "/" \o r.event

\* a log is a sequence of runs of alike records, oldest first; the newest
\* MAX_ENTRIES records of it are read
LogRecord == [name : STRING, source : SUBSET STRING, event : STRING, words : SUBSET STRING,
              level : [windows : Nat, priority : Nat, dmesg : STRING]]
LogFacts == [windows : BOOLEAN, journal : STRING, dmesg : STRING,
             log : Seq([record : LogRecord, count : Nat])]
Records(log, runs) == Cardinality(UNION {{i} \X (1 .. log[i].count) : i \in runs})
ReadCount(log, i) == Max({0, Min({log[i].count, MAX_ENTRIES - Records(log, i + 1 .. Len(log))})})
Read(m) ==
  [i \in DOMAIN m.log |-> [record |-> Understood(Reader(m), m.log[i].record), count |-> ReadCount(m.log, i)]]

ClusterSeverity(count, critical) ==
  Ladder(<< <<critical /\ count >= CLUSTER_THRESHOLD, High>>,
            <<count >= CLUSTER_THRESHOLD * 8, High>>,
            <<count >= CLUSTER_THRESHOLD * 3, Medium>>,
            <<TRUE, Low>> >>)

AboutLogs(id, subject, severity) == Finding("logs.recent-errors", id, subject, severity, "queue")

\* a recognised record is out of the count of its source, and so is a warning
Analyse(log) ==
  LET present == {i \in DOMAIN log : log[i].count > 0}
      matched(p) == {i \in present : Matches(p, log[i].record)}
      rest == {i \in present : /\ log[i].record.level # "warning"
                               /\ \A p \in Patterns : i \notin matched(p)}
      cluster(s) == {i \in rest : Signature(log[i].record) = s}
      critical(s) == \E i \in cluster(s) : log[i].record.level = "critical"
      repeated == {s \in {Signature(log[i].record) : i \in rest} :
                     Records(log, cluster(s)) >= CLUSTER_THRESHOLD}
  IN  {AboutLogs(p.id, p.id, p.severity) : p \in {p \in Patterns : matched(p) # {}}}
        \cup {AboutLogs("logs.repeated-error", s,
                        ClusterSeverity(Records(log, cluster(s)), critical(s))) : s \in repeated}

-----------------------------------------------------------------------------
(* What starts with the machine.  An entry is what its command line looks   *)
(* like: `quoted`, with `spaces` in its path, ending in `.exe`, under a      *)
(* `marked` line (systemd's `-`), a `path` or a bare name, with a `name` in  *)
(* it to be replaced, `stated` by whoever listed it, or guessed.             *)

EntryFacts == [
  id : Nat, command : BOOLEAN, quoted : BOOLEAN, marked : BOOLEAN, stated : BOOLEAN, name : STRING,
  spaces : BOOLEAN, exe : BOOLEAN, path : BOOLEAN, there : BOOLEAN, temporary : BOOLEAN,
  encoded : BOOLEAN]
StartupFacts == [windows : BOOLEAN, preload : BOOLEAN, entries : SUBSET EntryFacts]

\* everything between quotes; up to `.exe` and a space; or the first word
WholeProgram(e) == e.quoted \/ e.exe \/ ~ e.spaces

\* %NAME% with something behind it, and ~/; nothing else is replaced
Expanded(e) == e.name \in {"none", "known", "~"}

\* a program stated by the lister is taken as it is, without its quotes
ReadRight(e) ==
  /\ ~ e.marked
  /\ IF e.stated THEN e.name = "none" ELSE WholeProgram(e) /\ Expanded(e)

\* a path is looked for; a bare name that is not found is not known to be gone
ProgramExists(e) ==
  IF e.path THEN IF ReadRight(e) /\ e.there THEN "yes" ELSE "no"
  ELSE IF ReadRight(e) /\ e.there THEN "yes" ELSE "not known"

Concerns(e) ==
  {c \in {"missing", "temporary", "encoded"} :
     CASE c = "missing" -> ProgramExists(e) = "no"
       [] c = "temporary" -> e.temporary
       [] c = "encoded" -> e.encoded}

\* only entries with a command: on Windows the values of the Run keys, what is
\* in the start-up folders and the tasks that start by themselves, of which a
\* shortcut or a task states its program; on Linux the Exec line of a desktop
\* file or the ExecStart of a unit, which state none
WindowsListed(entries) == {e \in entries : e.command}
LinuxListed(entries) == {[e EXCEPT !.stated = FALSE] : e \in {e \in entries : e.command}}
Listed(m) == IF m.windows THEN WindowsListed(m.entries) ELSE LinuxListed(m.entries)
Preloaded(m) == ~ m.windows /\ m.preload

AboutStartup(id, subject, severity, triage) == Finding("startup.entries", id, subject, severity, triage)

StartupFindings(m) ==
  LET entries == Listed(m)
      any(c) == \E e \in entries : c \in Concerns(e)
      when(holds, f) == IF holds THEN {f} ELSE {}
  IN  when(Preloaded(m), AboutStartup("startup.library-preload", "/etc/ld.so.preload", High, "queue"))
        \cup when(any("encoded"), AboutStartup("startup.encoded-command", "", High, "queue"))
        \cup when(any("temporary"), AboutStartup("startup.temporary-location", "", Medium, "queue"))
        \cup when(any("missing"), AboutStartup("startup.points-at-nothing", "", Low, "queue"))
        \cup when(Cardinality(entries) >= CROWDED, AboutStartup("startup.crowded", "", Info, "none"))

-----------------------------------------------------------------------------
(* Applications that can be asked for their version.                       *)

\* nothing under any of its names is not installed; a run that ended by
\* itself answered, one that went quiet hung
Response(a) ==
  IF ~ a.installed THEN "not installed"
  ELSE IF a.ended = "0" THEN "responds"
  ELSE IF a.ended = "stalled" THEN "hung"
  ELSE IF a.ended \in {"cancelled", "not started"} THEN "could not test"
  ELSE "failed"

AboutApp(probe, id, app) == Finding(probe, id, app, High, "queue")

ResponseFinding(app, response) ==
  IF response = "failed" THEN {AboutApp("apps.launch-check", "app.launch-failed", app)}
  ELSE IF response = "hung" THEN {AboutApp("apps.launch-check", "app.launch-hung", app)}
  ELSE {}

AppFindings(apps) == UNION {ResponseFinding(a.id, Response(a)) : a \in apps}

LaunchFinding(app, result) ==
  IF result = "failed" THEN {AboutApp("apps.launcher-check", "app.launch-failed", app)} ELSE {}

-----------------------------------------------------------------------------
(* Verifiers: is what was found still so?  (ork-fix, verify)               *)

ServiceVerdict(status) ==
  IF status = "running" THEN "fixed" ELSE IF status = "stopped" THEN "still broken" ELSE "cannot tell"

ResponseVerdict(response) ==
  IF response = "responds" THEN "fixed"
  ELSE IF response \in {"failed", "hung"} THEN "still broken"
  ELSE "cannot tell"

LaunchVerdict(result) ==
  IF result = "started" THEN "fixed" ELSE IF result = "failed" THEN "still broken" ELSE "cannot tell"

\* the first of the registry that handles an item; the id of no finding
\* speaks of a stale file, so the last is never asked
Launchers == {"steam"}
VerifierOf(f) ==
  IF f.id \in {"app.launch-failed", "app.launch-hung"}
  THEN IF f.subject \in Launchers THEN "launch" ELSE "responds"
  ELSE IF f.id = "service.stopped" THEN "service"
  ELSE "none"
=============================================================================
