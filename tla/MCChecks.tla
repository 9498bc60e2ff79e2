------------------------------ MODULE MCChecks ------------------------------
(* What the checks may read, for TLC: a few dozen machines for each, either *)
(* side of every threshold of its rules.                                    *)
EXTENDS Checks

Disk(mount, removable, readOnly, pseudo, total, free) ==
  [mount |-> mount, removable |-> removable, readOnly |-> readOnly, pseudo |-> pseudo,
   total |-> total, free |-> free]
Disks ==
  {{Disk(mount, FALSE, FALSE, FALSE, total, free)} :
     mount \in {"/", "/home"}, total \in {60, 300, 2000}, free \in {0, 1, 2, 4, 5, 9, 12, 20, 40, 64}}
  \cup {{Disk("/media", removable, readOnly, pseudo, total, 0)} :
          removable \in BOOLEAN, readOnly \in BOOLEAN, pseudo \in BOOLEAN, total \in {0, 60}}

Memories ==
  {[total |-> t, used |-> u, swapTotal |-> s, swapUsed |-> w] :
     t \in {0, 100}, u \in {80, 89, 90, 95, 96}, s \in {0, 100}, w \in {0, 49, 50}}

Proc(pid, memory, cpu, minutes, zombie) ==
  [pid |-> pid, name |-> IF pid = 1 THEN "a" ELSE "b", memory |-> memory, cpu |-> cpu,
   minutes |-> minutes, zombie |-> zombie]
Processes ==
  {{Proc(1, m, c, t, FALSE), Proc(2, n, 0, 0, FALSE)} \cup {Proc(2 + i, 0, 0, 0, TRUE) : i \in 1 .. z} :
     m \in {10, 40, 75}, n \in {10, 39}, c \in {0, 90}, t \in {9, 10}, z \in {0, 1, 5}}

WindowsDevices ==
  {{[name |-> "d", code |-> c]} : c \in {0, 10, 14, 18, 22, 28, 37, 40, 43, 45, 99}} \cup {{}}
Kernel(n, text) == [number |-> n, text |-> text, name |-> "Linux kernel"]
LinuxDevices ==
  {[running |-> Kernel(2, 5), installed |-> i, module |-> m, userspace |-> u] :
     i \in SUBSET {Kernel(1, 6), Kernel(2, 5), Kernel(2, 7), Kernel(3, 1)},
     m \in {"", "1"}, u \in {"1", "2"}}

WindowsServices ==
  {[answers |-> x, services |-> {[name |-> "s", auto |-> a, state |-> s, exit |-> e]}] :
     x \in BOOLEAN, a \in BOOLEAN, e \in {0, 1},
     s \in {"running", "stopped", "paused", "startpending", "notfound"}}
LinuxServices ==
  {[answers |-> x, services |-> {[name |-> "s", suffix |-> k, load |-> l, active |-> a]}] :
     x \in BOOLEAN, k \in {".service", ".socket"}, l \in {"loaded", "not-found", "masked"},
     a \in {"active", "inactive", "failed", "activating", "unknown"}}

WindowsDriveFacts ==
  {{[name |-> "disk 0", health |-> h, operational |-> o]} :
     h \in {"healthy", "warning", "unhealthy", "unknown"}, o \in {"ok", "degraded", ""}}
SmartFacts ==
  {{[name |-> "/dev/sda", answers |-> a, passed |-> p]} : a \in BOOLEAN, p \in {"yes", "no", "absent"}}

\* names that are replaced; and, only where asked for, names that are not
CONSTANT Unreplaced
Entry(n, name, spaces, exe, path, there, temporary, encoded) ==
  [id |-> n, command |-> TRUE, quoted |-> FALSE, marked |-> FALSE, stated |-> FALSE, name |-> name,
   spaces |-> spaces, exe |-> exe, path |-> path, there |-> there, temporary |-> temporary,
   encoded |-> encoded]
Startups ==
  {[windows |-> w, preload |-> p, entries |-> es] : w \in BOOLEAN, p \in BOOLEAN, es \in
     {{Entry(1, n, s, TRUE, path, there, t, FALSE)} :
        n \in {"none", "known"} \cup Unreplaced, s \in BOOLEAN, path \in BOOLEAN, there \in BOOLEAN,
        t \in BOOLEAN}
     \cup {{}, {Entry(1, "none", FALSE, FALSE, TRUE, TRUE, FALSE, TRUE)}}
     \cup {{Entry(i, "none", FALSE, FALSE, TRUE, TRUE, FALSE, FALSE) : i \in 1 .. 3}}}

Apps ==
  {{[id |-> "git", installed |-> i, ended |-> e], [id |-> "node", installed |-> TRUE, ended |-> f]} :
     i \in BOOLEAN, e \in {"0", "1", "stalled", "cancelled"}, f \in {"0", "not started"}}

Level == [windows |-> 2, priority |-> 3, dmesg |-> "err"]
Critically == [windows |-> 1, priority |-> 2, dmesg |-> "crit"]
Warned == [windows |-> 3, priority |-> 4, dmesg |-> "warn"]
Entry4(name, source, words, level) ==
  [name |-> name, source |-> source, event |-> "41", words |-> words, level |-> level]
Kinds ==
  {Entry4("app", {}, {}, Level), Entry4("app", {}, {}, Critically), Entry4("app", {}, {}, Warned),
   Entry4("kernel", {}, {"kernel panic"}, Level), Entry4("kernel", {}, {"i/o error"}, Level),
   Entry4("Kernel-Power", {"kernel-power"}, {}, Critically)}
Runs(counts) == {[record |-> k, count |-> n] : k \in Kinds, n \in counts}
Logs ==
  {[windows |-> w, journal |-> j, dmesg |-> "answers", log |-> l] :
     w \in {TRUE}, j \in {"answers"}, l \in
       {<<>>} \cup {<<r>> : r \in Runs({1, 2, 6, 16})} \cup {<<r, s>> : r \in Runs({1, 6}), s \in Runs({2})}}
  \cup {[windows |-> FALSE, journal |-> j, dmesg |-> d, log |-> <<r>>] :
          j \in {"answers", "fails"}, d \in {"answers", "absent"}, r \in Runs({2})}

Packaged(tools) ==
  {[tool |-> t, ended |-> e, says |-> s] : t \in tools, e \in {"exited", "stalled"},
     s \in SUBSET {[path |-> "/a", form |-> ": /path", letters |-> {"5"}, config |-> FALSE],
                   [path |-> "/b", form |-> "debsums: /path", letters |-> {"T"}, config |-> FALSE],
                   [path |-> "/c", form |-> "other", letters |-> {"missing"}, config |-> TRUE]}}
WindowsFiles ==
  {[tool |-> "sfc", ended |-> e, says |-> s] : e \in {"exited", "cancelled"},
     s \in {{}, {"found integrity violations"}, {"did not find any integrity violations"},
            {"could not perform the requested operation"}}}

AllFacts == [
  disk_space |-> Disks, memory |-> Memories, processes |-> Processes,
  devices_windows |-> WindowsDevices, devices_linux |-> LinuxDevices,
  services_windows |-> WindowsServices, services_linux |-> LinuxServices,
  drives_windows |-> WindowsDriveFacts, drives_smart |-> SmartFacts, startup |-> Startups,
  apps |-> Apps, logs |-> Logs, files |-> Packaged({"none", "pacman", "rpm", "debsums"}),
  files_windows |-> WindowsFiles]
StartupOnly == [startup |-> Startups]
DrivesOnly == [drives_smart |-> SmartFacts]
NoFacts == <<>>
=============================================================================
