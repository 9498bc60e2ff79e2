------------------------------- MODULE MCScan -------------------------------
(* Small instances of Scan for TLC.                                         *)
EXTENDS Scan

MCProbes ==
  <<[id |-> "apps.launch-check", does |-> "starts programs", tier |-> "quick", elevated |-> FALSE,
     runs_here |-> TRUE, tools |-> TRUE, unsure |-> FALSE, finds |-> None, reads |-> {"git", "node"}],
    [id |-> "storage.health-smart", does |-> "reads", tier |-> "full", elevated |-> TRUE,
     runs_here |-> TRUE, tools |-> TRUE, unsure |-> TRUE, finds |-> "storage.drive-failing",
     reads |-> {"disk"}],
    [id |-> "storage.disk-space", does |-> "reads", tier |-> "quick", elevated |-> FALSE,
     runs_here |-> TRUE, tools |-> TRUE, unsure |-> FALSE, finds |-> "storage.volume-low-on-space",
     reads |-> {"disk"}],
    [id |-> "services.windows", does |-> "reads", tier |-> "quick", elevated |-> FALSE,
     runs_here |-> FALSE, tools |-> TRUE, unsure |-> TRUE, finds |-> None, reads |-> {"disk"}],
    [id |-> "system.files", does |-> "verifies files", tier |-> "deep", elevated |-> FALSE,
     runs_here |-> TRUE, tools |-> TRUE, unsure |-> FALSE, finds |-> None, reads |-> {"rpm"}]>>

MCSubjectNo == [s \in {"none", "disk", "git", "node"} |->
  CASE s = "none" -> 0 [] s = "disk" -> 1 [] s = "git" -> 2 [] OTHER -> 3]

MCLibrary ==
  Merge(<<[id |-> "hung", answers |-> {"app.launch-hung"}, keywords |-> {}, action |-> "remove lock"],
          [id |-> "full", answers |-> {"storage.volume-low-on-space"}, keywords |-> {}, action |-> None]>>,
        <<[id |-> "full", answers |-> {"storage.volume-low-on-space"}, keywords |-> {}, action |-> "empty cache"],
          [id |-> "git", answers |-> {"app.launch-failed"}, keywords |-> {"git"}, action |-> None]>>)

At(mode, named, remote, local, first, second, cloud) ==
  [mode |-> mode, named |-> named, remote |-> remote, local |-> local,
   locals |-> <<first, second>>, cloud |-> cloud]

MCConfigs ==
  {At("off", "nothing", "models", "addresses", "models", "models", "ready")} \cup
  {At("auto", "nothing", r, "addresses", "silent", l, "ready") :
     r \in {"disabled", "refuses", "models"}, l \in {"empty", "embeddings only"}} \cup
  {At(m, "not offered", "no address", "addresses", "empty", "silent", c) :
     m \in {"auto", "cloud", "remote"}, c \in {"disabled", "no key", "ready"}}

Answer(id, subject, blank) ==
  [id |-> id, subject |-> subject, blank |-> blank, action |-> "run this"]

MCReplies ==
  {[usable |-> FALSE, says |-> <<>>],
   [usable |-> TRUE, says |-> <<Answer("app.launch-failed", "node", FALSE),
                                Answer("app.launch-hung", "none", FALSE)>>],
   [usable |-> TRUE, says |-> <<Answer("app.launch-failed", "none", FALSE),
                                Answer("system.files-altered", "git", FALSE),
                                Answer("system.files-unverified", "none", FALSE)>>]}
=============================================================================
