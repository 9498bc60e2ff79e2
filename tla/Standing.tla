------------------------------ MODULE Standing ------------------------------
(***************************************************************************)
(* What may be stopped on a machine:                                       *)
(* crates/ork-core/src/processes/standing.rs (classify and what it asks)   *)
(* and survey.rs (Survey, Circumstances::here).                            *)
(*                                                                         *)
(* The lists of names are a parameter: which list a name is on is data,    *)
(* the order they are asked in and what a hit means are not.               *)
(***************************************************************************)
EXTENDS Integers, FiniteSets, Sequences

CONSTANTS
  Pid,      \* process identifiers, handed out again once a process has ended
  Program,  \* what a process can be running
  Facts,    \* [Program -> [name, leaf, yours, path]]
  Listed,   \* [List -> the leaf names on it]
  None

Protecting == <<"ours", "accessibility", "security", "operating system", "driver",
                "display", "network", "encryption">>
Holding == <<"holds work", "syncs files", "part of something else", "recovery tool">>
List == {Protecting[i] : i \in DOMAIN Protecting} \cup {Holding[i] : i \in DOMAIN Holding}

Leaf == {Facts[p].leaf : p \in Program}
Name == {Facts[p].name : p \in Program}

(* Facts: the name the machine reports; leaf_name, the last part of the     *)
(* path where there is one; runs_as_you; whether the path could be read.    *)
ASSUME StandingAssumption ==
  /\ \A p \in Program : Facts[p].yours \in BOOLEAN /\ Facts[p].path \in BOOLEAN
  /\ \A p \in Program : ~ Facts[p].path => Facts[p].leaf = Facts[p].name
  /\ DOMAIN Listed = List
  /\ None \notin Pid

(* A process: what it runs, which start of a process it is, what started   *)
(* it, and whether it is younger than JUST_STARTED_SECS.                   *)
Process == [runs : Program, born : Nat, parent : Pid \cup {None}, young : BOOLEAN]
Machine == [Pid -> Process \cup {None}]

Running(m) == {p \in Pid : m[p] # None}
LeafName(m, p) == Facts[m[p].runs].leaf
NameOf(m, p) == Facts[m[p].runs].name

LineageOfOne(m, p) == {p}

(* lineage_of: a process and what started it, and so on up.  A parent that  *)
(* is no longer running is still named.                                     *)
Hops == 64
Reach == IF Cardinality(Pid) < Hops THEN Cardinality(Pid) ELSE Hops
Above(m, S) == S \cup ({m[q].parent : q \in S \cap Running(m)} \ {None})
Climb(m, p) ==
  LET up[n \in 0 .. Hops] == IF n = 0 THEN {p} ELSE Above(m, up[n - 1])
  IN  up
Lineage(m, p) == Climb(m, p)[Reach]

(* family_of: the names of a lineage, which cover its other processes too *)
Family(m, lineage) == {LeafName(m, p) : p \in lineage \cap Running(m)}

(* Circumstances::here: what the tool is part of, what is in front of the   *)
(* person (None where that could not be established), and what was pinned.  *)
Here(m, tool, front, pinned) ==
  LET own == Lineage(m, tool)
      seen == IF front = None THEN {} ELSE Lineage(m, front)
  IN  [own |-> own, ownFamily |-> Family(m, own),
       front |-> seen, frontFamily |-> Family(m, seen), pinned |-> pinned]

On(name, lists) == {i \in DOMAIN lists : name \in Listed[lists[i]]}
First(S) == CHOOSE i \in S : \A j \in S : i <= j

Protected(why) == [kind |-> "protected", because |-> why]
HeldBack(why) == [kind |-> "held back", because |-> why]
Candidate == [kind |-> "candidate", because |-> "nothing"]

(* protection_for *)
ProtectionFor(name) ==
  IF On(name, Protecting) = {} THEN None ELSE Protecting[First(On(name, Protecting))]

(* What holds back a process nothing protects, most serious first: the      *)
(* first reason is the one shown, any reason at all is enough.              *)
Restraints(m, p, about) ==
  LET name == LeafName(m, p)
      runs == m[p].runs
      lists == On(name, Holding)
  IN  (IF name \in about.pinned THEN <<"pinned">> ELSE <<>>) \o
      (IF lists # {} THEN <<Holding[First(lists)]>> ELSE <<>>) \o
      (IF p \in about.front \/ name \in about.frontFamily THEN <<"in front of you">> ELSE <<>>) \o
      (IF ~ Facts[runs].yours THEN <<"another account">> ELSE <<>>) \o
      (IF ~ Facts[runs].path THEN <<"cannot be restarted">> ELSE <<>>) \o
      (IF m[p].young THEN <<"just started">> ELSE <<>>)

(* classify *)
Classify(m, p, about) ==
  LET name == LeafName(m, p)
      why == Restraints(m, p, about)
  IN  IF p \in about.own \/ name \in about.ownFamily THEN Protected("ours")
      ELSE IF ProtectionFor(name) # None THEN Protected(ProtectionFor(name))
      ELSE IF why # <<>> THEN HeldBack(Head(why))
      ELSE Candidate

(* Survey::of, by identifier, and Survey::candidates *)
Survey(m, about) == [p \in Running(m) |-> Classify(m, p, about)]
Offered(m, about) == {p \in Running(m) : Classify(m, p, about) = Candidate}
=============================================================================
