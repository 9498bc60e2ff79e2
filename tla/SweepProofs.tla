---------------------------- MODULE SweepProofs -----------------------------
(* Proofs about Sweep, for any machine, any lists of names and any number   *)
(* of processes: what is asked to end was agreed to, is written down, and   *)
(* is neither the tool nor anything it runs in.                              *)
EXTENDS Sweep, FiniteSetTheorems, WellFoundedInduction, TLAPS

(* Every start of a process has a number of its own.                        *)
Told ==
  \A p, q \in Running(machine) :
    machine[p].born < Oldest + starts /\ (machine[p].born = machine[q].born => p = q)

(* Where the sweep asks nothing, all it asked is written down; where it     *)
(* has asked and not yet written, one is missing.                           *)
Log ==
  /\ stage \in {"shown", "next", "judged"} => asked \subseteq written
  /\ \E b \in Nat : asked \ written \subseteq {b}

(* A verdict holds until the identifier changes hands: what is under it is  *)
(* what was judged, or nothing.                                             *)
Judged ==
  stage = "judged" =>
    /\ target \in agreed
    /\ ~ changed /\ target.pid \in Running(machine) =>
         /\ NameOf(machine, target.pid) = target.name
         /\ ProtectionFor(LeafName(machine, target.pid)) = None
         /\ LeafName(machine, target.pid) \notin pinned

IInv == TypeOK /\ Told /\ Log /\ Judged

-----------------------------------------------------------------------------
(* Standing: what is offered is neither on a protecting list nor pinned.    *)

LEMMA CandidateIsFree ==
  ASSUME NEW m, NEW p, NEW about, Classify(m, p, about) = Candidate
  PROVE  ProtectionFor(LeafName(m, p)) = None /\ LeafName(m, p) \notin about.pinned
<1> DEFINE name == LeafName(m, p)
<1>1. \A why : Protected(why) # Candidate /\ HeldBack(why) # Candidate
  BY DEF Protected, HeldBack, Candidate
<1>2. ProtectionFor(name) = None
  BY <1>1 DEF Classify
<1>3. Restraints(m, p, about) = <<>>
  BY <1>1 DEF Classify
<1>4. ASSUME name \in about.pinned PROVE FALSE
  BY <1>3, <1>4 DEF Restraints
<1>5. QED
  BY <1>2, <1>4

-----------------------------------------------------------------------------
(* Standing: what a process is part of.                                     *)

\* Induction over the steps of a walk, over the predicate's set.
LEMMA FromZeroUp ==
  ASSUME NEW S, S \subseteq Nat, 0 \in S, \A n \in S : n + 1 \in S
  PROVE  S = Nat
<1> DEFINE T == Nat \ S
<1> SUFFICES ASSUME T # {} PROVE FALSE
  OBVIOUS
<1>1. PICK n \in T : \A k \in T : ~ (<<k, n>> \in OpToRel(<, Nat))
  BY NatLessThanWellFounded, WFMin
<1>2. n \in Nat /\ n # 0 /\ n \notin S
  OBVIOUS
<1>3. n - 1 \in Nat /\ n - 1 < n
  BY <1>2
<1>4. n - 1 \in S
  BY <1>1, <1>2, <1>3 DEF OpToRel
<1>5. QED
  BY <1>2, <1>4

\* The walk up is defined, step by step: what it is after n of them.
LEMMA ClimbWalks ==
  ASSUME NEW m, NEW p
  PROVE  Climb(m, p) =
           [n \in 0 .. Hops |-> IF n = 0 THEN {p} ELSE Above(m, Climb(m, p)[n - 1])]
<1> DEFINE Walk(f, k) ==
             f = [n \in 0 .. k |-> IF n = 0 THEN {p} ELSE Above(m, f[n - 1])]
           S == {k \in Nat : \E f : Walk(f, k)}
<1>1. 0 \in S
  <2>1. Walk([n \in 0 .. 0 |-> {p}], 0)
    OBVIOUS
  <2>2. QED
    BY <2>1
<1>2. ASSUME NEW k \in S PROVE k + 1 \in S
  <2>1. PICK f : Walk(f, k)
    OBVIOUS
  <2> DEFINE g == [n \in 0 .. k + 1 |-> IF n = k + 1 THEN Above(m, f[k]) ELSE f[n]]
  <2>2. k \in Nat
    OBVIOUS
  <2>3. \A n \in 0 .. k : f[n] = IF n = 0 THEN {p} ELSE Above(m, f[n - 1])
    BY <2>1
  <2>4. g = [n \in 0 .. k + 1 |-> IF n = k + 1 THEN Above(m, f[k]) ELSE f[n]]
    OBVIOUS
  <2> HIDE DEF g
  <2>5. g[k + 1] = Above(m, f[k]) /\ \A n \in 0 .. k : g[n] = f[n]
    BY <2>2, <2>4
  <2>6. ASSUME NEW n \in 0 .. k + 1
        PROVE  g[n] = IF n = 0 THEN {p} ELSE Above(m, g[n - 1])
    <3>1. CASE n = k + 1
      BY <2>2, <2>5, <3>1
    <3>2. CASE n # k + 1
      <4>1. n \in 0 .. k /\ (n # 0 => n - 1 \in 0 .. k)
        BY <2>2, <3>2
      <4>2. QED
        BY <2>5, <2>3, <4>1
    <3>3. QED
      BY <3>1, <3>2
  <2>7. Walk(g, k + 1)
    BY <2>4, <2>6
  <2>8. k + 1 \in Nat /\ \E h : Walk(h, k + 1)
    BY <2>2, <2>7
  <2>9. QED
    BY <2>8
<1>3. S = Nat
  BY <1>1, <1>2, FromZeroUp
<1>4. \E f : Walk(f, Hops)
  BY <1>3 DEF Hops
<1>5. Climb(m, p) = CHOOSE f : Walk(f, Hops)
  BY DEF Climb
<1>6. Walk(Climb(m, p), Hops)
  BY <1>4, <1>5
<1>7. QED
  BY <1>6

LEMMA ReachIsNat == Hops \in Nat /\ Reach \in 0 .. Hops
<1>1. Cardinality(Pid) \in Nat
  BY SweepAssumption, FS_CardinalityType
<1>2. Hops \in Nat
  BY DEF Hops
<1>3. QED
  BY <1>1, <1>2 DEF Reach

\* A chain of parents, each running, stays within what the walk finds: the
\* walk does not stop short of it, loses nothing on its way, and loops nowhere.
LEMMA ChainIsClimbed ==
  ASSUME NEW m, NEW n \in 0 .. Reach, NEW c \in [0 .. n -> Pid],
         \A i \in 1 .. n : /\ c[i - 1] \in Running(m)
                          /\ c[i] = m[c[i - 1]].parent
  PROVE  c[n] \in Lineage(m, c[0])
<1> DEFINE up == Climb(m, c[0])
           S == {k \in Nat : k \in 0 .. Hops => \A i \in 0 .. n : i <= k => c[i] \in up[k]}
<1>0. n \in Nat /\ n <= Hops /\ Reach \in 0 .. Hops /\ n <= Reach /\ Hops \in Nat
  BY ReachIsNat
<1>1. \A k \in 0 .. Hops : up[k] = IF k = 0 THEN {c[0]} ELSE Above(m, up[k - 1])
  <2>1. up = [k \in 0 .. Hops |-> IF k = 0 THEN {c[0]} ELSE Above(m, up[k - 1])]
    BY ClimbWalks
  <2> HIDE DEF up
  <2>2. QED
    BY <2>1
<1> HIDE DEF up
<1>2. 0 \in S
  BY <1>0, <1>1
<1>3. ASSUME NEW k \in S PROVE k + 1 \in S
  <2> SUFFICES ASSUME k + 1 \in 0 .. Hops, NEW i \in 0 .. n, i <= k + 1
               PROVE  c[i] \in up[k + 1]
    OBVIOUS
  <2>1. k \in Nat /\ k \in 0 .. Hops
    BY <1>0
  <2>2. up[k + 1] = Above(m, up[k])
    BY <1>1, <2>1
  <2>3. CASE i <= k
    BY <2>1, <2>2, <2>3 DEF Above
  <2>4. CASE i = k + 1
    <3>1. i - 1 \in 0 .. n /\ i - 1 = k /\ i \in 1 .. n
      BY <1>0, <2>1, <2>4
    <3>2. c[i - 1] \in up[k]
      BY <2>1, <3>1
    <3>3. c[i - 1] \in Running(m) /\ c[i] = m[c[i - 1]].parent
      BY <3>1
    <3>4. c[i] \in Pid /\ c[i] # None
      BY StandingAssumption
    <3>5. QED
      BY <2>2, <3>2, <3>3, <3>4 DEF Above
  <2>5. QED
    BY <2>1, <2>3, <2>4, <1>0
<1>4. S = Nat
  BY <1>2, <1>3, FromZeroUp
<1>5. Reach \in S /\ n \in 0 .. n
  BY <1>0, <1>4
<1>6. c[n] \in up[Reach]
  BY <1>0, <1>5
<1>7. QED
  BY <1>6 DEF up, Lineage

\* Whatever really started the tool is part of what it knows to be its own.
LEMMA OwnIsKnown == ASSUME TypeOK PROVE OwnLineage \subseteq Now.own
<1>1. SUFFICES ASSUME NEW n \in 0 .. Reach, NEW c \in [0 .. n -> Pid], StartedBy(n, c)
               PROVE  c[n] \in Lineage(machine, Tool)
  BY DEF OwnLineage, Now, Here
<1>2. \A i \in 1 .. n : c[i - 1] \in Pid
  BY ReachIsNat
<1>3. \A i \in 1 .. n : c[i - 1] \in Running(machine) /\ c[i] = machine[c[i - 1]].parent
  BY <1>1, <1>2 DEF StartedBy, Started, Running
<1>4. c[0] = Tool
  BY <1>1 DEF StartedBy
<1>5. QED
  BY <1>3, <1>4, ChainIsClimbed

\* Nothing is offered that the tool knows to be its own.
LEMMA CandidateIsForeign ==
  ASSUME NEW m, NEW p, NEW about, Classify(m, p, about) = Candidate
  PROVE  p \notin about.own
BY DEF Classify, Protected, Candidate

\* No life of the machine adds to what really started the tool.
LEMMA OwnShrinks ==
  ASSUME NEW gone,
         Tool # gone,
         \A p, q \in Pid : q \in Started(p)' /\ p # gone => q # gone /\ q \in Started(p)
  PROVE  OwnLineage' \subseteq OwnLineage \ {gone}
<1>1. SUFFICES ASSUME NEW n \in 0 .. Reach, NEW c \in [0 .. n -> Pid], StartedBy(n, c)'
               PROVE  c[n] # gone /\ StartedBy(n, c)
  BY DEF OwnLineage, Reach
<1> DEFINE S == {k \in Nat : k \in 0 .. n => c[k] # gone}
<1>2. n \in Nat /\ c[0] = Tool /\ \A i \in 1 .. n : c[i] \in Started(c[i - 1])'
  BY <1>1, ReachIsNat DEF StartedBy
<1>3. 0 \in S
  BY <1>2
<1>4. ASSUME NEW k \in S PROVE k + 1 \in S
  <2>1. SUFFICES ASSUME k + 1 \in 0 .. n PROVE c[k + 1] # gone
    OBVIOUS
  <2>2. k \in 0 .. n /\ k + 1 \in 1 .. n /\ (k + 1) - 1 = k
    BY <1>2, <2>1
  <2>3. c[k] # gone /\ c[k] \in Pid /\ c[k + 1] \in Pid /\ c[k + 1] \in Started(c[k])'
    BY <1>2, <2>1, <2>2
  <2>4. QED
    BY <2>3
<1>5. S = Nat
  BY <1>3, <1>4, FromZeroUp
<1>6. \A k \in 0 .. n : c[k] # gone /\ c[k] \in Pid
  BY <1>2, <1>5
<1>7. ASSUME NEW i \in 1 .. n PROVE c[i] \in Started(c[i - 1])
  <2>1. i \in 0 .. n /\ i - 1 \in 0 .. n
    BY <1>2
  <2>2. QED
    BY <1>2, <1>6, <2>1
<1>8. QED
  BY <1>2, <1>6, <1>7 DEF StartedBy

-----------------------------------------------------------------------------
(* The machine lives on: a step of it changes no verdict but by handing the *)
(* identifier that was judged to another process.                           *)

\* What runs under an identifier after a process has ended ran there before.
LEMMA EndedLeaves ==
  ASSUME TypeOK, NEW p \in Pid, Ended(p)
  PROVE  /\ machine' \in Machine
         /\ \A q \in Pid : machine'[q] # None =>
              /\ q # p /\ machine[q] # None
              /\ machine'[q].born = machine[q].born /\ machine'[q].runs = machine[q].runs
         /\ \A q \in Pid : machine[q] # None /\ q # p => machine'[q] # None
<1> DEFINE m == [machine EXCEPT ![p] = None]
           o == [q \in Pid |-> IF m[q] # None /\ m[q].parent = p
                                 THEN [m[q] EXCEPT !.parent = None] ELSE m[q]]
<1>1. machine \in [Pid -> Process \cup {None}]
  BY DEF TypeOK, Machine
<1>2. m \in [Pid -> Process \cup {None}]
  BY <1>1
<1>3. \A q \in Pid : m[q] # None => [m[q] EXCEPT !.parent = None] \in Process
  BY <1>2 DEF Process
<1>4. \A r \in Process : r # None
  BY SweepAssumption
<1>5. CASE machine' = m
  BY <1>5, <1>1, <1>2 DEF Machine
<1>6. CASE machine' = o
  <2>1. o \in [Pid -> Process \cup {None}]
    BY <1>2, <1>3
  <2>2. \A q \in Pid : o[q] # None =>
          m[q] # None /\ o[q].born = m[q].born /\ o[q].runs = m[q].runs
    BY <1>2 DEF Process
  <2>3. \A q \in Pid : m[q] # None => o[q] # None
    BY <1>2, <1>3, <1>4
  <2>4. QED
    BY <1>6, <1>1, <2>1, <2>2, <2>3 DEF Machine
<1>7. QED
  BY <1>5, <1>6 DEF Ended, Orphaned

LEMMA OldestIsNat == Oldest \in Nat
  BY SweepAssumption, FS_CardinalityType DEF Oldest

\* A life of the machine after which nothing new runs under an identifier.
LEMMA NothingNew ==
  ASSUME IInv, machine' \in Machine, machine'[Tool] # None,
         \A q \in Pid : machine'[q] # None =>
           /\ machine[q] # None
           /\ machine'[q].born = machine[q].born /\ machine'[q].runs = machine[q].runs,
         front' \in Pid \cup {None},
         UNCHANGED <<starts, pins, changed>>, UNCHANGED sweeping
  PROVE  IInv'
<1> USE DEF IInv
<1>1. TypeOK'
  BY DEF TypeOK, sweeping
<1>2. Running(machine') \subseteq Running(machine)
  BY DEF Running
<1>3. Told'
  BY <1>2 DEF Told, Oldest, Running
<1>4. Log'
  BY DEF Log, sweeping
<1>5. ASSUME stage' = "judged"
      PROVE  /\ target' \in agreed'
             /\ ~ changed' /\ target'.pid \in Running(machine') =>
                  /\ NameOf(machine', target'.pid) = target'.name
                  /\ ProtectionFor(LeafName(machine', target'.pid)) = None
                  /\ LeafName(machine', target'.pid) \notin pinned'
  <2>1. stage = "judged" /\ target' = target /\ agreed' = agreed /\ pinned' = pinned /\ changed' = changed
    BY <1>5 DEF sweeping
  <2>2. target \in agreed
    BY <2>1 DEF Judged
  <2>3. ASSUME ~ changed, target.pid \in Running(machine')
        PROVE  /\ NameOf(machine', target.pid) = target.name
               /\ ProtectionFor(LeafName(machine', target.pid)) = None
               /\ LeafName(machine', target.pid) \notin pinned
    <3>1. target.pid \in Running(machine) /\ target.pid \in Pid
      BY <1>2, <2>3 DEF Running
    <3>2. machine'[target.pid].runs = machine[target.pid].runs
      BY <2>3, <3>1 DEF Running
    <3>3. QED
      BY <2>1, <2>3, <3>1, <3>2 DEF Judged, NameOf, LeafName
  <2>4. QED
    BY <2>1, <2>2, <2>3
<1>6. QED
  BY <1>1, <1>3, <1>4, <1>5 DEF Judged

LEMMA EndsKeeps == ASSUME IInv, NEW p \in Pid, Ends(p) PROVE IInv'
<1>1. /\ machine' \in Machine
      /\ \A q \in Pid : machine'[q] # None =>
           /\ q # p /\ machine[q] # None
           /\ machine'[q].born = machine[q].born /\ machine'[q].runs = machine[q].runs
      /\ \A q \in Pid : machine[q] # None /\ q # p => machine'[q] # None
  BY EndedLeaves DEF IInv, Ends
<1>2. Tool \in Pid /\ Tool # p /\ machine[Tool] # None
  BY SweepAssumption DEF Ends, IInv, TypeOK
<1>3. front' \in Pid \cup {None}
  BY DEF Ends, IInv, TypeOK
<1>4. QED
  BY <1>1, <1>2, <1>3, NothingNew DEF Ends

LEMMA GrowsUpKeeps == ASSUME IInv, NEW p \in Pid, GrowsUp(p) PROVE IInv'
<1>1. machine \in [Pid -> Process \cup {None}] /\ machine[p] \in Process
  BY DEF GrowsUp, IInv, TypeOK, Machine, Running
<1>2. [machine[p] EXCEPT !.young = FALSE] \in Process
  BY <1>1 DEF Process
<1>3. [machine[p] EXCEPT !.young = FALSE] # None
  BY <1>2, SweepAssumption
<1>4. machine' = [machine EXCEPT ![p] = [machine[p] EXCEPT !.young = FALSE]]
  BY DEF GrowsUp
<1>5. machine' \in Machine
  BY <1>1, <1>2, <1>4 DEF Machine
<1>6. /\ [machine[p] EXCEPT !.young = FALSE].born = machine[p].born
      /\ [machine[p] EXCEPT !.young = FALSE].runs = machine[p].runs
  BY <1>1 DEF Process
<1>7. machine[p] # None
  BY DEF GrowsUp, Running
<1>8. \A q \in Pid : /\ machine'[q] # None <=> machine[q] # None
                     /\ machine'[q].born = machine[q].born
                     /\ machine'[q].runs = machine[q].runs
  BY <1>1, <1>3, <1>4, <1>6, <1>7
<1>9. machine'[Tool] # None /\ front' \in Pid \cup {None}
  BY <1>8, SweepAssumption DEF GrowsUp, IInv, TypeOK
<1>10. QED
  BY <1>5, <1>8, <1>9, NothingNew DEF GrowsUp

LEMMA StartsKeeps ==
  ASSUME IInv, NEW p \in Pid, NEW program \in Program, NEW parent \in Pid,
         Starts(p, program, parent)
  PROVE  IInv'
<1> DEFINE r == [runs |-> program, born |-> Oldest + starts, parent |-> parent, young |-> TRUE]
<1>1. machine \in [Pid -> Process \cup {None}] /\ starts \in Nat
  BY DEF IInv, TypeOK, Machine
<1>2. r \in Process
  BY <1>1, OldestIsNat DEF Process
<1>3. r # None
  BY <1>2, SweepAssumption
<1>4. machine' = [machine EXCEPT ![p] = r] /\ machine[p] = None /\ starts' = starts + 1
  BY DEF Starts, Running
<1>5. machine' \in Machine
  BY <1>1, <1>2, <1>4 DEF Machine
<1>6. machine'[Tool] # None
  BY <1>1, <1>4, SweepAssumption DEF IInv, TypeOK
<1>7. TypeOK'
  BY <1>4, <1>5, <1>6 DEF IInv, TypeOK, Starts, sweeping
<1>8. ASSUME NEW q \in Pid, NEW o \in Pid, machine'[q] # None, machine'[o] # None
      PROVE  machine'[q].born < Oldest + starts'
             /\ (machine'[q].born = machine'[o].born => q = o)
  <2>1. \A i \in Pid : i # p => machine'[i] = machine[i]
    BY <1>1, <1>4
  <2>2. machine'[p].born = Oldest + starts
    BY <1>1, <1>4
  <2>3. \A i \in Pid : i # p /\ machine'[i] # None =>
          machine[i].born < Oldest + starts /\ machine[i].born \in Nat
    BY <1>1, <2>1 DEF IInv, Told, Running, Process
  <2>4. \A i, j \in Pid : i # p /\ j # p /\ machine'[i] # None /\ machine'[j] # None
          /\ machine'[i].born = machine'[j].born => i = j
    BY <2>1 DEF IInv, Told, Running
  <2>5. QED
    BY <1>1, <1>4, <1>8, <2>1, <2>2, <2>3, <2>4, OldestIsNat
<1>9. Told'
  BY <1>8 DEF Told, Running, Oldest
<1>10. Log'
  BY DEF IInv, Log, Starts, sweeping
<1>11. ASSUME stage' = "judged"
       PROVE  /\ target' \in agreed'
              /\ ~ changed' /\ target'.pid \in Running(machine') =>
                   /\ NameOf(machine', target'.pid) = target'.name
                   /\ ProtectionFor(LeafName(machine', target'.pid)) = None
                   /\ LeafName(machine', target'.pid) \notin pinned'
  <2>1. stage = "judged" /\ target' = target /\ agreed' = agreed /\ pinned' = pinned
    BY <1>11 DEF Starts, sweeping
  <2>2. target \in agreed
    BY <2>1 DEF IInv, Judged
  <2>3. ~ changed' => ~ changed /\ target.pid # p
    BY <2>1 DEF Starts
  <2>4. target.pid # p /\ target.pid \in Running(machine') =>
          target.pid \in Running(machine) /\ machine'[target.pid] = machine[target.pid]
    BY <1>1, <1>4 DEF Running
  <2>5. QED
    BY <2>1, <2>2, <2>3, <2>4 DEF IInv, Judged, NameOf, LeafName
<1>12. QED
  BY <1>7, <1>9, <1>10, <1>11 DEF IInv, Judged

LEMMA LivesKeeps == ASSUME IInv, Lives PROVE IInv'
<1>1. ASSUME NEW p \in Pid, Ends(p) PROVE IInv'
  BY <1>1, EndsKeeps
<1>2. ASSUME NEW p \in Pid, GrowsUp(p) PROVE IInv'
  BY <1>2, GrowsUpKeeps
<1>3. ASSUME NEW p \in Pid, NEW program \in Program, NEW parent \in Pid,
             Starts(p, program, parent)
      PROVE  IInv'
  BY <1>3, StartsKeeps
<1>4. CASE ComesForward
  BY <1>4, NothingNew DEF ComesForward, IInv, TypeOK, Running
<1>5. ASSUME NEW leaf \in Pinnable, Pin(leaf) PROVE IInv'
  <2>1. TypeOK'
    BY <1>5 DEF IInv, TypeOK, Pin, sweeping
  <2>2. Told' /\ Log' /\ Judged'
    BY <1>5 DEF IInv, Told, Log, Judged, Pin, sweeping, Running, Oldest
  <2>3. QED
    BY <2>1, <2>2 DEF IInv
<1>6. QED
  BY <1>1, <1>2, <1>3, <1>4, <1>5 DEF Lives

-----------------------------------------------------------------------------
(* The sweep.                                                               *)

LEMMA ShowKeeps == ASSUME IInv, Show PROVE IInv'
<1> USE DEF IInv, Show, Goes, world
<1>1. \A p \in Running(machine) : NameOf(machine, p) \in Name
  BY DEF TypeOK, Machine, Process, Running, NameOf, Name
<1>2. Offered(machine, Here(machine, Tool, front, pins)) \subseteq Running(machine)
  BY DEF Offered
<1>3. agreed' \subseteq Target
  BY <1>1, <1>2 DEF Target, Running
<1>4. TypeOK'
  BY <1>3 DEF TypeOK, Stage, Outcome
<1>5. Told'
  BY DEF Told, Running, Oldest
<1>6. Log'
  BY DEF Log
<1>7. Judged'
  BY DEF Judged
<1>8. QED
  BY <1>4, <1>5, <1>6, <1>7

LEMMA JudgeKeeps == ASSUME IInv, NEW t \in todo, Judge(t) PROVE IInv'
<1> USE DEF IInv, Judge, world
<1>1. Verdict(t) \in Outcome
  BY DEF Verdict, Outcome
<1>2. stage' \in {"judged", "writing"}
  OBVIOUS
<1>3. TypeOK'
  <2>1. t \in Target /\ t \in agreed
    BY DEF TypeOK
  <2>2. machine' = machine /\ starts' = starts /\ front' = front /\ pins' = pins
        /\ pinned' = pinned /\ agreed' = agreed /\ asked' = asked /\ written' = written
    OBVIOUS
  <2>3. target' = t /\ todo' = todo \ {t} /\ outcome' = Verdict(t) /\ changed' = FALSE
    OBVIOUS
  <2>4. QED
    BY <1>1, <1>2, <2>1, <2>2, <2>3 DEF TypeOK, Stage
<1>4. Told'
  BY DEF Told, Running, Oldest
<1>5. Log'
  BY <1>2 DEF Log
<1>6. ASSUME stage' = "judged"
      PROVE  /\ t.pid \in Running(machine) /\ NameOf(machine, t.pid) = t.name
             /\ Classify(machine, t.pid, Now) = Candidate
  BY <1>6 DEF Verdict
<1>7. Now.pinned = pinned
  BY DEF Now, Here
<1>8. Judged'
  <2>1. ASSUME stage' = "judged"
        PROVE  /\ ProtectionFor(LeafName(machine, t.pid)) = None
               /\ LeafName(machine, t.pid) \notin pinned
    BY <1>6, <1>7, <2>1, CandidateIsFree
  <2>2. t \in agreed /\ target' = t /\ machine' = machine /\ pinned' = pinned /\ agreed' = agreed
    BY DEF TypeOK
  <2>3. QED
    BY <1>6, <2>1, <2>2 DEF Judged, Running, NameOf, LeafName
<1>9. QED
  BY <1>3, <1>4, <1>5, <1>8

LEMMA AskKeeps == ASSUME IInv, Ask PROVE IInv'
<1> USE DEF IInv, Ask, Goes, world
<1>1. machine[target.pid].born \in Nat
  BY DEF TypeOK, Machine, Process, Running
<1>2. TypeOK'
  BY <1>1 DEF TypeOK, Stage
<1>3. Told'
  BY DEF Told, Running, Oldest
<1>4. asked' \ written' \subseteq {machine[target.pid].born}
  BY DEF Log
<1>5. Log'
  BY <1>1, <1>4 DEF Log
<1>6. Judged'
  BY DEF Judged
<1>7. QED
  BY <1>2, <1>3, <1>5, <1>6

LEMMA WriteDownKeeps == ASSUME IInv, WriteDown PROVE IInv'
<1> USE DEF IInv, WriteDown, world
<1>1. TypeOK'
  BY DEF TypeOK, Stage
<1>2. Told'
  BY DEF Told, Running, Oldest
<1>3. Log'
  BY DEF Log
<1>4. Judged'
  BY DEF Judged
<1>5. QED
  BY <1>1, <1>2, <1>3, <1>4

\* The steps that ask nothing, judge nothing and write nothing.
LEMMA OthersKeep ==
  ASSUME IInv,
         Agree \/ Decline \/ LookFails \/ FindsNobody \/ Refused \/ Watch \/ Report
  PROVE  IInv'
<1> USE DEF IInv, Agree, Decline, LookFails, FindsNobody, Refused, Watch, Report, Goes, world
<1>1. TypeOK'
  BY DEF TypeOK, Stage, Outcome
<1>2. Told'
  BY DEF Told, Running, Oldest
<1>3. Log'
  BY DEF Log
<1>4. Judged'
  BY DEF Judged
<1>5. QED
  BY <1>1, <1>2, <1>3, <1>4

LEMMA SweepsKeeps == ASSUME IInv, Sweeps PROVE IInv'
  BY ShowKeeps, JudgeKeeps, AskKeeps, WriteDownKeeps, OthersKeep DEF Sweeps

LEMMA InitHolds == Init => IInv
<1> SUFFICES ASSUME Init PROVE IInv
  OBVIOUS
<1> USE SweepAssumption DEF Init
<1>1. TypeOK
  BY DEF TypeOK, Stage, Outcome, Running
<1>2. Told
  <2>1. \A p, q \in Running(Before) :
          Before[p].born < Cardinality(Pid) /\ (Before[p].born = Before[q].born => p = q)
    OBVIOUS
  <2>2. QED
    BY <2>1, OldestIsNat DEF Told, Oldest, Running
<1>3. Log
  BY DEF Log
<1>4. Judged
  BY DEF Judged
<1>5. QED
  BY <1>1, <1>2, <1>3, <1>4 DEF IInv

-----------------------------------------------------------------------------
(* What follows of it.                                                      *)

\* The strengthening is inductive: the core of every proof below
\* (crates/ork-fix/src/processes.rs, stop_these, and the machine around it).
THEOREM Inductive == Spec => []IInv
<1>1. IInv /\ [Next]_vars => IInv'
  <2> SUFFICES ASSUME IInv, [Next]_vars PROVE IInv'
    OBVIOUS
  <2>1. CASE UNCHANGED vars
    <3>1. TypeOK'
      BY <2>1 DEF IInv, TypeOK, vars
    <3>2. Told' /\ Log' /\ Judged'
      BY <2>1 DEF IInv, Told, Log, Judged, vars, Running, Oldest, NameOf, LeafName
    <3>3. QED
      BY <3>1, <3>2 DEF IInv
  <2>2. CASE Next
    BY <2>2, SweepsKeeps, LivesKeeps DEF Next
  <2>3. QED
    BY <2>1, <2>2
<1>2. QED
  BY InitHolds, <1>1, PTL DEF Spec

\* Every variable keeps its type, for any machine and any lists of names
\* (crates/ork-fix/src/processes.rs:43-48, 148-190).
THEOREM TypeCorrect == Spec => []TypeOK
<1>1. IInv => TypeOK
  BY DEF IInv
<1>2. QED
  BY Inductive, <1>1, PTL

\* At most one process was ever asked to end without the audit log saying so,
\* and nothing more is asked in that sweep (processes.rs:160-187).
THEOREM StopsWritten == Spec => []StopsAreWrittenDown
<1>1. IInv => StopsAreWrittenDown
  <2> SUFFICES ASSUME IInv PROVE StopsAreWrittenDown
    OBVIOUS
  <2>1. PICK b \in Nat : asked \ written \subseteq {b}
    BY DEF IInv, Log
  <2>2. IsFiniteSet({b}) /\ Cardinality({b}) = 1
    BY FS_Singleton
  <2>3. Cardinality(asked \ written) <= 1
    BY <2>1, <2>2, FS_Subset
  <2>4. asked \ written # {} => stage \in {"asked", "writing", "idle"}
    BY DEF IInv, TypeOK, Log, Stage
  <2>5. QED
    BY <2>3, <2>4 DEF StopsAreWrittenDown
<1>2. QED
  BY Inductive, <1>1, PTL

\* What is asked to end in a step is what was judged.
LEMMA OnlyTheTarget ==
  ASSUME IInv, Next, NEW p \in Pid, Asked(p)
  PROVE  stage = "judged" /\ target.pid \in Running(machine) /\ p = target.pid
<1>1. asked' \ asked # {}
  BY DEF Asked
<1>2. Ask
  <2>1. ~ Lives
    BY <1>1 DEF Lives, Ends, GrowsUp, Starts, ComesForward, Pin, sweeping
  <2>2. QED
    BY <1>1, <2>1 DEF Next, Sweeps, Show, Agree, Decline, Judge, LookFails, FindsNobody,
                      Refused, Watch, WriteDown, Report
<1>3. stage = "judged" /\ target.pid \in Running(machine)
      /\ asked' = asked \cup {machine[target.pid].born}
  BY <1>2 DEF Ask, Goes
<1>4. machine[p].born = machine[target.pid].born /\ p \in Running(machine)
  BY <1>3 DEF Asked, Running
<1>5. QED
  BY <1>3, <1>4 DEF IInv, Told

\* Only a target the person agreed to is asked to end, never a protected or a
\* pinned one, unless its identifier changed hands since it was judged
\* (processes.rs:148-260, stop.rs:61-80).
THEOREM AgreedOnly == Spec => OnlyWhatWasAgreed
<1> DEFINE A == \A p \in Pid : Asked(p) /\ ~ changed =>
                  /\ [pid |-> p, name |-> NameOf(machine, p)] \in agreed
                  /\ ProtectionFor(LeafName(machine, p)) = None
                  /\ LeafName(machine, p) \notin pinned
<1>1. IInv /\ [Next]_vars => [A]_vars
  <2> SUFFICES ASSUME IInv, Next, NEW p \in Pid, Asked(p), ~ changed
               PROVE  /\ [pid |-> p, name |-> NameOf(machine, p)] \in agreed
                      /\ ProtectionFor(LeafName(machine, p)) = None
                      /\ LeafName(machine, p) \notin pinned
    OBVIOUS
  <2>1. stage = "judged" /\ target.pid \in Running(machine) /\ p = target.pid
    BY OnlyTheTarget
  <2>2. /\ target \in agreed /\ NameOf(machine, p) = target.name
        /\ ProtectionFor(LeafName(machine, p)) = None
        /\ LeafName(machine, p) \notin pinned
    BY <2>1 DEF IInv, Judged
  <2>3. [pid |-> p, name |-> NameOf(machine, p)] = target
    BY <2>1, <2>2 DEF IInv, TypeOK, Target
  <2>4. QED
    BY <2>2, <2>3
<1>2. QED
  BY Inductive, <1>1, PTL DEF Spec, OnlyWhatWasAgreed

-----------------------------------------------------------------------------
(* Neither the tool nor what started it.                                    *)

\* What was judged is none of the tool's own, and never becomes one: an
\* identifier changes hands to a process younger than everything it started.
Spared == stage = "judged" => target.pid \notin OwnLineage

LEMMA LivesSpares == ASSUME IInv, Lives, Spared PROVE Spared'
<1>0. /\ machine \in [Pid -> Process \cup {None}] /\ starts \in Nat
      /\ Tool \in Pid /\ machine[Tool] # None /\ None \notin Pid
  BY SweepAssumption, StandingAssumption DEF IInv, TypeOK, Machine
<1>1. ASSUME OwnLineage' \subseteq OwnLineage,
             stage' = "judged" => stage = "judged" /\ target' = target
      PROVE  Spared'
  BY <1>1 DEF Spared
<1>2. ASSUME NEW p \in Pid, Ends(p) PROVE Spared'
  <2>1. \A q \in Pid : machine'[q] # None =>
          /\ q # p /\ machine[q] # None /\ machine'[q].born = machine[q].born
    BY <1>2, EndedLeaves DEF IInv, Ends
  <2>2. \A q \in Pid : machine'[q] # None =>
          machine'[q].parent = None \/ machine'[q].parent = machine[q].parent
    <3> DEFINE m == [machine EXCEPT ![p] = None]
    <3>1. m \in [Pid -> Process \cup {None}] /\ \A q \in Pid : m[q] # None => m[q] = machine[q]
      BY <1>0
    <3>2. \A q \in Pid : m[q] # None =>
            LET x == [m[q] EXCEPT !.parent = None] IN x.parent = None
      BY <3>1, SweepAssumption DEF Process
    <3>3. QED
      BY <1>2, <3>1, <3>2 DEF Ends, Ended, Orphaned
  <2>3. \A q, o \in Pid : o \in Started(q)' => o \in Started(q)
    BY <1>0, <2>1, <2>2 DEF Started
  <2>4. QED
    BY <1>0, <1>1, <1>2, <2>1, <2>3, OwnShrinks DEF Ends, sweeping, Started
<1>3. ASSUME NEW p \in Pid, GrowsUp(p) PROVE Spared'
  <2>1. \A q \in Pid : /\ machine'[q] # None => machine[q] # None
                       /\ machine'[q].born = machine[q].born
                       /\ machine'[q].parent = machine[q].parent
    <3>1. machine[p] \in Process
      BY <1>0, <1>3 DEF GrowsUp, Running
    <3>2. /\ [machine[p] EXCEPT !.young = FALSE].born = machine[p].born
          /\ [machine[p] EXCEPT !.young = FALSE].parent = machine[p].parent
      BY <3>1 DEF Process
    <3>3. machine' = [machine EXCEPT ![p] = [machine[p] EXCEPT !.young = FALSE]]
          /\ machine[p] # None
      BY <1>3 DEF GrowsUp, Running
    <3>4. QED
      BY <1>0, <3>2, <3>3
  <2>2. \A q, o \in Pid : o \in Started(q)' => o \in Started(q) /\ o # None
    BY <1>0, <2>1 DEF Started
  <2>3. OwnLineage' \subseteq OwnLineage
    BY <1>0, <2>2, OwnShrinks
  <2>4. QED
    BY <1>1, <1>3, <2>3 DEF GrowsUp, sweeping
<1>4. ASSUME NEW p \in Pid, NEW program \in Program, NEW parent \in Pid,
             Starts(p, program, parent)
      PROVE  Spared'
  <2> DEFINE r == [runs |-> program, born |-> Oldest + starts, parent |-> parent, young |-> TRUE]
  <2>1. machine' = [machine EXCEPT ![p] = r] /\ machine[p] = None
    BY <1>4 DEF Starts, Running
  <2>2. /\ machine'[p].born = Oldest + starts
        /\ \A q \in Pid : q # p => machine'[q] = machine[q]
    BY <1>0, <2>1
  <2>3. \A q \in Pid : q # p /\ machine[q] # None =>
          machine[q].born \in Nat /\ machine[q].born < Oldest + starts
    BY <1>0 DEF IInv, Told, Running, Process
  <2>4. Oldest + starts \in Nat
    BY <1>0, OldestIsNat
  <2>5. \A q, o \in Pid : o \in Started(q)' /\ q # p => o # p /\ o \in Started(q)
    <3> SUFFICES ASSUME NEW q \in Pid, NEW o \in Pid, o \in Started(q)', q # p
                 PROVE  o # p /\ o \in Started(q)
      OBVIOUS
    <3>1. /\ machine'[o] # None /\ machine[q] # None /\ o = machine[q].parent
          /\ machine'[o].born < machine[q].born
      BY <2>2 DEF Started
    <3>2. o # p
      BY <2>2, <2>3, <2>4, <3>1
    <3>3. QED
      BY <2>2, <3>1, <3>2 DEF Started
  <2>6. OwnLineage' \subseteq OwnLineage
    BY <1>0, <2>1, <2>5, OwnShrinks
  <2>7. QED
    BY <1>1, <1>4, <2>6 DEF Starts, sweeping
<1>5. CASE ComesForward \/ \E leaf \in Pinnable : Pin(leaf)
  <2>1. machine' = machine /\ stage' = stage /\ target' = target
    BY <1>5 DEF ComesForward, Pin, sweeping
  <2>2. OwnLineage' = OwnLineage
    BY <2>1 DEF OwnLineage, StartedBy, Started, Reach
  <2>3. QED
    BY <2>1, <2>2 DEF Spared
<1>6. QED
  BY <1>2, <1>3, <1>4, <1>5 DEF Lives

LEMMA SweepsSpares == ASSUME IInv, Sweeps, Spared PROVE Spared'
<1>1. machine' = machine
  BY DEF Sweeps, Show, Agree, Decline, Judge, LookFails, FindsNobody, Refused, Ask,
         Watch, WriteDown, Report, world
<1>2. OwnLineage' = OwnLineage
  BY <1>1 DEF OwnLineage, StartedBy, Started, Reach
<1>3. ASSUME NEW t \in todo, Judge(t), stage' = "judged" PROVE t.pid \notin OwnLineage
  <2>1. Classify(machine, t.pid, Now) = Candidate
    BY <1>3 DEF Judge, Verdict
  <2>2. QED
    BY <2>1, CandidateIsForeign, OwnIsKnown DEF IInv
<1>4. ASSUME NEW t \in todo, Judge(t) PROVE Spared'
  BY <1>2, <1>3, <1>4 DEF Spared, Judge
<1>5. ASSUME ~ (\E t \in todo : Judge(t)) PROVE stage' # "judged"
  BY <1>5 DEF Sweeps, Show, Agree, Decline, LookFails, FindsNobody, Refused, Ask,
              Watch, WriteDown, Report, Goes
<1>6. QED
  BY <1>4, <1>5 DEF Spared

\* Neither the tool nor anything that really started it, as far up as it looks,
\* is ever asked to end: however deep the lineage, in whatever order programs
\* end, start and take over identifiers between the look and the asking
\* (standing.rs:276-320, stop.rs:61-80).
THEOREM OursSpared == Spec => OursIsSpared
<1>1. Init => Spared
  BY DEF Init, Spared
<1>2. IInv /\ Spared /\ [Next]_vars => Spared'
  <2>1. ASSUME UNCHANGED vars, Spared PROVE Spared'
    BY <2>1 DEF vars, Spared, OwnLineage, StartedBy, Started, Reach
  <2>2. QED
    BY <2>1, LivesSpares, SweepsSpares DEF Next
<1>3. IInv /\ Spared /\ [Next]_vars => [\A p \in Pid : Asked(p) => p \notin OwnLineage]_vars
  <2> SUFFICES ASSUME IInv, Spared, Next, NEW p \in Pid, Asked(p) PROVE p \notin OwnLineage
    OBVIOUS
  <2>1. stage = "judged" /\ p = target.pid
    BY OnlyTheTarget
  <2>2. QED
    BY <2>1 DEF Spared
<1>4. QED
  BY Inductive, <1>1, <1>2, <1>3, PTL DEF Spec, OursIsSpared
=============================================================================
