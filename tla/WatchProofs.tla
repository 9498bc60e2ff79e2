---------------------------- MODULE WatchProofs -----------------------------
(***************************************************************************)
(* For any number of watchers, tasks, problems and checks, and with every  *)
(* fault: the watcher's state is well formed, no watcher of the window is  *)
(* out of reach of the stop button, and a problem is marked gone only by   *)
(* the check that finds it.                                                *)
(***************************************************************************)
EXTENDS Watch, TLAPS

-----------------------------------------------------------------------------
(* What compare() makes of a baseline.                                      *)

LEMMA Levels ==
  /\ Absent \notin Severity
  /\ Severity \subseteq Level /\ Absent \in Level
  /\ \A s \in Severity : s \in Int
  /\ \A n \in 0 .. FlapLimit : Again(n) \in 1 .. FlapLimit
  /\ 1 \in 1 .. FlapLimit
BY BaselineAssumption DEF Absent, Severity, Level, Again

LEMMA FreshBaseline == Fresh \in Baseline
BY DEF Fresh, Baseline, Seen

LEMMA QuietLook == Quiet \in Look
BY Levels DEF Quiet, Look, Nothing

LEMMA SeenParts ==
  ASSUME NEW s \in Seen
  PROVE  /\ s.present \in BOOLEAN
         /\ s.severity \in Level
         /\ s.appearances \in 0 .. FlapLimit
         /\ Again(s.appearances) \in 1 .. FlapLimit
         /\ s.present => s.severity \in Severity /\ s.appearances \in 1 .. FlapLimit
         /\ s.present => [s EXCEPT !.present = FALSE] \in Seen
<1>1. CASE s = Unseen
  <2>1. s.present = FALSE /\ s.severity = Absent /\ s.appearances = 0
    BY <1>1 DEF Unseen
  <2>2. 0 \in 0 .. FlapLimit
    BY BaselineAssumption
  <2> QED
    BY <2>1, <2>2, Levels
<1>2. CASE s \in [present : BOOLEAN, severity : Severity, appearances : 1 .. FlapLimit]
  <2>1. s.appearances \in 0 .. FlapLimit
    BY <1>2, BaselineAssumption
  <2> QED
    BY <1>2, <2>1, Levels DEF Seen
<1> QED
  BY <1>1, <1>2 DEF Seen

LEMMA FoundSeen ==
  ASSUME NEW s \in Seen, NEW level \in Severity
  PROVE  Found(s, level) \in Seen
BY SeenParts DEF Found, Seen

LEMMA CurrentParts ==
  ASSUME NEW r \in Report, NEW p \in Current(r)
  PROVE  p \in Problem /\ r.found[p] \in Severity
BY Levels DEF Current, Report, Level, Absent

LEMMA BaselineParts ==
  ASSUME NEW b \in Baseline, NEW p \in Problem
  PROVE  b.seen[p] \in Seen /\ Was(b, p) \in Level
<1>1. b.seen[p] \in Seen
  BY DEF Baseline
<1> QED
  BY <1>1, SeenParts, Levels DEF Was

LEMMA AfterSeen ==
  ASSUME NEW b \in Baseline, NEW r \in Report, NEW p \in Problem
  PROVE  After(b, r)[p] \in Seen
BY BaselineParts, CurrentParts, FoundSeen, SeenParts DEF After, Gone, Present, Report

LEMMA NextBaselineTyped ==
  ASSUME NEW b \in Baseline, NEW r \in Report
  PROVE  NextBaseline(b, r) \in Baseline
<1>1. After(b, r) \in [Problem -> Seen]
  BY AfterSeen DEF After
<1>2. [p \in Problem |-> IF p \in Current(r) THEN Found(Unseen, r.found[p]) ELSE b.seen[p]]
        \in [Problem -> Seen]
  BY CurrentParts, BaselineParts, FoundSeen DEF Seen
<1>3. NewlyMuted(b, r) \subseteq Problem
  BY DEF NewlyMuted, Returns, Current
<1> QED
  BY <1>1, <1>2, <1>3 DEF NextBaseline, FirstBaseline, Baseline

LEMMA ComparedTyped ==
  ASSUME NEW b \in Baseline, NEW r \in Report
  PROVE  Compared(b, r) \in Look
<1>1. ASSUME NEW p \in News(b, r)
      PROVE  [change |-> KindOf(b, r, p), problem |-> p,
              was |-> Was(b, p), now |-> Now(b, r, p)] \in Change
  <2>1. p \in Problem /\ p \in Gone(b, r) \cup Current(r)
    BY DEF News, Gone, Current, Report
  <2>2. Was(b, p) \in Level /\ Now(b, r, p) \in Level
    BY <2>1, BaselineParts, CurrentParts, Levels DEF Now
  <2>3. KindOf(b, r, p) \in ChangeKind
    BY DEF KindOf, ChangeKind
  <2> QED
    BY <2>1, <2>2, <2>3 DEF Change
<1>2. Changes(b, r) \subseteq Change
  BY <1>1 DEF Changes
<1>3. ~ b.established => FirstBaseline(b, r) \in Baseline
  BY NextBaselineTyped DEF NextBaseline
<1>4. ~ b.established =>
        [p \in Problem |-> Was(FirstBaseline(b, r), p)] \in [Problem -> Level]
  BY <1>3, BaselineParts
<1> QED
  BY <1>2, <1>4, QuietLook DEF Compared, Look, Quiet

\* A problem marked gone was looked for and not found.
LEMMA OnlyJudgedGone ==
  ASSUME NEW b \in Baseline, NEW r \in Report, NEW p \in Problem,
         Present(b, p), ~ Present(NextBaseline(b, r), p)
  PROVE  p \in Gone(b, r)
<1>1. CASE b.established
  <2>1. NextBaseline(b, r).seen[p] = After(b, r)[p]
    BY <1>1 DEF NextBaseline, Baseline
  <2> QED
    BY <2>1 DEF After, Found, Present
<1>2. CASE ~ b.established
  BY <1>2 DEF NextBaseline, FirstBaseline, Baseline, Present, Found
<1> QED
  BY <1>1, <1>2

-----------------------------------------------------------------------------
(* Types, and who holds the slot.                                           *)

LEMMA ReportedTyped ==
  ASSUME TypeOK, NEW ran \in SUBSET Probe, NEW missed
  PROVE  Reported(ran, missed) \in Report
BY Levels DEF Reported, Report, TypeOK

LEMMA HeardTyped ==
  ASSUME TypeOK, NEW C \in SUBSET Change
  PROVE  Heard(C) \in [Problem -> Level \cup {HeldQuiet, NothingYet}]
<1>1. \A c \in C : c.now \in Level
  BY DEF Change
<1>2. ASSUME NEW p \in Problem, \E c \in C : c.problem = p
      PROVE  (CHOOSE c \in C : c.problem = p) \in C
  BY <1>2
<1> QED
  BY <1>1, <1>2 DEF Heard, HeardOf, TypeOK

\* A looker that has not loaded anything remembers nothing.
NothingLoaded == \A l \in Looker : pc[l] \in {"off", "loading"} => memory[l] = Fresh

InSlot == TypeOK /\ NoStrayWatcher /\ NothingLoaded

LEMMA InitInSlot == Init => InSlot
<1> SUFFICES ASSUME Init PROVE InSlot
  OBVIOUS
<1>1. TypeOK
  BY FreshBaseline, QuietLook DEF Init, TypeOK, PC
<1>2. NoStrayWatcher
  BY DEF Init, NoStrayWatcher, Active, Looker
<1>3. NothingLoaded
  BY DEF Init, NothingLoaded
<1> QED
  BY <1>1, <1>2, <1>3 DEF InSlot

LEMMA StepInSlot ==
  ASSUME InSlot, NEW l \in Looker, Steps(l) \/ Deliver(l)
  PROVE  InSlot'
<1> USE WatchAssumption, FreshBaseline, QuietLook
<1>1. CASE Load(l)
  BY <1>1
  DEF Load, Moves, slot, reader, InSlot, TypeOK, NoStrayWatcher,
      NothingLoaded, PC, Active, Looker
<1>2. CASE BeginLook(l) \/ Wake(l) \/ LookStopped(l)
  BY <1>2
  DEF BeginLook, Wake, LookStopped, Moves, slot, reader, InSlot, TypeOK,
      NoStrayWatcher, NothingLoaded, PC, Active, Looker
<1>3. CASE Ends(l, "top") \/ Ends(l, "asleep")
  BY <1>3
  DEF Ends, Moves, slot, reader, InSlot, TypeOK, NoStrayWatcher,
      NothingLoaded, PC, Active, Looker
<1>4. ASSUME NEW ran \in SUBSET Probe, NEW missed \in SUBSET Unsure,
             LookDone(l, ran, missed)
      PROVE  InSlot'
  <2>1. Reported(ran, missed) \in Report /\ memory[l] \in Baseline
    BY ReportedTyped DEF InSlot, TypeOK
  <2>2. memory' \in [Looker -> Baseline] /\ news' \in [Looker -> Look]
    BY <1>4, <2>1, NextBaselineTyped, ComparedTyped
    DEF LookDone, Compare, InSlot, TypeOK
  <2>3. TypeOK'
    BY <1>4, <2>2 DEF LookDone, Moves, slot, reader, InSlot, TypeOK, PC
  <2>4. NoStrayWatcher'
    BY <1>4 DEF LookDone, Moves, slot, InSlot, TypeOK, NoStrayWatcher, Active
  <2>5. NothingLoaded'
    BY <1>4 DEF LookDone, Compare, Moves, InSlot, TypeOK, NothingLoaded
  <2> QED
    BY <2>3, <2>4, <2>5 DEF InSlot
<1>5. CASE Trouble(l)
  BY <1>5
  DEF Trouble, LookOver, Moves, slot, reader, InSlot, TypeOK, NoStrayWatcher,
      NothingLoaded, PC, Active, Looker
<1>6. CASE Save(l)
  BY <1>6
  DEF Save, LookOver, Moves, slot, reader, InSlot, TypeOK, NoStrayWatcher,
      NothingLoaded, PC, Active, Looker
<1>7. CASE SaveFails(l)
  BY <1>7
  DEF SaveFails, LookOver, Moves, slot, reader, InSlot, TypeOK,
      NoStrayWatcher, NothingLoaded, PC, Active, Looker
<1>8. CASE Deliver(l)
  <2>1. told' \in [Problem -> Level \cup {HeldQuiet, NothingYet}]
    BY <1>8, HeardTyped DEF Deliver, InSlot, TypeOK, Look
  <2> QED
    BY <1>8, <2>1
    DEF Deliver, slot, InSlot, TypeOK, NoStrayWatcher, NothingLoaded, Active
<1> QED
  BY <1>1, <1>2, <1>3, <1>4, <1>5, <1>6, <1>7, <1>8 DEF Steps

LEMMA DiesTyped ==
  ASSUME TypeOK, NEW L \in SUBSET Looker, Dies(L)
  PROVE  /\ UNCHANGED <<check, truth, file, told>>
         /\ memory' \in [Looker -> Baseline]
         /\ pc' \in [Looker -> PC]
         /\ \A l \in Looker : pc'[l] = IF l \in L THEN "off" ELSE pc[l]
         /\ \A l \in Looker : memory'[l] = IF l \in L THEN Fresh ELSE memory[l]
         /\ news' \in [Looker -> Look]
         /\ tidy' \in BOOLEAN
BY FreshBaseline, QuietLook DEF Dies, TypeOK, PC

LEMMA NextInSlot == InSlot /\ [Next]_vars => InSlot'
<1> SUFFICES ASSUME InSlot, [Next]_vars
             PROVE  InSlot'
  OBVIOUS
<1> USE WatchAssumption
<1>1. ASSUME NEW l \in Looker, Steps(l) \/ Deliver(l)
      PROVE  InSlot'
  BY <1>1, StepInSlot
<1>2. ASSUME NEW l \in Window, WatchStart(l)
      PROVE  InSlot'
  BY <1>2
  DEF WatchStart, Begin, Moves, InSlot, TypeOK, NoStrayWatcher, NothingLoaded,
      PC, Active, Looker
<1>3. ASSUME NEW l \in Once, LookOnce(l)
      PROVE  InSlot'
  BY <1>3
  DEF LookOnce, Begin, Moves, slot, InSlot, TypeOK, NoStrayWatcher,
      NothingLoaded, PC, Active, Looker
<1>4. ASSUME NEW l \in Once, KillTask(l)
      PROVE  InSlot'
  BY <1>4, DiesTyped
  DEF KillTask, slot, InSlot, TypeOK, NoStrayWatcher, NothingLoaded, Active,
      Looker
<1>5. CASE WatchStop
  BY <1>5
  DEF WatchStop, reader, InSlot, TypeOK, NoStrayWatcher, NothingLoaded,
      Active
<1>6. CASE Forget
  BY <1>6
  DEF Forget, slot, InSlot, TypeOK, NoStrayWatcher, NothingLoaded, Active
<1>7. CASE QuitApp
  BY <1>7, DiesTyped
  DEF QuitApp, InSlot, TypeOK, NoStrayWatcher, NothingLoaded, Active, Looker
<1>8. ASSUME NEW p \in Problem, NEW level \in Level, Drift(p, level)
      PROVE  InSlot'
  BY <1>8
  DEF Drift, slot, reader, InSlot, TypeOK, NoStrayWatcher, NothingLoaded,
      Active
<1>9. CASE UNCHANGED vars
  BY <1>9 DEF vars, InSlot, TypeOK, NoStrayWatcher, NothingLoaded, Active
<1> QED
  BY <1>1, <1>2, <1>3, <1>4, <1>5, <1>6, <1>7, <1>8, <1>9 DEF Next

LEMMA AlwaysInSlot == Spec => []InSlot
BY InitInSlot, NextInSlot, PTL DEF Spec

\* The state of the watcher is well formed: what it remembers, what it is
\* about to say and where it is.
THEOREM TypeCorrect == Spec => []TypeOK
<1>1. InSlot => TypeOK
  BY DEF InSlot
<1> QED
  BY <1>1, AlwaysInSlot, PTL

\* However often watchers are stopped and started before the last one has
\* ended, one that goes on looking is in the slot or has been told to stop.
THEOREM StopReachesAll == Spec => []NoStrayWatcher
<1>1. InSlot => NoStrayWatcher
  BY DEF InSlot
<1> QED
  BY <1>1, AlwaysInSlot, PTL

-----------------------------------------------------------------------------
(* Gone means gone.                                                         *)

\* The probe that finds p is the one its finding names, and unless it may be
\* unsure there is no p.
ToldByItsCheck(p) ==
  /\ check[p].names = check[p].by
  /\ check[p].sure => truth[p] = Absent

LEMMA LookJudges ==
  ASSUME TypeOK, NEW l \in Looker, NEW ran \in SUBSET Probe, NEW missed \in SUBSET Unsure,
             LookDone(l, ran, missed),
         NEW k \in Looker, NEW p \in Problem,
         Present(memory[k], p), ~ Present(memory'[k], p)
  PROVE  ToldByItsCheck(p)
<1>1. k = l /\ memory'[k] = NextBaseline(memory[k], Reported(ran, missed))
  BY DEF LookDone, Compare, TypeOK
<1>2. Reported(ran, missed) \in Report /\ memory[k] \in Baseline
  BY ReportedTyped DEF TypeOK
<1>3. p \in Gone(memory[k], Reported(ran, missed))
  BY <1>1, <1>2, OnlyJudgedGone
<1>4. check[p].names \in ran /\ check[p] \in Check
  BY <1>3 DEF Gone, Reported, TypeOK
<1>5. check[p].names = check[p].by
  BY <1>4, WatchAssumption
<1>6. p \in missed \/ truth[p] = Absent
  BY <1>3, <1>4, <1>5 DEF Gone, Current, Reported
<1> QED
  BY <1>5, <1>6 DEF Unsure, ToldByItsCheck

LEMMA StepJudges ==
  ASSUME InSlot, [Next]_vars, NEW k \in Looker, NEW p \in Problem,
         Active(k), Active(k)', Present(memory[k], p), ~ Present(memory'[k], p)
  PROVE  ToldByItsCheck(p)
<1> USE WatchAssumption DEF InSlot
<1>0. memory[k] # Fresh /\ memory'[k] # memory[k]
  BY DEF Fresh, Unseen, Present
<1>1. ASSUME NEW l \in Looker, NEW ran \in SUBSET Probe, NEW missed \in SUBSET Unsure,
             LookDone(l, ran, missed)
      PROVE  ToldByItsCheck(p)
  BY <1>1, LookJudges
<1>2. ASSUME NEW l \in Looker, Load(l)
      PROVE  FALSE
  BY <1>0, <1>2 DEF Load, Moves, NothingLoaded, TypeOK
<1>3. ASSUME NEW l \in Looker,
             Ends(l, "top") \/ Ends(l, "asleep") \/ Trouble(l) \/ Save(l) \/ SaveFails(l)
      PROVE  FALSE
  BY <1>0, <1>3
  DEF Ends, Trouble, Save, SaveFails, LookOver, Moves, Active, TypeOK
<1>4. ASSUME NEW L \in SUBSET Looker, Dies(L)
      PROVE  FALSE
  BY <1>0, <1>4, DiesTyped DEF Active
<1>5. ASSUME NEW l \in Looker,
             BeginLook(l) \/ LookStopped(l) \/ Wake(l) \/ Deliver(l)
      PROVE  FALSE
  BY <1>0, <1>5 DEF BeginLook, LookStopped, Wake, Deliver
<1>6. ASSUME NEW l \in Looker, WatchStart(l) \/ LookOnce(l)
      PROVE  FALSE
  BY <1>0, <1>6 DEF WatchStart, LookOnce
<1>7. CASE WatchStop \/ Forget
             \/ \E q \in Problem, level \in Level : Drift(q, level)
  BY <1>0, <1>7 DEF WatchStop, Forget, Drift
<1>8. CASE UNCHANGED vars
  BY <1>0, <1>8 DEF vars
<1> QED
  BY <1>1, <1>2, <1>3, <1>4, <1>5, <1>6, <1>7, <1>8
  DEF Next, Steps, QuitApp, KillTask, Looker

\* No look of any watcher, whatever ran and whoever stopped it, marks a problem
\* gone unless its own check ran to the end without finding it; and where that
\* check can always tell, the problem is no longer there.
THEOREM ClearedByItsCheck == Spec => GoneMeansGone
<1>1. InSlot /\ [Next]_vars =>
        [\A l \in Looker, p \in Problem :
           Active(l) /\ Active(l)' /\ Present(memory[l], p) /\ ~ Present(memory'[l], p)
             => ToldByItsCheck(p)]_vars
  BY StepJudges
<1> QED
  BY <1>1, AlwaysInSlot, PTL DEF Spec, GoneMeansGone, ToldByItsCheck

-----------------------------------------------------------------------------
(* One story.  As long as lookers come one after the other, the reader has  *)
(* heard what the one at work remembers, or will have once what it is about *)
(* to say arrives; and the same of the file, which the next one loads.      *)

\* Hearing n brings the reader to what b would tell, one lawful change at a time.
Leads(n, b) ==
  n # Quiet \/ b.established =>
    /\ n.first => n.changes = {} /\ n.recorded = View(b)
    /\ ~ n.first =>
         /\ \A c \in n.changes : Lawful(c) /\ View(b)[c.problem] = HeardOf(c)
         /\ \A c, d \in n.changes : c.problem = d.problem => c = d
         /\ \A p \in Problem :
              (\A c \in n.changes : c.problem # p) => told[p] = View(b)[p]

\* Nothing is held quiet before the starting point is recorded.
Sound(b) == b.muted # {} => b.established

Loaded(l) == pc[l] \in {"top", "looking", "saving", "asleep"}
Unheard(l) == news[l] # Quiet /\ pc[l] # "saving"

Alone == \A l, k \in Looker : Busy(l) /\ Busy(k) => l = k

MemoryTold == \A l \in Looker : Loaded(l) => Leads(news[l], memory[l])

FileTold ==
  /\ \A l \in Looker : Unheard(l) => file # None /\ Leads(news[l], file)
  /\ file # None /\ (\A l \in Looker : ~ Unheard(l)) => Leads(Quiet, file)

Orderly ==
  /\ \A l \in Looker : Sound(memory[l])
  /\ file # None => Sound(file)
  /\ \A l \in Looker : pc[l] \in {"loading", "looking"} => news[l] = Quiet

Story == tidy => Alone /\ MemoryTold /\ FileTold

\* What a look makes of one problem.
LEMMA CompareOne ==
  ASSUME TypeOK, NEW b \in Baseline, NEW r \in Report, b.established,
         NEW p \in Problem, told[p] = View(b)[p]
  PROVE  LET c == [change |-> KindOf(b, r, p), problem |-> p,
                   was |-> Was(b, p), now |-> Now(b, r, p)]
             n == NextBaseline(b, r)
         IN  /\ p \in News(b, r) => Lawful(c) /\ View(n)[p] = HeardOf(c)
             /\ p \notin News(b, r) => View(n)[p] = told[p]
<1> DEFINE c == [change |-> KindOf(b, r, p), problem |-> p,
                 was |-> Was(b, p), now |-> Now(b, r, p)]
           n == NextBaseline(b, r)
<1>0. /\ b.seen[p] \in Seen
      /\ n.seen[p] = After(b, r)[p]
      /\ n.muted = b.muted \cup NewlyMuted(b, r)
      /\ View(b)[p] = IF p \in b.muted THEN HeldQuiet ELSE Was(b, p)
      /\ View(n)[p] = IF p \in n.muted THEN HeldQuiet ELSE Was(n, p)
  BY BaselineParts DEF NextBaseline, View, Baseline
<1>1. CASE p \in b.muted
  BY <1>0, <1>1 DEF News
<1>2. CASE p \notin b.muted /\ p \in Gone(b, r)
  <2>1. /\ p \notin Current(r) /\ Present(b, p)
        /\ After(b, r)[p] = [b.seen[p] EXCEPT !.present = FALSE]
    BY <1>2 DEF Gone, After
  <2>2. After(b, r)[p].present = FALSE
    BY <1>0, <2>1 DEF Seen, Unseen, Present
  <2>3. /\ Was(b, p) \in Severity /\ Now(b, r, p) = Absent
        /\ Was(n, p) = Absent /\ p \notin NewlyMuted(b, r)
    BY <1>0, <1>2, <2>1, <2>2, SeenParts DEF Present, Was, Now, NewlyMuted, Returns
  <2>4. p \in News(b, r) /\ KindOf(b, r, p) = "cleared"
    BY <1>2, <2>3, Levels DEF News, KindOf
  <2> QED
    BY <1>0, <1>2, <2>3, <2>4, Levels DEF Lawful, HeardOf
<1>3. CASE p \notin b.muted /\ p \in Current(r)
  <2>1. /\ p \notin Gone(b, r) /\ r.found[p] \in Severity
        /\ Now(b, r, p) = r.found[p] /\ Was(n, p) = r.found[p]
    BY <1>0, <1>3, CurrentParts DEF Gone, Now, Was, After, Found, Present
  <2>2. CASE p \in NewlyMuted(b, r)
    <3>1. Was(b, p) = Absent /\ KindOf(b, r, p) = "flapping"
      BY <2>1, <2>2 DEF NewlyMuted, Returns, Was, KindOf
    <3>2. p \in News(b, r)
      BY <1>3, <2>1, <3>1, Levels DEF News
    <3> QED
      BY <1>0, <1>3, <2>1, <2>2, <3>1, <3>2, Levels DEF Lawful, HeardOf
  <2>3. CASE p \notin NewlyMuted(b, r) /\ ~ Present(b, p)
    <3>1. Was(b, p) = Absent /\ KindOf(b, r, p) = "appeared"
      BY <2>1, <2>3 DEF Was, KindOf
    <3>2. p \in News(b, r)
      BY <1>3, <2>1, <3>1, Levels DEF News
    <3> QED
      BY <1>0, <1>3, <2>1, <2>3, <3>1, <3>2, Levels DEF Lawful, HeardOf
  <2>4. CASE p \notin NewlyMuted(b, r) /\ Present(b, p)
    <3>1. /\ Was(b, p) = b.seen[p].severity /\ Was(b, p) \in Severity
          /\ KindOf(b, r, p) = IF r.found[p] > Was(b, p) THEN "worsened" ELSE "eased"
      BY <1>0, <2>1, <2>4, SeenParts DEF Was, KindOf, Present
    <3>2. CASE r.found[p] = Was(b, p)
      BY <1>0, <1>3, <2>1, <2>4, <3>1, <3>2 DEF News
    <3>3. CASE r.found[p] # Was(b, p)
      <4>1. p \in News(b, r)
        BY <1>3, <2>1, <3>3 DEF News
      <4>2. Lawful(c)
        <5>1. c.problem = p /\ c.was = Was(b, p) /\ c.now = r.found[p]
              /\ c.change = KindOf(b, r, p)
          BY <2>1
        <5>2. told[p] = Was(b, p)
          BY <1>0, <1>3
        <5> QED
          BY <2>1, <3>1, <3>3, <5>1, <5>2, Levels DEF Lawful
      <4> QED
        BY <1>0, <1>3, <2>1, <2>4, <3>1, <4>1, <4>2 DEF HeardOf
    <3> QED
      BY <3>2, <3>3
  <2> QED
    BY <2>2, <2>3, <2>4
<1>4. CASE p \notin b.muted /\ p \notin Gone(b, r) /\ p \notin Current(r)
  <2>1. p \notin News(b, r) /\ p \notin NewlyMuted(b, r)
    BY <1>4 DEF News, NewlyMuted, Returns
  <2>2. Was(n, p) = Was(b, p)
    BY <1>0, <1>4 DEF Was, Present, After
  <2> QED
    BY <1>0, <1>4, <2>1, <2>2
<1> QED
  BY <1>1, <1>2, <1>3, <1>4

LEMMA CompareLeads ==
  ASSUME TypeOK, NEW b \in Baseline, NEW r \in Report, Sound(b), Leads(Quiet, b)
  PROVE  Leads(Compared(b, r), NextBaseline(b, r)) /\ Sound(NextBaseline(b, r))
<1> DEFINE n == Compared(b, r)
<1>1. CASE b.established
  <2>1. \A p \in Problem : told[p] = View(b)[p]
    BY <1>1 DEF Leads, Quiet
  <2>2. ~ n.first /\ n.changes = Changes(b, r)
    BY <1>1 DEF Compared, Quiet
  <2>3. \A p \in News(b, r) : p \in Problem
    BY DEF News, Gone, Current, Report
  <2>4. \A x \in n.changes :
          Lawful(x) /\ View(NextBaseline(b, r))[x.problem] = HeardOf(x)
    BY <1>1, <2>1, <2>2, <2>3, CompareOne DEF Changes
  <2>5. \A x, y \in n.changes : x.problem = y.problem => x = y
    BY <2>2 DEF Changes
  <2>6. ASSUME NEW p \in Problem, \A x \in n.changes : x.problem # p
        PROVE  told[p] = View(NextBaseline(b, r))[p]
    <3>1. p \notin News(b, r)
      <4> SUFFICES ASSUME p \in News(b, r) PROVE FALSE
        OBVIOUS
      <4> DEFINE c == [change |-> KindOf(b, r, p), problem |-> p,
                       was |-> Was(b, p), now |-> Now(b, r, p)]
      <4>1. c \in n.changes
        BY <2>2 DEF Changes
      <4>2. c.problem = p
        OBVIOUS
      <4> QED
        BY <2>6, <4>1, <4>2
    <3> QED
      BY <1>1, <2>1, <3>1, CompareOne
  <2>7. NextBaseline(b, r).established
    BY <1>1 DEF NextBaseline, Baseline
  <2> QED
    BY <2>2, <2>4, <2>5, <2>6, <2>7 DEF Leads, Sound
<1>2. CASE ~ b.established
  <2>1. b.muted = {} /\ NextBaseline(b, r) = FirstBaseline(b, r)
    BY <1>2 DEF Sound, NextBaseline
  <2>2. FirstBaseline(b, r).muted = {} /\ FirstBaseline(b, r).established
    BY <2>1 DEF FirstBaseline, Baseline
  <2>3. n.first /\ n.changes = {}
        /\ n.recorded = [p \in Problem |-> Was(FirstBaseline(b, r), p)]
    BY <1>2 DEF Compared, Quiet
  <2>4. n.recorded = View(FirstBaseline(b, r))
    BY <2>2, <2>3 DEF View
  <2> QED
    BY <2>1, <2>2, <2>3, <2>4 DEF Leads, Sound
<1> QED
  BY <1>1, <1>2

-----------------------------------------------------------------------------
Inv == InSlot /\ Orderly /\ Story

LEMMA QuietFresh == Leads(Quiet, Fresh) /\ Sound(Fresh)
BY DEF Leads, Sound, Fresh

LEMMA InitInv == Init => Inv
<1> SUFFICES ASSUME Init PROVE Inv
  OBVIOUS
<1>1. InSlot
  BY InitInSlot
<1>2. Orderly
  BY QuietFresh DEF Init, Orderly
<1>3. Story
  BY DEF Init, Story, Alone, Busy, Active, MemoryTold, Loaded, FileTold, Unheard
<1> QED
  BY <1>1, <1>2, <1>3 DEF Inv

\* What a baseline and a look say to a reader only depends on what was told.
LEMMA SameTold ==
  ASSUME told' = told
  PROVE  \A n, b : Leads(n, b)' <=> Leads(n, b)
BY DEF Leads, Lawful

LEMMA BeginInv ==
  ASSUME Inv, NEW l \in Looker, Begin(l), UNCHANGED <<file, memory, news, told>>
  PROVE  Orderly' /\ Story'
<1>1. Orderly'
  BY DEF Inv, Orderly, Begin, Moves, InSlot, TypeOK
<1>2. Alone' \/ ~ tidy'
  BY DEF Inv, Story, Alone, Begin, Moves, NobodyElse, Busy, Active, InSlot, TypeOK
<1>3. MemoryTold => MemoryTold'
  BY SameTold DEF MemoryTold, Begin, Moves, Loaded, Inv, InSlot, TypeOK
<1>4. FileTold => FileTold'
  BY SameTold DEF FileTold, Begin, Moves, Unheard, Inv, InSlot, TypeOK
<1> QED
  BY <1>1, <1>2, <1>3, <1>4 DEF Inv, Story, Begin

\* A step of l that only moves it on, or ends it.
LEMMA MoveInv ==
  ASSUME Inv, NEW l \in Looker, NEW to \in PC,
         Active(l), pc' = [pc EXCEPT ![l] = to],
         to \in {"loading", "looking"} => news[l] = Quiet,
         pc[l] # "saving", to # "saving" \/ news[l] = Quiet,
         \/ memory' = memory /\ (to # "off" => Loaded(l))
         \/ memory' = [memory EXCEPT ![l] = Fresh] /\ to = "off",
         UNCHANGED <<file, news, told, tidy>>
  PROVE  Orderly' /\ Story'
<1>1. Orderly'
  BY QuietFresh DEF Inv, Orderly, InSlot, TypeOK
<1>2. Alone => Alone'
  BY DEF Alone, Busy, Active, Inv, InSlot, TypeOK
<1>3. MemoryTold => MemoryTold'
  BY SameTold DEF MemoryTold, Loaded, Inv, InSlot, TypeOK
<1>4. FileTold => FileTold'
  <2>1. \A k \in Looker : Unheard(k)' <=> Unheard(k)
    BY DEF Unheard, Inv, InSlot, TypeOK
  <2> QED
    BY <2>1, SameTold DEF FileTold
<1> QED
  BY <1>1, <1>2, <1>3, <1>4 DEF Inv, Story

LEMMA LoadInv ==
  ASSUME Inv, NEW l \in Looker, Load(l)
  PROVE  Orderly' /\ Story'
<1>0. /\ pc[l] = "loading" /\ pc' \in [Looker -> PC] /\ news[l] = Quiet
      /\ pc'[l] \in {"looking", "top"}
      /\ \A k \in Looker \ {l} : pc'[k] = pc[k] /\ memory'[k] = memory[k]
      /\ \/ memory'[l] = Fresh
         \/ file # None /\ memory'[l] = file
      /\ UNCHANGED <<file, news, told, tidy>>
  <2>1. /\ pc \in [Looker -> PC] /\ memory \in [Looker -> Baseline]
        /\ pc[l] = "loading" => news[l] = Quiet
    BY DEF Inv, InSlot, TypeOK, Orderly
  <2>2. /\ pc[l] = "loading"
        /\ pc' = [pc EXCEPT ![l] = IF l \in Once THEN "looking" ELSE "top"]
        /\ \/ memory' = [memory EXCEPT ![l] = IF file = None THEN Fresh ELSE file]
           \/ memory' = [memory EXCEPT ![l] = Fresh]
        /\ UNCHANGED <<file, news, told, tidy>>
    BY DEF Load, Moves, reader
  <2> QED
    BY <2>1, <2>2 DEF PC
<1>1. Orderly'
  BY <1>0, QuietFresh DEF Inv, Orderly
<1>2. Alone => Alone'
  BY <1>0 DEF Alone, Busy, Active
<1>3. \A k \in Looker : Unheard(k)' <=> Unheard(k)
  BY <1>0 DEF Unheard
<1>4. FileTold => FileTold'
  BY <1>0, <1>3, SameTold DEF FileTold
<1>5. Alone => \A k \in Looker : ~ Unheard(k)
  BY <1>0 DEF Alone, Busy, Active, Unheard
<1>6. Alone /\ FileTold => Leads(Quiet, memory'[l])
  BY <1>0, <1>5, QuietFresh DEF FileTold
<1>7. Alone /\ MemoryTold /\ FileTold => MemoryTold'
  <2> SUFFICES ASSUME Alone, MemoryTold, FileTold, NEW k \in Looker, Loaded(k)'
               PROVE  Leads(news[k], memory'[k])
    BY <1>0, SameTold DEF MemoryTold
  <2> QED
    BY <1>0, <1>6 DEF MemoryTold, Loaded
<1> QED
  BY <1>0, <1>1, <1>2, <1>4, <1>7 DEF Inv, Story

LEMMA LookDoneInv ==
  ASSUME Inv, NEW l \in Looker, NEW ran \in SUBSET Probe, NEW missed \in SUBSET Unsure,
             LookDone(l, ran, missed)
  PROVE  Orderly' /\ Story'
<1> DEFINE r == Reported(ran, missed)
<1>0. /\ pc[l] = "looking" /\ pc'[l] = "saving" /\ news[l] = Quiet
      /\ \A k \in Looker \ {l} :
           pc'[k] = pc[k] /\ memory'[k] = memory[k] /\ news'[k] = news[k]
      /\ memory'[l] = NextBaseline(memory[l], r) /\ news'[l] = Compared(memory[l], r)
      /\ UNCHANGED <<file, told, tidy>>
      /\ memory[l] \in Baseline /\ r \in Report /\ Sound(memory[l])
  BY ReportedTyped
  DEF LookDone, Compare, Moves, reader, Inv, InSlot, TypeOK, PC, Orderly
<1>1. MemoryTold => Leads(Quiet, memory[l])
  BY <1>0 DEF MemoryTold, Loaded
<1>2. Sound(memory'[l])
  BY <1>0 DEF Sound, NextBaseline, FirstBaseline, Baseline
<1>3. Orderly'
  BY <1>0, <1>2 DEF Inv, Orderly
<1>4. Alone => Alone'
  BY <1>0 DEF Alone, Busy, Active
<1>5. MemoryTold => MemoryTold'
  <2> SUFFICES ASSUME MemoryTold, NEW k \in Looker, Loaded(k)'
               PROVE  Leads(news'[k], memory'[k])
    BY <1>0, SameTold DEF MemoryTold
  <2>1. CASE k = l
    BY <1>0, <1>1, <2>1, CompareLeads DEF Inv, InSlot
  <2>2. CASE k # l
    BY <1>0, <2>2 DEF MemoryTold, Loaded
  <2> QED
    BY <2>1, <2>2
<1>6. FileTold => FileTold'
  <2>1. \A k \in Looker : Unheard(k)' <=> Unheard(k)
    BY <1>0 DEF Unheard
  <2> QED
    BY <1>0, <2>1, SameTold DEF FileTold, Unheard
<1> QED
  BY <1>0, <1>3, <1>4, <1>5, <1>6 DEF Inv, Story

LEMMA SaveInv ==
  ASSUME Inv, NEW l \in Looker, Save(l)
  PROVE  Orderly' /\ Story'
<1>0. /\ pc[l] = "saving" /\ pc'[l] \in {"off", "asleep"}
      /\ \A k \in Looker \ {l} : pc'[k] = pc[k] /\ memory'[k] = memory[k]
      /\ \/ memory'[l] = memory[l]
         \/ pc'[l] = "off" /\ memory'[l] = Fresh
      /\ file' = memory[l] /\ file' # None
      /\ UNCHANGED <<news, told, tidy>>
  <2>1. pc \in [Looker -> PC] /\ memory \in [Looker -> Baseline]
    BY DEF Inv, InSlot, TypeOK
  <2>2. /\ pc[l] = "saving"
        /\ pc' = [pc EXCEPT ![l] = IF l \in Once THEN "off" ELSE "asleep"]
        /\ memory' = IF l \in Once THEN [memory EXCEPT ![l] = Fresh] ELSE memory
        /\ file' = memory[l]
        /\ UNCHANGED <<news, told, tidy>>
    BY DEF Save, LookOver, Moves, reader
  <2> QED
    BY <2>1, <2>2, WatchAssumption DEF PC
<1>1. Orderly'
  BY <1>0, QuietFresh DEF Inv, Orderly
<1>2. Alone => Alone'
  BY <1>0 DEF Alone, Busy, Active
<1>3. MemoryTold => MemoryTold' /\ Leads(news[l], file')
  BY <1>0, SameTold DEF MemoryTold, Loaded
<1>4. Alone => \A k \in Looker \ {l} : news[k] = Quiet
  BY <1>0 DEF Alone, Busy, Active
<1>5. Alone /\ MemoryTold => FileTold'
  <2> SUFFICES ASSUME Alone, MemoryTold PROVE FileTold'
    OBVIOUS
  <2>1. \A k \in Looker : Unheard(k)' => k = l /\ Leads(news[l], file')
    BY <1>0, <1>3, <1>4 DEF Unheard
  <2>2. ~ Unheard(l)' => Leads(Quiet, file')
    BY <1>0, <1>3 DEF Unheard
  <2> QED
    BY <1>0, <2>1, <2>2, SameTold DEF FileTold
<1> QED
  BY <1>0, <1>1, <1>2, <1>3, <1>5 DEF Inv, Story

LEMMA SaveFailsInv ==
  ASSUME Inv, NEW l \in Looker, SaveFails(l)
  PROVE  Orderly' /\ Story'
<1>1. Orderly'
  BY QuietFresh
  DEF SaveFails, LookOver, Moves, Inv, Orderly, InSlot, TypeOK
<1> QED
  BY <1>1 DEF SaveFails, Story

\* Hearing what leads to b brings the reader to b.
LEMMA HeardLeads ==
  ASSUME TypeOK, NEW l \in Looker, Deliver(l), NEW b, Leads(news[l], b)
  PROVE  Leads(Quiet, b)'
<1> DEFINE n == news[l]
<1>0. /\ n # Quiet
      /\ told' = IF n.first THEN n.recorded ELSE Heard(n.changes)
  BY DEF Deliver
<1>1. CASE n.first
  BY <1>0, <1>1 DEF Leads, Quiet, View
<1>2. CASE ~ n.first
  <2>1. /\ \A c \in n.changes : View(b)[c.problem] = HeardOf(c)
        /\ \A c, d \in n.changes : c.problem = d.problem => c = d
        /\ \A p \in Problem :
             (\A c \in n.changes : c.problem # p) => told[p] = View(b)[p]
    BY <1>0, <1>2 DEF Leads
  <2>2. ASSUME NEW p \in Problem
        PROVE  told'[p] = View(b)[p]
    <3>1. CASE \E c \in n.changes : c.problem = p
      <4>1. PICK c \in n.changes : c.problem = p
        BY <3>1
      <4>2. (CHOOSE x \in n.changes : x.problem = p) = c
        BY <2>1, <4>1
      <4> QED
        BY <1>0, <1>2, <2>1, <3>1, <4>1, <4>2 DEF Heard
    <3>2. CASE \A c \in n.changes : c.problem # p
      BY <1>0, <1>2, <2>1, <3>2 DEF Heard
    <3> QED
      BY <3>1, <3>2
  <2> QED
    BY <2>2 DEF Leads, Quiet, View
<1> QED
  BY <1>1, <1>2

LEMMA DeliverInv ==
  ASSUME Inv, NEW l \in Looker, Deliver(l)
  PROVE  Orderly' /\ Story'
<1>0. /\ news[l] # Quiet /\ pc[l] # "saving" /\ news'[l] = Quiet
      /\ \A k \in Looker \ {l} : news'[k] = news[k]
      /\ UNCHANGED <<file, memory, pc, tidy>>
  BY DEF Deliver, Inv, InSlot, TypeOK
<1>1. Orderly'
  BY <1>0 DEF Inv, Orderly
<1>2. Alone => Alone'
  BY <1>0 DEF Alone, Busy, Active
<1>3. Alone => \A k \in Looker \ {l} : ~ Busy(k)
  BY <1>0 DEF Alone, Busy
<1>4. Alone /\ MemoryTold => MemoryTold'
  <2> SUFFICES ASSUME Alone, MemoryTold, NEW k \in Looker, Loaded(k)'
               PROVE  Leads(news[k], memory[k])'
    BY DEF MemoryTold
  <2>1. k = l
    BY <1>0, <1>3 DEF Busy, Active, Loaded
  <2>2. Leads(news[l], memory[l])
    BY <1>0, <2>1 DEF MemoryTold, Loaded
  <2>3. Leads(Quiet, memory[l])'
    BY <2>2, <1>0, HeardLeads DEF Inv, InSlot
  <2> QED
    BY <1>0, <2>1, <2>3
<1>5. Alone /\ FileTold => FileTold'
  <2> SUFFICES ASSUME Alone, FileTold PROVE FileTold'
    OBVIOUS
  <2>1. \A k \in Looker : ~ Unheard(k)'
    BY <1>0, <1>3 DEF Unheard, Busy
  <2>2. Leads(news[l], file)
    BY <1>0 DEF FileTold, Unheard
  <2>3. Leads(Quiet, file)'
    BY <1>0, <2>2, HeardLeads DEF Inv, InSlot
  <2> QED
    BY <2>1, <2>3 DEF FileTold
<1> QED
  BY <1>0, <1>1, <1>2, <1>4, <1>5 DEF Inv, Story

LEMMA DiesInv ==
  ASSUME Inv, NEW L \in SUBSET Looker, Dies(L)
  PROVE  Orderly' /\ Story'
<1>0. /\ \A k \in Looker :
           /\ pc'[k] = IF k \in L THEN "off" ELSE pc[k]
           /\ memory'[k] = IF k \in L THEN Fresh ELSE memory[k]
           /\ news'[k] = IF k \in L THEN Quiet ELSE news[k]
      /\ tidy' => tidy /\ \A k \in L : news[k] # Quiet => pc[k] = "saving"
      /\ UNCHANGED <<file, told>>
  BY DEF Dies
<1>1. Orderly'
  BY <1>0, QuietFresh DEF Inv, Orderly
<1>2. Alone => Alone'
  BY <1>0 DEF Alone, Busy, Active
<1>3. MemoryTold => MemoryTold'
  <2> SUFFICES ASSUME MemoryTold, NEW k \in Looker, Loaded(k)'
               PROVE  Leads(news'[k], memory'[k])
    BY <1>0, SameTold DEF MemoryTold
  <2>1. k \notin L
    BY <1>0 DEF Loaded
  <2> QED
    BY <1>0, <2>1 DEF MemoryTold, Loaded
<1>4. tidy' /\ FileTold => FileTold'
  <2> SUFFICES ASSUME tidy', FileTold PROVE FileTold'
    OBVIOUS
  <2>1. \A k \in Looker : Unheard(k)' <=> Unheard(k)
    BY <1>0 DEF Unheard
  <2>2. \A k \in Looker : Unheard(k) => news'[k] = news[k]
    BY <1>0 DEF Unheard
  <2> QED
    BY <1>0, <2>1, <2>2, SameTold DEF FileTold
<1> QED
  BY <1>0, <1>1, <1>2, <1>3, <1>4 DEF Inv, Story

LEMMA ForgetInv ==
  ASSUME Inv, Forget
  PROVE  Orderly' /\ Story'
<1>1. Orderly'
  BY DEF Forget, Inv, Orderly
<1>2. tidy' => \A k \in Looker : ~ Busy(k)'
  BY DEF Forget, Busy, Active
<1>3. tidy' => Alone' /\ MemoryTold' /\ FileTold'
  BY <1>2
  DEF Forget, Alone, MemoryTold, FileTold, Loaded, Unheard, Busy, Active
<1> QED
  BY <1>1, <1>3 DEF Story

LEMMA NextInv == Inv /\ [Next]_vars => Inv'
<1> SUFFICES ASSUME Inv, [Next]_vars
             PROVE  Orderly' /\ Story'
  BY NextInSlot DEF Inv
<1> USE WatchAssumption
<1>1. ASSUME NEW l \in Looker,
             BeginLook(l) \/ Wake(l) \/ LookStopped(l) \/ Trouble(l)
               \/ Ends(l, "top") \/ Ends(l, "asleep")
      PROVE  Orderly' /\ Story'
  <2>1. PICK to \in PC :
          /\ Active(l) /\ pc' = [pc EXCEPT ![l] = to]
          /\ to \in {"loading", "looking"} => news[l] = Quiet
          /\ pc[l] # "saving"
          /\ to # "saving" \/ news[l] = Quiet
          /\ \/ memory' = memory /\ (to # "off" => Loaded(l))
             \/ memory' = [memory EXCEPT ![l] = Fresh] /\ to = "off"
          /\ UNCHANGED <<file, news, told, tidy>>
    BY <1>1
    DEF BeginLook, Wake, LookStopped, Trouble, LookOver, Ends, Moves, reader,
        Active, Loaded, PC, Inv, Orderly
  <2> QED
    BY <2>1, MoveInv
<1>2. ASSUME NEW l \in Looker, NEW ran \in SUBSET Probe, NEW missed \in SUBSET Unsure,
             LookDone(l, ran, missed)
      PROVE  Orderly' /\ Story'
  BY <1>2, LookDoneInv
<1>3. ASSUME NEW l \in Looker,
             Load(l) \/ Save(l) \/ SaveFails(l) \/ Deliver(l)
      PROVE  Orderly' /\ Story'
  BY <1>3, LoadInv, SaveInv, SaveFailsInv, DeliverInv
<1>4. ASSUME NEW l \in Looker, WatchStart(l) \/ LookOnce(l)
      PROVE  Orderly' /\ Story'
  BY <1>4, BeginInv DEF WatchStart, LookOnce
<1>5. ASSUME NEW L \in SUBSET Looker, Dies(L)
      PROVE  Orderly' /\ Story'
  BY <1>5, DiesInv
<1>6. CASE Forget
  BY <1>6, ForgetInv
<1>7. CASE \/ WatchStop
           \/ \E p \in Problem, level \in Level : Drift(p, level)
           \/ UNCHANGED vars
  <2>1. UNCHANGED <<file, memory, pc, news, told, tidy>>
    BY <1>7 DEF WatchStop, Drift, reader, vars
  <2>2. Orderly'
    BY <2>1 DEF Inv, Orderly
  <2>3. (Alone => Alone') /\ (MemoryTold => MemoryTold')
    BY <2>1, SameTold DEF Alone, Busy, Active, MemoryTold, Loaded
  <2>4. FileTold => FileTold'
    BY <2>1, SameTold DEF FileTold, Unheard
  <2> QED
    BY <2>1, <2>2, <2>3, <2>4 DEF Inv, Story
<1> QED
  BY <1>1, <1>2, <1>3, <1>4, <1>5, <1>6, <1>7
  DEF Next, Steps, QuitApp, KillTask, Looker

LEMMA AlwaysInv == Spec => []Inv
BY InitInv, NextInv, PTL DEF Spec

\* While lookers come one after the other and no word is lost, a watcher that
\* has delivered its look has told all it remembers, restarts included.
THEOREM NothingKeptBack == Spec => []ToldIsUpToDate
<1>1. Inv => ToldIsUpToDate
  <2> SUFFICES ASSUME Inv, NEW l \in Looker, tidy, pc[l] = "asleep",
                      news[l] = Quiet, memory[l].established
               PROVE  told = View(memory[l])
    BY DEF ToldIsUpToDate
  <2>1. \A p \in Problem : told[p] = View(memory[l])[p]
    BY DEF Inv, Story, MemoryTold, Loaded, Leads, Quiet
  <2> QED
    BY <2>1 DEF Inv, InSlot, TypeOK, View
<1> QED
  BY <1>1, AlwaysInv, PTL

\* And every change it tells fits what was told before, by itself or by those
\* before it.
THEOREM OneStory == Spec => TellsOneStory
<1>1. ASSUME Inv, NEW l \in Looker, tidy, Deliver(l), NEW c \in news[l].changes
      PROVE  Lawful(c)
  <2>1. news[l] # Quiet /\ Leads(news[l], file)
    BY <1>1 DEF Inv, Story, FileTold, Unheard, Deliver
  <2> QED
    BY <1>1, <2>1 DEF Leads
<1>2. Inv /\ [Next]_vars =>
        [\A l \in Looker : tidy /\ Deliver(l) => \A c \in news[l].changes : Lawful(c)]_vars
  BY <1>1
<1> QED
  BY <1>2, AlwaysInv, PTL DEF Spec, TellsOneStory
=============================================================================
