--------------------------- MODULE WatchBaseline ----------------------------
(***************************************************************************)
(* What the watcher remembers, and how one scan is compared with it:       *)
(* Baseline and compare() of crates/ork-core/src/watch.rs.                 *)
(*                                                                         *)
(* A report says which problems were judged -- the probe their finding     *)
(* names ran to completion -- and how bad each was found to be by the      *)
(* probes that did; Absent is a problem that was not found.                *)
(***************************************************************************)
EXTENDS Integers

CONSTANTS
  Problem,    \* occurrence keys
  MaxSeverity,
  FlapLimit   \* FLAP_LIMIT

ASSUME BaselineAssumption ==
  /\ MaxSeverity \in Nat \ {0}
  /\ FlapLimit \in Nat /\ FlapLimit > 1

Absent == 0
Severity == 1 .. MaxSeverity
Level == Severity \cup {Absent}

\* Problem never seen.  The other records are kept after a problem has gone.
Unseen == [present |-> FALSE, severity |-> Absent, appearances |-> 0]

\* Appearances are counted up to FlapLimit: from there on the problem is muted.
Seen == [present : BOOLEAN, severity : Severity, appearances : 1 .. FlapLimit]
        \cup {Unseen}

Baseline == [established : BOOLEAN, seen : [Problem -> Seen], muted : SUBSET Problem]

Fresh == [established |-> FALSE, seen |-> [p \in Problem |-> Unseen], muted |-> {}]

Report == [judged : SUBSET Problem, found : [Problem -> Level]]

ChangeKind == {"appeared", "worsened", "eased", "cleared", "flapping"}
Change == [change : ChangeKind, problem : Problem, was : Level, now : Level]

\* A look: the changes it reports, or the starting point it recorded.
Look == [first : BOOLEAN, changes : SUBSET Change, recorded : [Problem -> Level]]

Nothing == [p \in Problem |-> Absent]
Quiet == [first |-> FALSE, changes |-> {}, recorded |-> Nothing]

-----------------------------------------------------------------------------

Current(r) == {p \in Problem : r.found[p] # Absent}

Known(b, p) == b.seen[p] # Unseen
Present(b, p) == b.seen[p].present

\* Back after having cleared.
Returns(b, r) == {p \in Current(r) : Known(b, p) /\ ~ Present(b, p)}

\* Mutation: a check that did not run clears what it had found.
GoneUnjudged(b, r) == {p \in Problem : Present(b, p) /\ p \notin Current(r)}

\* Remembered as present, the check it names ran, and nothing reported it.
Gone(b, r) == {p \in r.judged : Present(b, p) /\ p \notin Current(r)}

Again(n) == IF n < FlapLimit THEN n + 1 ELSE FlapLimit

\* A problem found once more is there as it is now; the appearance counts only
\* if it was not there before.
Found(s, level) ==
  [present |-> TRUE, severity |-> level,
   appearances |-> IF s.present THEN s.appearances ELSE Again(s.appearances)]

After(b, r) ==
  [p \in Problem |->
     IF p \in Current(r) THEN Found(b.seen[p], r.found[p])
     ELSE IF p \in Gone(b, r) THEN [b.seen[p] EXCEPT !.present = FALSE]
     ELSE b.seen[p]]

NewlyMuted(b, r) ==
  {p \in Returns(b, r) \ b.muted : After(b, r)[p].appearances >= FlapLimit}

KindOf(b, r, p) ==
  IF p \in Gone(b, r) THEN "cleared"
  ELSE IF p \in NewlyMuted(b, r) THEN "flapping"
  ELSE IF ~ Present(b, p) THEN "appeared"
  ELSE IF r.found[p] > b.seen[p].severity THEN "worsened"
  ELSE "eased"

\* What is remembered of a problem before, as a level.
Was(b, p) == IF Present(b, p) THEN b.seen[p].severity ELSE Absent

Now(b, r, p) == IF p \in Gone(b, r) THEN Absent ELSE r.found[p]

\* Mutation: a problem seen before is not announced when it comes back.
NewsOnce(b, r) ==
  {p \in Gone(b, r) \cup Current(r) :
     Was(b, p) # Now(b, r, p) /\ p \notin b.muted /\ p \notin Returns(b, r)}

News(b, r) ==
  {p \in Gone(b, r) \cup Current(r) : Was(b, p) # Now(b, r, p) /\ p \notin b.muted}

Changes(b, r) ==
  {[change |-> KindOf(b, r, p), problem |-> p,
    was |-> Was(b, p), now |-> Now(b, r, p)] : p \in News(b, r)}

\* The first look only records the starting point.
FirstBaseline(b, r) ==
  [b EXCEPT !.established = TRUE,
            !.seen = [p \in Problem |-> IF p \in Current(r)
                                        THEN Found(Unseen, r.found[p])
                                        ELSE b.seen[p]]]

NextBaseline(b, r) ==
  IF b.established
  THEN [b EXCEPT !.seen = After(b, r), !.muted = @ \cup NewlyMuted(b, r)]
  ELSE FirstBaseline(b, r)

Compared(b, r) ==
  IF b.established THEN [Quiet EXCEPT !.changes = Changes(b, r)]
  ELSE [Quiet EXCEPT !.first = TRUE,
                     !.recorded = [p \in Problem |-> Was(FirstBaseline(b, r), p)]]
=============================================================================
