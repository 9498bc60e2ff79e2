----------------------------- MODULE Incidents -----------------------------
(***************************************************************************)
(* What goes wrong is written down, one line each, in a file every process  *)
(* of the tool shares, and made into a report the person may edit before    *)
(* posting it (ork-core incident, the window's report screen).              *)
(***************************************************************************)
EXTENDS Integers, FiniteSets, SequencesExt

CONSTANTS
  Proc,        \* the processes of the tool
  KEEP,        \* lines the file is kept to
  INCLUDED,    \* records a report covers
  Load,        \* readings of the report that may be under way at once
  MaxLines,    \* bound: lines written since the file was last cleared
  AtOnce,      \* bound: writers at the file at once
  AfterRace,   \* bound: more is recorded once the file is not what was written
  Faults,      \* subset of {"disk", "half"}: writing fails; it stops in mid-line
  None

ASSUME IncidentsAssumption ==
  /\ KEEP \in Nat \ {0} /\ INCLUDED \in Nat \ {0} /\ MaxLines \in Nat /\ AtOnce \in Nat
  /\ AfterRace \in BOOLEAN /\ Faults \subseteq {"disk", "half"}

VARIABLES
  located,   \* there is a directory to keep state in
  log,       \* incidents.jsonl, line by line
  written,   \* what it would hold had it never been trimmed
  temp,      \* incidents.jsonl.trimming, or None
  writer,    \* Writer -> where it is in record()
  raced,     \* history: since it was last cleared, the file was written to while
             \* it was being rewritten
  draft,     \* report.svelte.ts: generated, text, listed, loaded
  loading    \* reading -> where load() is; history: theirs, the text was then

file == <<log, written, temp, writer, raced>>
screen == <<draft, loading>>
incidents == <<located, file, screen>>

-----------------------------------------------------------------------------
(* Lines.  One cut short has no end: what is appended next continues it.   *)
(* Cut inside a character it is no text, and nor is what it grows into.    *)

IncidentKind == {"error", "panic"}
CutOff == {"half", "cut"}
NoText == {"cut", "garbled"}
Line == [by : Proc, kind : IncidentKind \cup CutOff \cup {"unreadable", "garbled"}]

\* what a line cut short, and what is appended to it, are together
Joined(kind, next) ==
  CASE kind = "cut" /\ next \in CutOff -> "cut"
    [] kind = "cut" /\ next \notin CutOff -> "garbled"
    [] kind # "cut" /\ next \in CutOff -> next
    [] OTHER -> "unreadable"

Appended(lines, line) ==
  IF lines # << >> /\ Last(lines).kind \in CutOff
  THEN Append(Front(lines), [line EXCEPT !.kind = Joined(Last(lines).kind, @)])
  ELSE Append(lines, line)

Newest(lines, n) == IF Len(lines) <= n THEN lines ELSE SubSeq(lines, Len(lines) - n + 1, Len(lines))

\* No line of these is cut inside a character.
Legible(lines) == \A i \in DOMAIN lines : lines[i].kind \notin NoText

Whole(line) == [line EXCEPT !.kind = IF @ = "half" THEN "unreadable" ELSE @]

\* Reading goes as far as the first line that is no text, and takes no notice
\* of where the last one ended.
ReadFrom(lines) ==
  LET stop == {i \in DOMAIN lines : lines[i].kind \in NoText}
      far == IF stop = {} THEN Len(lines) ELSE (CHOOSE i \in stop : \A j \in stop : i <= j) - 1
  IN  [i \in 1 .. far |-> Whole(lines[i])]

\* lines that are text and no record are passed over
All(lines) == SelectSeq(ReadFrom(lines), LAMBDA l : l.kind \in IncidentKind)
Recent(lines, n) == Newest(All(lines), n)

-----------------------------------------------------------------------------
(* record(): append, then trim.  Two parts of a process may be at it: the   *)
(* layer that takes the errors, one at a time, and the panic hook.          *)
(* BOUND: one panic of a process at a time.                                 *)

Writer == Proc \X IncidentKind
Parts(p) == {p} \X IncidentKind
RecordOf(w) == [by |-> w[1], kind |-> w[2]]

AtRest == [at |-> "rest", lines |-> << >>]

Rewriting(others) == \E v \in others : writer[v].at \in {"create", "write", "rename"}
Writing(others) == \E v \in others : writer[v].at # "rest"
AllAtRest(p) == \A w \in Parts(p) : writer[w].at = "rest"

At(places) == Cardinality({w \in Writer : writer[w].at \in places})

\* BOUND: MaxLines, the lines on their way among them; AtOnce; AfterRace.
BeginRecord(w) ==
  /\ writer[w].at = "rest" /\ (raced => AfterRace)
  /\ Len(written) + At({"append"}) < MaxLines
  /\ At({"append", "read", "create", "write", "rename"}) < AtOnce
  /\ writer' = [writer EXCEPT ![w].at = "append"]
  /\ UNCHANGED <<log, written, temp, raced>>

AppendLine(w) ==
  /\ writer[w].at = "append"
  /\ log' = Appended(log, RecordOf(w)) /\ written' = Appended(written, RecordOf(w))
  /\ writer' = [writer EXCEPT ![w].at = "read"]
  /\ raced' = (raced \/ Rewriting(Writer \ {w}))
  /\ UNCHANGED temp

\* An append that does not come to its end may leave a part of its line.
CutShort(w) ==
  /\ "half" \in Faults /\ writer[w].at = "append"
  /\ \E kind \in CutOff : LET part == [RecordOf(w) EXCEPT !.kind = kind]
                         IN  log' = Appended(log, part) /\ written' = Appended(written, part)
  /\ raced' = (raced \/ Writing(Writer \ {w}))

\* A temporary file nobody has open is as good as none: who wants one next
\* begins it anew.
LeavesBehind(W) == temp' = IF Rewriting(Writer \ W) THEN temp ELSE None

\* said on standard error, and nowhere else
CannotRecord(w) ==
  /\ "disk" \in Faults /\ writer[w].at # "rest"
  /\ writer' = [writer EXCEPT ![w] = AtRest]
  /\ CutShort(w) \/ UNCHANGED <<log, written, raced>>
  /\ LeavesBehind({w})

ReadLines(w) ==
  /\ writer[w].at = "read"
  /\ LET lines == ReadFrom(log)
     IN  IF Len(lines) <= KEEP THEN writer' = [writer EXCEPT ![w] = AtRest] /\ UNCHANGED raced
         ELSE /\ writer' = [writer EXCEPT ![w] = [at |-> "create", lines |-> lines]]
              /\ raced' = (raced \/ Rewriting(Writer \ {w}))
  /\ UNCHANGED <<log, written, temp>>

CreateTemporary(w) ==
  /\ writer[w].at = "create"
  /\ temp' = << >> /\ writer' = [writer EXCEPT ![w].at = "write"]
  /\ UNCHANGED <<log, written, raced>>

\* where another writer has renamed the file meanwhile, it is the log that is open
WriteTemporary(w) ==
  /\ writer[w].at = "write"
  /\ LET kept == Newest(writer[w].lines, KEEP)
     IN  IF temp = None THEN log' = kept /\ UNCHANGED temp ELSE temp' = kept /\ UNCHANGED log
  /\ writer' = [writer EXCEPT ![w] = [at |-> "rename", lines |-> << >>]]
  /\ UNCHANGED <<written, raced>>

\* (TrimInPlace is a mutant: no file beside the original.)
TrimInPlace(w) ==
  /\ writer[w].at = "rename"
  /\ \/ log # << >> /\ log' = << >> /\ UNCHANGED <<temp, writer>>
     \/ log = << >> /\ log' = temp /\ temp' = None /\ writer' = [writer EXCEPT ![w] = AtRest]
  /\ UNCHANGED <<written, raced>>

RenameTemporary(w) ==
  /\ writer[w].at = "rename"
  /\ IF temp = None THEN UNCHANGED <<log, temp>> ELSE log' = temp /\ temp' = None
  /\ writer' = [writer EXCEPT ![w] = AtRest]
  /\ UNCHANGED <<written, raced>>

\* the end of the process, wherever it is
Abandon(p) ==
  /\ writer' = [w \in Writer |-> IF w \in Parts(p) THEN AtRest ELSE writer[w]]
  /\ (\E w \in Parts(p) : CutShort(w)) \/ UNCHANGED <<log, written, raced>>
  /\ LeavesBehind(Parts(p))

Clear ==
  /\ log' = << >> /\ written' = << >>
  /\ raced' = Rewriting(Writer)
  /\ UNCHANGED <<temp, writer>>

Recording(w) ==
  \/ AppendLine(w) \/ CannotRecord(w) \/ ReadLines(w)
  \/ CreateTemporary(w) \/ WriteTemporary(w) \/ RenameTemporary(w)

-----------------------------------------------------------------------------
(* The report, and the draft of it in the window.  A text is what a report  *)
(* covers, or Theirs: what the person has made of it.                       *)

Report(lines) ==
  LET of == Recent(lines, INCLUDED)
  IN  [incident_count |-> Len(of), includes_crash |-> \E i \in DOMAIN of : of[i].kind = "panic"]
Blank == [incident_count |-> -1, includes_crash |-> FALSE]
Theirs == [incident_count |-> -2, includes_crash |-> FALSE]

NoDraft == [generated |-> Blank, text |-> Blank, listed |-> FALSE, loaded |-> FALSE]
NotLoading == [at |-> "none", keep |-> FALSE, theirs |-> FALSE, built |-> Blank]

edited == draft.generated # Blank /\ draft.text # draft.generated

\* opening the screen, or Refresh
BeginLoad(l) ==
  /\ loading[l].at = "none"
  /\ loading' = [loading EXCEPT ![l] = [at |-> "asked", keep |-> edited, theirs |-> draft.text = Theirs, built |-> Blank]]
  /\ UNCHANGED draft

Build(l) ==
  /\ loading[l].at = "asked"
  /\ loading' = [loading EXCEPT ![l].at = "built", ![l].built = Report(log)]
  /\ UNCHANGED draft

\* Whether there are edits is asked before the reading, not when it is back.
\* (LoadAfresh is a mutant: what was written is not looked at.)
LoadAfresh(l) ==
  /\ loading[l].at = "built"
  /\ draft' = [generated |-> loading[l].built, text |-> loading[l].built,
               listed |-> loading[l].built.incident_count > 0, loaded |-> TRUE]
  /\ loading' = [loading EXCEPT ![l] = NotLoading]

Loaded(l) ==
  /\ loading[l].at = "built"
  /\ draft' = [generated |-> loading[l].built,
               text |-> IF loading[l].keep THEN draft.text ELSE loading[l].built,
               listed |-> loading[l].built.incident_count > 0, loaded |-> TRUE]
  /\ loading' = [loading EXCEPT ![l] = NotLoading]

CannotLoad(l) ==
  /\ ~ located /\ loading[l].at = "asked"
  /\ draft' = [draft EXCEPT !.loaded = TRUE]
  /\ loading' = [loading EXCEPT ![l] = NotLoading]

Waits == \A l \in Load : loading[l].at = "none"

PersonTypes ==
  /\ draft.loaded /\ draft.generated # Blank
  /\ draft' = [draft EXCEPT !.text = Theirs]
  /\ UNCHANGED loading

\* "Undo my edits"
Restore ==
  /\ draft.loaded /\ edited
  /\ draft' = [draft EXCEPT !.text = draft.generated]
  /\ UNCHANGED loading

\* "Forget what was recorded": the file, then the draft, then a reading
Forget(l) ==
  /\ draft.listed /\ loading[l].at = "none"
  /\ draft' = [NoDraft EXCEPT !.listed = draft.listed]
  /\ loading' = [loading EXCEPT ![l] = [NotLoading EXCEPT !.at = "asked"]]

IncidentsInit ==
  /\ located \in BOOLEAN /\ log = << >> /\ written = << >> /\ temp = None
  /\ writer = [w \in Writer |-> AtRest] /\ raced = FALSE
  /\ draft = NoDraft /\ loading = [l \in Load |-> NotLoading]
=============================================================================
