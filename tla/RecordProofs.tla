---------------------------- MODULE RecordProofs ----------------------------
(* Proofs about the two parts whose records are read long after the event:  *)
(* the receipt the setup program leaves (Setup), which says what an         *)
(* uninstallation may take away, and the history and the exit code of a     *)
(* command run by the outlaw (Outlaw). Neither part has to do with the      *)
(* other: the first half reads Setup alone, the second Outlaw alone.        *)
EXTENDS Setup, Outlaw, SequenceTheorems, TLAPS

-----------------------------------------------------------------------------
(* Setup: whatever is ticked, however often it is run, and wherever a run   *)
(* fails or is cut off, the program under its name is whole and the receipt *)
(* is true.                                                                 *)

(* Once the program is placed, the run goes through these.                  *)
Placed == {"desktop", "window", "linking", "pathing", "terminal", "entry", "model",
           "recording", "finished"}

(* Until the first convenience, only what is fetched is on the receipt.     *)
Fetched == stage \in {"desktop", "window", "linking"} => steps \subseteq {"program", "bundle", "window"}

(* While a job is under way there are choices, and from the moment the file *)
(* was written until it is renamed the staged file is the one chosen.  No   *)
(* job is under way on the pages it is started from and ended on.           *)
Staged ==
  /\ stage # "off" => choices \in SetupChoices
  /\ stage \in {"retiring", "renaming"} => program.incoming = choices.release
  /\ page \in {"welcome", "choose"} => stage = "off"
  /\ page = "done" => stage \in {"off", "finished", "failed"}

(* What the receipt in memory says so far is true.                          *)
StepsAreTrue ==
  stage \in Placed =>
    /\ program.name = choices.release
    /\ "bundle" \in steps => choices.release \in bundles
    /\ steps \ ({"program", "bundle"} \cup Believed) \subseteq world
    /\ "model" \in steps => "Ollama" \in world

Before == stage \in {"sums", "program", "writing", "retiring", "renaming"} => steps = {}

Written == stage = "finished" => receipt = [version |-> choices.release, steps |-> steps]

IInv ==
  SetupTypeOK /\ Staged /\ WholeProgram /\ StepsAreTrue /\ Before /\ Fetched /\ Written

LEMMA InitHolds == SetupInit => IInv
<1> SUFFICES ASSUME SetupInit PROVE IInv
  OBVIOUS
<1> USE SetupAssumption DEF SetupInit
<1>1. SetupTypeOK
  <2>1. program \in Slot
    BY DEF Slot, Content
  <2>2. world \subseteq Extra
    BY DEF Extra
  <2>3. QED
    BY <2>1, <2>2 DEF SetupTypeOK, Stage
<1>2. Staged /\ StepsAreTrue /\ Before /\ Fetched /\ Written
  BY DEF Staged, StepsAreTrue, Before, Fetched, Written, Placed
<1>3. WholeProgram
  BY DEF WholeProgram
<1>4. QED
  BY <1>1, <1>2, <1>3 DEF IInv

(* The pages: nothing of the machine changes, and a new run starts with a   *)
(* fresh receipt.                                                           *)
LEMMA PagesKeep == IInv /\ Pages => IInv'
<1> SUFFICES ASSUME IInv, Pages PROVE IInv'
  OBVIOUS
<1> USE DEF IInv, SetupTypeOK, Staged, WholeProgram, StepsAreTrue, Before, Fetched, Written, Placed, Stage,
        Believed, machine
<1>1. CASE ReleasesArrive
  BY <1>1 DEF ReleasesArrive
<1>2. CASE Continue
  BY <1>2 DEF Continue, Turn
<1>3. CASE Back
  BY <1>3 DEF Back, Turn
<1>4. CASE Drain
  BY <1>4 DEF Drain, Turn
<1>5. CASE Restart
  BY <1>5 DEF Restart
<1>6. ASSUME NEW c \in SetupChoices, Start(c) PROVE IInv'
  <2>1. SetupTypeOK'
    BY <1>6 DEF Start, Turn
  <2>2. Staged' /\ Before' /\ Fetched' /\ Written'
    BY <1>6 DEF Start, Turn
  <2>3. WholeProgram'
    BY <1>6 DEF Start, Turn
  <2>4. StepsAreTrue'
    BY <1>6 DEF Start, Turn
  <2>5. QED
    BY <2>1, <2>2, <2>3, <2>4 DEF IInv
<1>7. QED
  BY <1>1, <1>2, <1>3, <1>4, <1>5, <1>6 DEF Pages

(* Placing the program: what is moved into place is the staged file, which  *)
(* is whole by then.                                                        *)
LEMMA PlaceKeeps == IInv /\ (FetchSums \/ FetchProgram \/ Place) => IInv'
<1> SUFFICES ASSUME IInv, FetchSums \/ FetchProgram \/ Place PROVE IInv'
  OBVIOUS
<1> USE SetupAssumption
    DEF IInv, SetupTypeOK, Staged, WholeProgram, StepsAreTrue, Before, Fetched, Written, Placed, Stage,
        Believed, pages, Goes, Fails, Slot, Content, SetupChoices, Step
<1>1. CASE FetchSums
  BY <1>1 DEF FetchSums, Tidied
<1>2. CASE FetchProgram
  BY <1>2 DEF FetchProgram
<1>3. CASE Write
  BY <1>3 DEF Write
<1>4. CASE Retire
  <2>0. program' \in Slot
    <3>1. CASE program' = IF program.name = Absent THEN program
                           ELSE [program EXCEPT !.name = Absent, !.old = program.name]
      BY <3>1
    <3>2. ASSUME NEW n \in {Absent, program.name}, program' = [program EXCEPT !.name = n, !.old = Absent]
          PROVE program' \in Slot
      BY <3>2
    <3>3. QED
      BY <1>4, <3>1, <3>2 DEF Retire
  <2>1. SetupTypeOK'
    <3>1. stage' \in Stage
      BY <1>4 DEF Retire
    <3>2. QED
      BY <1>4, <2>0, <3>1 DEF Retire
  <2>2. /\ stage = "retiring" /\ stage' = "renaming"
        /\ program'.incoming = program.incoming /\ program'.name \in {Absent, program.name}
        /\ UNCHANGED <<bundles, world, steps, receipt, kept>> /\ UNCHANGED pages
    <3>1. program'.incoming = program.incoming /\ program'.name \in {Absent, program.name}
      <4>1. program \in Slot
        OBVIOUS
      <4>2. QED
        BY ONLY <1>4, <4>1 DEF Retire, Slot
    <3>2. QED
      BY ONLY <1>4, <3>1 DEF Retire, Goes
  <2>3. Staged' /\ Before' /\ Fetched' /\ Written' /\ StepsAreTrue'
    BY <2>2
  <2>4. WholeProgram'
    BY <2>2
  <2>5. QED
    BY <2>1, <2>2, <2>3, <2>4 DEF IInv
<1>5. CASE Rename
  BY <1>5 DEF Rename
<1>6. QED
  BY <1>1, <1>2, <1>3, <1>4, <1>5 DEF Place

(* A convenience is one that was made before it is written down, and what   *)
(* one that fails takes away is not on this run's receipt yet.              *)
LEMMA MakesKeep ==
  ASSUME IInv,
         stage \in {"linking", "pathing", "terminal", "entry"},
         stage' \in {"pathing", "terminal", "entry", "model", "recording"},
         world' \subseteq Extra, steps' \subseteq Step,
         steps' \ ({"program", "bundle"} \cup Believed) \subseteq world',
         "model" \in steps' => "Ollama" \in world',
         "bundle" \in steps' => "bundle" \in steps,
         UNCHANGED <<program, bundles, receipt, kept>>, UNCHANGED pages
  PROVE  IInv'
BY DEF IInv, SetupTypeOK, Staged, WholeProgram, StepsAreTrue, Before, Fetched, Written, Placed, Stage,
   Believed, pages

LEMMA ConveniencesKeep == IInv /\ Conveniences => IInv'
<1> SUFFICES ASSUME IInv, Conveniences PROVE IInv'
  OBVIOUS
<1>1. world \subseteq Extra /\ steps \subseteq Step
  BY DEF IInv, SetupTypeOK
<1>2. stage \in {"linking", "pathing", "terminal", "entry"}
        => /\ steps \ ({"program", "bundle"} \cup Believed) \subseteq world
           /\ "model" \in steps => "Ollama" \in world
  BY DEF IInv, StepsAreTrue, Placed
<1>3. CASE LinkIntoPath
  <2>1. stage = "linking" /\ stage' = "pathing" /\ "link" \notin steps
    BY <1>3 DEF LinkIntoPath, Goes, IInv, Fetched
  <2>2. QED
    BY <1>1, <1>2, <1>3, <2>1, MakesKeep DEF LinkIntoPath, Makes, Step, Extra
<1>4. CASE AddToPath
  <2>1. stage = "pathing" /\ stage' = "terminal"
    BY <1>4 DEF AddToPath, Goes
  <2>2. CASE AlreadyOnPath
    BY <1>1, <1>2, <2>1, <2>2, MakesKeep DEF AlreadyOnPath
  <2>3. CASE Makes(choices.wish.add_to_path, {"path"}, {world})
    BY <1>1, <1>2, <2>1, <2>3, MakesKeep DEF Makes, Step, Extra
  <2>4. QED
    BY <1>4, <2>2, <2>3 DEF AddToPath
<1>5. CASE TerminalShortcut
  <2>1. stage = "terminal" /\ stage' = "entry"
    BY <1>5 DEF TerminalShortcut, Goes
  <2>2. QED
    BY <1>1, <1>2, <1>5, <2>1, MakesKeep DEF TerminalShortcut, Makes, Step, Extra
<1>6. CASE WindowShortcut
  <2>1. stage = "entry" /\ stage' \in {"model", "recording"}
    BY <1>6 DEF WindowShortcut, Goes
  <2>2. QED
    BY <1>1, <1>2, <1>6, <2>1, MakesKeep DEF WindowShortcut, Makes, Step, Extra
<1>7. QED
  BY <1>3, <1>4, <1>5, <1>6 DEF Conveniences

(* The rest of the job: every step that is written down was taken.          *)
LEMMA RestKeeps == IInv /\ (FetchBundle \/ RunWindow \/ Conveniences \/ GetModel \/ WriteReceipt) => IInv'
<1> SUFFICES ASSUME IInv, FetchBundle \/ RunWindow \/ Conveniences \/ GetModel \/ WriteReceipt
             PROVE IInv'
  OBVIOUS
<1> USE SetupAssumption
    DEF IInv, SetupTypeOK, Staged, WholeProgram, StepsAreTrue, Before, Fetched, Written, Placed, Stage,
        Believed, pages, Goes, Fails, SetupChoices, Step, Extra
<1>1. CASE FetchBundle
  BY <1>1 DEF FetchBundle
<1>2. CASE RunWindow
  BY <1>2 DEF RunWindow, RunsWindowInstaller
<1>3. CASE Conveniences
  BY <1>3, ConveniencesKeep
<1>4. CASE GetModel
  <2>1. SetupTypeOK'
    BY <1>4 DEF GetModel
  <2>2. Staged' /\ Before' /\ Fetched' /\ Written'
    BY <1>4 DEF GetModel
  <2>3. WholeProgram'
    BY <1>4 DEF GetModel
  <2>4. StepsAreTrue'
    BY <1>4 DEF GetModel
  <2>5. QED
    BY <2>1, <2>2, <2>3, <2>4 DEF IInv
<1>5. CASE WriteReceipt
  <2>1. choices \in SetupChoices /\ choices.release \in Release
    BY <1>5 DEF WriteReceipt
  <2>2. receipt' \in Receipt \cup {Absent}
    <3>1. CASE receipt' = receipt
      BY <3>1
    <3>2. ASSUME receipt' = [version |-> choices.release, steps |-> steps]
          PROVE receipt' \in Receipt
      <4>1. steps \in SUBSET Step
        OBVIOUS
      <4>2. QED
        BY ONLY <4>1, <2>1, <3>2 DEF Receipt
    <3>3. QED
      BY <1>5, <3>1, <3>2 DEF WriteReceipt
  <2>3. SetupTypeOK'
    BY <1>5, <2>2 DEF WriteReceipt
  <2>4. Staged' /\ Before' /\ Fetched' /\ Written'
    BY <1>5 DEF WriteReceipt
  <2>5. WholeProgram' /\ StepsAreTrue'
    BY <1>5 DEF WriteReceipt
  <2>6. QED
    BY <2>3, <2>4, <2>5 DEF IInv
<1>6. QED
  BY <1>1, <1>2, <1>3, <1>4, <1>5

THEOREM Inductive == SetupSpec => []IInv
<1>1. IInv /\ [SetupNext]_setup => IInv'
  <2> SUFFICES ASSUME IInv, [SetupNext]_setup PROVE IInv'
    OBVIOUS
  <2>1. CASE SetupNext
    BY <2>1, PagesKeep, PlaceKeeps, RestKeeps DEF SetupNext, Job
  <2>2. CASE UNCHANGED setup
    BY <2>2 DEF setup, IInv, SetupTypeOK, Staged, WholeProgram, StepsAreTrue, Before, Fetched, Written, Placed, Believed
  <2>3. QED
    BY <2>1, <2>2
<1>2. QED
  BY InitHolds, <1>1, PTL DEF SetupSpec

\* Every reachable state of the installer has the types the model gives it.
THEOREM TypeCorrect == SetupSpec => []SetupTypeOK
<1>1. IInv => SetupTypeOK
  BY DEF IInv
<1>2. QED
  BY Inductive, <1>1, PTL

\* Under the program's name there is a whole program, and once a run put one
\* there it is there, whichever step of whichever run failed or was cut off.
THEOREM ProgramIsWhole == SetupSpec => []WholeProgram
<1>1. IInv => WholeProgram
  BY DEF IInv
<1>2. QED
  BY Inductive, <1>1, PTL

\* The receipt of a finished run names the version in place, and lists of the
\* installer's own making only what is on the machine, and a model only where
\* there is an Ollama; what another's installer left behind it does not say.
THEOREM ReceiptTrue == SetupSpec => []ReceiptIsTrue
<1>1. IInv => ReceiptIsTrue
  BY DEF IInv, StepsAreTrue, Written, Placed, Believed, ReceiptIsTrue
<1>2. QED
  BY Inductive, <1>1, PTL
-----------------------------------------------------------------------------
(* Outlaw: what is handed to a model was vouched for, the history holds the *)
(* newest of what was written, the exit code says what happened, and what a *)
(* person changed stays changed.                                            *)


(* What one sequence has in common with the longer one it is the end of.    *)
IsTail(s, t) ==
  /\ Len(s) <= Len(t)
  /\ \A i \in 1 .. Len(s) : s[i] = t[Len(t) - Len(s) + i]

Held == IF Len(written) < KEEP THEN Len(written) ELSE KEEP

LEMMA NewestLines ==
  ASSUME NEW s \in Seq(Line), NEW n \in Nat
  PROVE  /\ Newest(s, n) \in Seq(Line) /\ IsTail(Newest(s, n), s)
         /\ Len(Newest(s, n)) = IF Len(s) <= n THEN Len(s) ELSE n
<1> DEFINE m == Len(s) - n + 1
<1>0. Len(s) \in Nat
  OBVIOUS
<1>1. CASE Len(s) <= n
  <2>1. Newest(s, n) = s
    BY <1>1 DEF Newest
  <2>2. IsTail(s, s)
    BY DEF IsTail
  <2>3. QED
    BY <1>1, <2>1, <2>2
<1>2. CASE ~ Len(s) <= n
  <2>1. Newest(s, n) = SubSeq(s, m, Len(s))
    BY <1>2 DEF Newest
  <2>2. m \in 1 .. Len(s) + 1 /\ Len(s) \in m - 1 .. Len(s)
    BY <1>0, <1>2
  <2>3. /\ SubSeq(s, m, Len(s)) \in Seq(Line)
        /\ Len(SubSeq(s, m, Len(s))) = n
        /\ \A i \in 1 .. n : SubSeq(s, m, Len(s))[i] = s[m + i - 1]
    BY <2>2, SubSeqProperties
  <2>4. QED
    BY <1>0, <1>2, <2>1, <2>3 DEF IsTail
<1>3. QED
  BY <1>1, <1>2

LEMMA TailIsNewest ==
  ASSUME NEW s \in Seq(Line), NEW t \in Seq(Line), IsTail(s, t)
  PROVE  \E n \in 0 .. Len(t) : s = Newest(t, n)
<1>1. Len(s) \in 0 .. Len(t)
  BY DEF IsTail
<1>2. /\ Newest(t, Len(s)) \in Seq(Line) /\ Len(Newest(t, Len(s))) = Len(s)
      /\ IsTail(Newest(t, Len(s)), t)
  BY <1>1, NewestLines
<1>3. s = Newest(t, Len(s))
  BY <1>1, <1>2, SeqEqual DEF IsTail
<1>4. QED
  BY <1>1, <1>3

LEMMA TailOfTail ==
  ASSUME NEW s \in Seq(Line), NEW t \in Seq(Line), NEW u \in Seq(Line),
         IsTail(s, t), IsTail(t, u)
  PROVE  IsTail(s, u)
BY DEF IsTail

\* What a line becomes where a line cut short may be what it follows.
Continues(s) == s # << >> /\ Last(s).kind \in CutOff
Becomes(s, l) == IF Continues(s) THEN [l EXCEPT !.kind = Joined(Last(s).kind, @)] ELSE l

LEMMA JoinedKinds ==
  ASSUME NEW kind \in CutOff, NEW next \in IncidentKind \cup CutOff
  PROVE  /\ Joined(kind, next) \in CutOff \cup {"unreadable", "garbled"}
         /\ kind = "cut" => Joined(kind, next) \in NoText
         /\ next \in IncidentKind => Joined(kind, next) \notin CutOff
<1>1. kind = "cut" /\ next \in CutOff => Joined(kind, next) = "cut"
  BY DEF Joined
<1>2. kind = "cut" /\ next \notin CutOff => Joined(kind, next) = "garbled"
  BY DEF Joined
<1>3. kind # "cut" /\ next \in CutOff => Joined(kind, next) = next
  BY DEF Joined
<1>4. kind # "cut" /\ next \notin CutOff => Joined(kind, next) = "unreadable"
  BY DEF Joined
<1>5. QED
  BY <1>1, <1>2, <1>3, <1>4 DEF CutOff, NoText, IncidentKind

\* What is recorded, and what is left of it: a line of a kind to be appended.
Part == [by : Proc, kind : IncidentKind \cup CutOff]

LEMMA BecomesLine ==
  ASSUME NEW s \in Seq(Line), NEW l \in Part
  PROVE  /\ l \in Line /\ Becomes(s, l) \in Line /\ Becomes(s, l).by = l.by
         /\ Becomes(s, l).kind \in IncidentKind => Becomes(s, l) = l
         /\ l.kind \in IncidentKind => Becomes(s, l).kind \notin CutOff
         /\ Continues(s) /\ Last(s).kind \in NoText => Becomes(s, l).kind \in NoText
<1>0. l \in Line /\ l.kind \in IncidentKind \cup CutOff /\ IncidentKind \cap CutOff = {}
  BY DEF Line, Part, IncidentKind, CutOff
<1>1. CASE ~ Continues(s)
  BY <1>0, <1>1 DEF Becomes
<1>2. CASE Continues(s)
  <2> DEFINE k == Joined(Last(s).kind, l.kind)
  <2>1. /\ k \in CutOff \cup {"unreadable", "garbled"} /\ (Last(s).kind = "cut" => k \in NoText)
        /\ l.kind \in IncidentKind => k \notin CutOff
    BY <1>0, <1>2, JoinedKinds DEF Continues
  <2> HIDE DEF k
  <2>2. Becomes(s, l) = [l EXCEPT !.kind = k]
    BY <1>2 DEF Becomes, k
  <2>3. Becomes(s, l) \in Line /\ Becomes(s, l).by = l.by /\ Becomes(s, l).kind = k
    BY <1>0, <2>1, <2>2 DEF Line
  <2>4. Last(s).kind \in CutOff /\ Last(s).kind \in NoText => Last(s).kind = "cut"
    BY DEF CutOff, NoText
  <2>5. k \notin IncidentKind
    BY <2>1 DEF IncidentKind, CutOff
  <2>6. QED
    BY <1>0, <1>2, <2>1, <2>3, <2>4, <2>5 DEF Continues
<1>3. QED
  BY <1>1, <1>2

LEMMA AppendedLines ==
  ASSUME NEW s \in Seq(Line), NEW l \in Part
  PROVE  /\ Appended(s, l) \in Seq(Line)
         /\ Len(Appended(s, l)) = Len(s) + (IF Continues(s) THEN 0 ELSE 1)
         /\ Len(Appended(s, l)) > 0
         /\ \A i \in 1 .. Len(Appended(s, l)) - 1 : Appended(s, l)[i] = s[i]
         /\ Appended(s, l)[Len(Appended(s, l))] = Becomes(s, l)
<1> DEFINE c == Becomes(s, l)
<1>0. c \in Line /\ Len(s) \in Nat
  BY BecomesLine
<1> HIDE DEF c
<1>1. CASE Continues(s)
  <2>1. Appended(s, l) = Append(Front(s), c)
    BY <1>1 DEF Appended, Continues, Becomes, c
  <2>2. Len(s) \in Nat \ {0}
    BY <1>0, <1>1, EmptySeq DEF Continues
  <2>3. /\ Front(s) \in Seq(Line) /\ Len(Front(s)) = Len(s) - 1
        /\ \A i \in 1 .. Len(s) - 1 : Front(s)[i] = s[i]
    <3>1. \A i \in 1 .. Len(s) - 1 : s[i] \in Line
      BY <2>2
    <3> DEFINE n == Len(s) - 1
               f == SubSeq(s, 1, n)
    <3>2. n \in Nat /\ \A i \in 1 .. n : s[i] \in Line
      BY <2>2, <3>1
    <3> HIDE DEF n
    <3>4. /\ f \in Seq(Line) /\ Len(f) = IF 1 <= n THEN n - 1 + 1 ELSE 0
          /\ \A i \in 1 .. n - 1 + 1 : f[i] = s[1 + i - 1]
      BY ONLY <3>2, SubSeqProperties
    <3>5. f \in Seq(Line) /\ Len(f) = n /\ \A i \in 1 .. n : f[i] = s[i]
      BY <3>2, <3>4
    <3>3. QED
      BY <3>5 DEF Front, n
  <2>4. QED
    BY <1>0, <1>1, <2>1, <2>2, <2>3, AppendProperties DEF c
<1>2. CASE ~ Continues(s)
  <2>1. Appended(s, l) = Append(s, c) /\ c = l
    BY <1>2 DEF Appended, Continues, Becomes, c
  <2>2. QED
    BY <1>0, <1>2, <2>1, AppendProperties DEF c
<1>3. QED
  BY <1>1, <1>2

LEMMA AppendedTail ==
  ASSUME NEW s \in Seq(Line), NEW t \in Seq(Line), NEW l \in Part,
         IsTail(s, t), s = << >> => t = << >>
  PROVE  /\ IsTail(Appended(s, l), Appended(t, l))
         /\ Len(Appended(t, l)) - Len(t) = Len(Appended(s, l)) - Len(s)
         /\ Len(Appended(s, l)) >= Len(s) /\ Len(Appended(s, l)) > 0
<1>0. Len(s) \in Nat /\ Len(t) \in Nat /\ (s = << >> <=> Len(s) = 0) /\ (t = << >> <=> Len(t) = 0)
  BY EmptySeq
<1>1. s # << >> => t # << >> /\ Last(s) = Last(t)
  BY <1>0 DEF IsTail, Last
<1>2. Continues(s) <=> Continues(t)
  BY <1>0, <1>1 DEF Continues, IsTail
<1> DEFINE x == Appended(s, l)
           y == Appended(t, l)
           d == IF Continues(s) THEN 0 ELSE 1
<1>3. /\ x \in Seq(Line) /\ Len(x) = Len(s) + d
      /\ \A i \in 1 .. Len(x) - 1 : x[i] = s[i]
  BY <1>0, AppendedLines
<1>4. /\ y \in Seq(Line) /\ Len(y) = Len(t) + d
      /\ \A i \in 1 .. Len(y) - 1 : y[i] = t[i]
  BY <1>0, <1>2, AppendedLines
<1>5. x[Len(x)] = y[Len(y)]
  <2>1. x[Len(x)] = Becomes(s, l) /\ y[Len(y)] = Becomes(t, l)
    BY AppendedLines
  <2>2. Becomes(s, l) = Becomes(t, l)
    BY <1>1, <1>2 DEF Becomes, Continues
  <2>3. QED
    BY <2>1, <2>2
<1>6. d \in {0, 1} /\ Len(s) + d > 0
  BY <1>0 DEF Continues
<1>7. IsTail(x, y)
  <2> HIDE DEF x, y, d
  <2>1. Len(x) <= Len(y)
    BY <1>0, <1>3, <1>4, <1>6 DEF IsTail
  <2>2. ASSUME NEW i \in 1 .. Len(x) PROVE x[i] = y[Len(y) - Len(x) + i]
    <3>1. CASE i = Len(x)
      BY <1>0, <1>3, <1>4, <1>5, <1>6, <3>1
    <3>2. CASE i # Len(x)
      <4>1. i \in 1 .. Len(s) /\ i \in 1 .. Len(x) - 1
        BY <1>0, <1>3, <1>6, <3>2
      <4>2. Len(t) - Len(s) + i = Len(y) - Len(x) + i /\ Len(t) - Len(s) + i \in 1 .. Len(y) - 1
        BY <1>0, <1>3, <1>4, <1>6, <4>1, <3>2 DEF IsTail
      <4>3. x[i] = s[i] /\ s[i] = t[Len(t) - Len(s) + i]
        BY <1>3, <4>1 DEF IsTail
      <4>4. QED
        BY <1>4, <4>2, <4>3
    <3>3. QED
      BY <3>1, <3>2
  <2>3. QED
    BY <2>1, <2>2 DEF IsTail
<1>8. QED
  BY <1>0, <1>3, <1>4, <1>6, <1>7

-----------------------------------------------------------------------------
(* The record of what went wrong.                                          *)

WriterAt == {"rest", "append", "read", "create", "write", "rename"}

\* A line cut short is continued by the next: only the last can be one.
LastOnly(s) == \A i \in 1 .. Len(s) - 1 : s[i].kind # "half"

FileTyped ==
  /\ written \in Seq(Line) /\ LastOnly(written) /\ raced \in BOOLEAN
  /\ writer = [w \in Writer |-> [at |-> writer[w].at, lines |-> writer[w].lines]]
  /\ \A w \in Writer : writer[w].at \in WriterAt

\* The newest of what was written, and no fewer lines than are to be kept.
Keeps(lines) == lines \in Seq(Line) /\ IsTail(lines, written) /\ Len(lines) >= Held

InRewriting == {"create", "write", "rename"}

\* One writer at a time rewrites the file: what it holds is what the file is.
\* Who is past its own line has not left a half one behind it.
Single == \A v, w \in Writer : writer[v].at \in InRewriting /\ writer[w].at \in InRewriting => v = w
HeldBy(w) ==
  /\ writer[w].at \in {"create", "write"} => writer[w].lines = log
  /\ writer[w].at = "rename" /\ temp # None => Keeps(temp)
  /\ writer[w].at \notin {"rest", "append"} => ~ Continues(written)

History == ~ raced /\ Legible(written) => Keeps(log) /\ Single /\ \A w \in Writer : HeldBy(w)

LEMMA FileBegins == IncidentsInit => FileTyped /\ History
<1> SUFFICES ASSUME IncidentsInit PROVE FileTyped /\ History
  OBVIOUS
<1> USE IncidentsAssumption
<1>1. << >> \in Seq(Line) /\ Len(<< >>) = 0 /\ \A w \in Writer : writer[w] = [at |-> "rest", lines |-> << >>]
  BY EmptySeq DEF AtRest, IncidentsInit
<1>2. FileTyped
  <2>1. writer = [w \in Writer |-> [at |-> writer[w].at, lines |-> writer[w].lines]]
    BY <1>1 DEF IncidentsInit, AtRest
  <2>2. written = << >> /\ raced \in BOOLEAN /\ "rest" \in WriterAt
    BY DEF IncidentsInit, WriterAt
  <2>3. LastOnly(written)
    BY <1>1, <2>2 DEF LastOnly
  <2>4. QED
    BY <1>1, <2>1, <2>2, <2>3 DEF FileTyped
<1>3. IsTail(<< >>, << >>) /\ Len(<< >>) >= Held
  BY <1>1 DEF IsTail, Held, IncidentsInit
<1>4. QED
  BY <1>1, <1>2, <1>3 DEF IncidentsInit, History, Single, HeldBy, Keeps, InRewriting

\* At the file a process goes from one of these to the next.
FileStep(p) ==
  \/ \E w \in Parts(p) : BeginRecord(w) \/ Recording(w)
  \/ Abandon(p) \/ Clear

\* What is appended is appended to what was kept.
LEMMA AppendKeeps ==
  ASSUME FileTyped, NEW l \in Part, Keeps(log), log' = Appended(log, l), written' = Appended(written, l)
  PROVE  Keeps(log)'
<1> USE IncidentsAssumption
<1>1. log \in Seq(Line) /\ written \in Seq(Line)
  BY DEF FileTyped, Keeps
<1>2. Len(log) \in Nat /\ Len(written) \in Nat /\ (log = << >> <=> Len(log) = 0) /\ (written = << >> <=> Len(written) = 0)
  BY <1>1, EmptySeq
<1>3. log = << >> => written = << >>
  BY <1>2 DEF Keeps, Held
<1>4. log' \in Seq(Line) /\ written' \in Seq(Line)
  BY <1>1, AppendedLines
<1>5. /\ IsTail(log', written') /\ Len(written') - Len(written) = Len(log') - Len(log)
      /\ Len(log') >= Len(log) /\ Len(log') > 0
  BY <1>1, <1>3, AppendedTail DEF Keeps
<1>6. Len(log') \in Nat /\ Len(written') \in Nat
  BY <1>4
<1>7. Len(log') >= Held'
  BY <1>2, <1>5, <1>6 DEF Keeps, Held
<1>8. QED
  BY <1>4, <1>5, <1>7 DEF Keeps

\* What follows a line cut inside a character does not make it text again.
LEMMA AppendIsText ==
  ASSUME NEW s \in Seq(Line), NEW l \in Part
  PROVE  /\ Legible(Appended(s, l)) => Legible(s)
         /\ LastOnly(s) => LastOnly(Appended(s, l))
         /\ l.kind \in IncidentKind => ~ Continues(Appended(s, l))
<1> DEFINE y == Appended(s, l)
<1>01. /\ y \in Seq(Line) /\ Len(y) = Len(s) + (IF Continues(s) THEN 0 ELSE 1) /\ Len(y) > 0
       /\ \A i \in 1 .. Len(y) - 1 : y[i] = s[i]
       /\ y[Len(y)] = Becomes(s, l)
  BY AppendedLines
<1> HIDE DEF y
<1>02. DOMAIN s = 1 .. Len(s) /\ DOMAIN y = 1 .. Len(y)
  BY <1>01, LenProperties
<1>03. Len(s) \in Nat /\ Len(y) \in Nat /\ Len(y) > 0
  BY <1>01, LenProperties
<1>04. (Continues(s) => Len(y) = Len(s)) /\ (~ Continues(s) => Len(y) = Len(s) + 1)
  <2>1. CASE Continues(s)
    BY <1>01, <1>03, <2>1
  <2>2. CASE ~ Continues(s)
    BY <1>01, <1>03, <2>2
  <2>3. QED
    BY <2>1, <2>2
<1>05. /\ \A i \in 1 .. Len(y) - 1 : y[i] = s[i]
       /\ y[Len(y)] = Becomes(s, l)
  BY <1>01
<1>1. ASSUME NEW i \in 1 .. Len(s), s[i].kind \in NoText PROVE \E j \in 1 .. Len(y) : y[j].kind \in NoText
  <2>1. CASE i \in 1 .. Len(y) - 1
    BY <1>03, <1>05, <1>1, <2>1
  <2>2. CASE i \notin 1 .. Len(y) - 1
    <3>1. i = Len(s) /\ Len(y) = Len(s) /\ Continues(s)
      BY <1>03, <1>04, <2>2
    <3>2. Last(s).kind \in NoText
      BY <1>1, <3>1 DEF Last
    <3>3. Becomes(s, l).kind \in NoText
      BY <3>1, <3>2, BecomesLine
    <3>4. QED
      BY <1>03, <1>05, <3>3
  <2>3. QED
    BY <2>1, <2>2
<1>2. Legible(y) => Legible(s)
  BY <1>02, <1>1 DEF Legible
<1>3. ASSUME LastOnly(s), NEW i \in 1 .. Len(y) - 1 PROVE y[i].kind # "half"
  <2>1. CASE i \in 1 .. Len(s) - 1
    BY <1>03, <1>05, <1>3, <2>1 DEF LastOnly
  <2>2. CASE i \notin 1 .. Len(s) - 1
    <3>1. i = Len(s) /\ ~ Continues(s) /\ Len(s) > 0
      BY <1>03, <1>04, <2>2
    <3>2. Last(s) = s[i] /\ s # << >>
      BY <1>03, <3>1, EmptySeq DEF Last
    <3>3. QED
      BY <1>03, <1>05, <3>1, <3>2 DEF Continues, CutOff
  <2>3. QED
    BY <2>1, <2>2
<1>4. l.kind \in IncidentKind => y[Len(y)].kind \notin CutOff
  BY <1>05, BecomesLine
<1>5. QED
  BY <1>2, <1>3, <1>4 DEF LastOnly, Continues, Last, y

\* A history nobody has cut into is read as it stands.
LEMMA ReadsAll ==
  ASSUME NEW s \in Seq(Line), NEW t \in Seq(Line), IsTail(s, t), Legible(t), LastOnly(t), ~ Continues(t)
  PROVE  ReadFrom(s) = s
<1>0. Len(s) \in Nat /\ Len(t) \in Nat /\ DOMAIN s = 1 .. Len(s) /\ DOMAIN t = 1 .. Len(t) /\ Len(s) <= Len(t)
  BY LenProperties DEF IsTail
<1>1. ASSUME NEW i \in DOMAIN s PROVE s[i].kind \notin NoText /\ s[i].kind # "half" /\ s[i] \in Line
  <2> DEFINE j == Len(t) - Len(s) + i
  <2>1. j \in 1 .. Len(t) /\ s[i] = t[j] /\ s[i] \in Line
    BY <1>0 DEF IsTail
  <2>2. t[j].kind \notin NoText
    BY <1>0, <2>1 DEF Legible
  <2>3. CASE j \in 1 .. Len(t) - 1
    BY <2>1, <2>2, <2>3 DEF LastOnly
  <2>4. CASE j \notin 1 .. Len(t) - 1
    <3>1. j = Len(t) /\ t # << >> /\ Last(t) = t[j]
      BY <1>0, <2>1, <2>4, EmptySeq DEF Last
    <3>2. QED
      BY <2>1, <2>2, <3>1 DEF Continues, CutOff
  <2>5. QED
    BY <2>3, <2>4
<1>2. {i \in DOMAIN s : s[i].kind \in NoText} = {}
  BY <1>1
<1>3. ReadFrom(s) = [i \in 1 .. Len(s) |-> Whole(s[i])]
  BY <1>2 DEF ReadFrom
<1>4. \A i \in 1 .. Len(s) : Whole(s[i]) = s[i]
  BY <1>0, <1>1 DEF Whole, Line
<1>5. ReadFrom(s) = [i \in 1 .. Len(s) |-> s[i]]
  BY <1>3, <1>4
<1>6. QED
  BY <1>0, <1>5

\* Trimming keeps as many as are to be kept.
LEMMA TrimKeeps ==
  ASSUME FileTyped, Keeps(log)
  PROVE  Keeps(Newest(log, KEEP))
<1> USE IncidentsAssumption
<1>1. log \in Seq(Line) /\ written \in Seq(Line) /\ Len(log) \in Nat /\ Len(written) \in Nat
  BY DEF FileTyped, Keeps
<1>2. /\ Newest(log, KEEP) \in Seq(Line) /\ IsTail(Newest(log, KEEP), log)
      /\ Len(Newest(log, KEEP)) = IF Len(log) <= KEEP THEN Len(log) ELSE KEEP
  BY <1>1, NewestLines
<1>3. IsTail(Newest(log, KEEP), written)
  BY <1>1, <1>2, TailOfTail DEF Keeps
<1>4. QED
  BY <1>1, <1>2, <1>3 DEF Keeps, Held

\* What every step does to one writer, and to no other.
LEMMA WriterMoves ==
  ASSUME FileTyped, NEW w \in Writer, NEW a \in WriterAt, NEW lines,
         writer' = [writer EXCEPT ![w] = [at |-> a, lines |-> lines]]
  PROVE  /\ writer' = [v \in Writer |-> [at |-> writer'[v].at, lines |-> writer'[v].lines]]
         /\ \A v \in Writer : writer'[v].at \in WriterAt
         /\ writer'[w].at = a /\ writer'[w].lines = lines
         /\ \A v \in Writer \ {w} : writer'[v] = writer[v]
BY DEF FileTyped

LEMMA WriterGoes ==
  ASSUME FileTyped, NEW w \in Writer, NEW a,
         writer' = [writer EXCEPT ![w].at = a]
  PROVE  writer' = [writer EXCEPT ![w] = [at |-> a, lines |-> writer[w].lines]]
<1>1. writer[w] = [at |-> writer[w].at, lines |-> writer[w].lines]
  BY DEF FileTyped
<1>2. [writer[w] EXCEPT !.at = a] = [at |-> a, lines |-> writer[w].lines]
  BY <1>1
<1>3. QED
  BY <1>2

LEMMA Recorded == \A w \in Writer : RecordOf(w) \in Part /\ RecordOf(w).kind \in IncidentKind /\ RecordOf(w).by = w[1]
BY DEF RecordOf, Part, Writer

\* A line, or a piece of one, is appended while nobody is rewriting the file.
LEMMA AppendedOn ==
  ASSUME FileTyped, History, NEW l \in Part, log' = Appended(log, l), written' = Appended(written, l)
  PROVE  /\ written' \in Seq(Line) /\ LastOnly(written)'
         /\ Legible(written)' => Legible(written)
         /\ ~ raced /\ Legible(written)' => Keeps(log)'
         /\ l.kind \in IncidentKind => ~ Continues(written)'
<1>1. written \in Seq(Line) /\ LastOnly(written)
  BY DEF FileTyped
<1>2. /\ Appended(written, l) \in Seq(Line) /\ LastOnly(Appended(written, l))
      /\ Legible(Appended(written, l)) => Legible(written)
      /\ l.kind \in IncidentKind => ~ Continues(Appended(written, l))
  BY <1>1, AppendedLines, AppendIsText
<1>3. Legible(written') => Legible(written)
  BY <1>2
<1>4. ~ raced /\ Legible(written) => Keeps(log)
  BY DEF History
<1>5. Keeps(log) => Keeps(log)'
  BY AppendKeeps
<1>6. QED
  BY <1>2, <1>3, <1>4, <1>5

LEMMA CutKeeps ==
  ASSUME FileTyped, History, NEW w \in Writer, CutShort(w)
  PROVE  /\ written' \in Seq(Line) /\ LastOnly(written)' /\ raced' \in BOOLEAN
         /\ ~ raced' /\ Legible(written)' => Keeps(log)' /\ \A v \in Writer \ {w} : writer[v].at = "rest"
<1>1. PICK kind \in CutOff : LET part == [RecordOf(w) EXCEPT !.kind = kind]
                             IN  log' = Appended(log, part) /\ written' = Appended(written, part)
  BY DEF CutShort
<1> DEFINE part == [RecordOf(w) EXCEPT !.kind = kind]
<1>2. part \in Part
  BY Recorded DEF Part
<1>3. log' = Appended(log, part) /\ written' = Appended(written, part)
  BY <1>1
<1> HIDE DEF part
<1>4. raced' = (raced \/ Writing(Writer \ {w}))
  BY DEF CutShort
<1>5. ~ raced' => ~ raced /\ \A v \in Writer \ {w} : writer[v].at = "rest"
  BY <1>4 DEF Writing
<1>6. raced' \in BOOLEAN
  BY <1>4
<1>7. QED
  BY <1>2, <1>3, <1>5, <1>6, AppendedOn

\* One writer leaves off, or all those of a process.
LEMMA LeavingKeeps ==
  ASSUME FileTyped, History, NEW W \in SUBSET Writer,
         writer' = [w \in Writer |-> IF w \in W THEN AtRest ELSE writer[w]],
         (\E w \in W : CutShort(w)) \/ UNCHANGED <<log, written, raced>>,
         LeavesBehind(W)
  PROVE  FileTyped' /\ History'
<1>0. AtRest = [at |-> "rest", lines |-> << >>] /\ "rest" \in WriterAt
  BY DEF AtRest, WriterAt
<1>1. \A w \in Writer : writer'[w] = IF w \in W THEN AtRest ELSE writer[w]
  OBVIOUS
<1>2. /\ writer' = [v \in Writer |-> [at |-> writer'[v].at, lines |-> writer'[v].lines]]
      /\ \A v \in Writer : writer'[v].at \in WriterAt
  BY <1>0, <1>1 DEF FileTyped
<1>3. CASE \E w \in W : CutShort(w)
  <2>1. PICK w \in W : CutShort(w)
    BY <1>3
  <2>2. /\ written' \in Seq(Line) /\ LastOnly(written)' /\ raced' \in BOOLEAN
        /\ ~ raced' /\ Legible(written)' => Keeps(log)' /\ \A v \in Writer \ {w} : writer[v].at = "rest"
    BY <2>1, CutKeeps
  <2>3. ~ raced' /\ Legible(written)' => \A v \in Writer : writer'[v].at = "rest"
    BY <1>0, <1>1, <2>1, <2>2
  <2>4. QED
    BY <1>2, <2>2, <2>3 DEF FileTyped, History, Single, HeldBy, InRewriting
<1>4. CASE UNCHANGED <<log, written, raced>>
  <2>1. \A w \in Writer : writer'[w] = writer[w] \/ writer'[w].at = "rest"
    BY <1>0, <1>1
  <2>2. FileTyped'
    BY <1>2, <1>4 DEF FileTyped
  <2>3. \A w \in Writer : writer'[w].at \in InRewriting => temp' = temp
    BY <1>0, <1>1 DEF LeavesBehind, Rewriting, InRewriting
  <2>4. Held' = Held
    BY <1>4 DEF Held
  <2>5. ASSUME ~ raced', Legible(written)'
        PROVE  /\ Keeps(log)'
               /\ \A v, w \in Writer : writer'[v].at \in InRewriting /\ writer'[w].at \in InRewriting => v = w
               /\ \A w \in Writer :
                    /\ writer'[w].at \in {"create", "write"} => writer'[w].lines = log'
                    /\ writer'[w].at = "rename" /\ temp' # None => Keeps(temp)'
                    /\ writer'[w].at \notin {"rest", "append"} => ~ Continues(written')
    <3>1. ~ raced /\ Legible(written)
      BY <1>4, <2>5
    <3>2. /\ Keeps(log)
          /\ \A v, w \in Writer : writer[v].at \in InRewriting /\ writer[w].at \in InRewriting => v = w
          /\ \A w \in Writer :
               /\ writer[w].at \in {"create", "write"} => writer[w].lines = log
               /\ writer[w].at = "rename" /\ temp # None => Keeps(temp)
               /\ writer[w].at \notin {"rest", "append"} => ~ Continues(written)
      BY <3>1 DEF History, Single, HeldBy
    <3>3. Keeps(log)'
      BY <1>4, <2>4, <3>2 DEF Keeps
    <3>4. ASSUME NEW w \in Writer, writer'[w].at = "rename", temp' # None PROVE Keeps(temp)'
      <4>1. writer'[w] = writer[w] /\ temp' = temp
        BY <2>1, <2>3, <3>4 DEF InRewriting
      <4>2. Keeps(temp)
        BY <3>2, <3>4, <4>1
      <4>3. QED
        BY <1>4, <2>4, <4>1, <4>2 DEF Keeps
    <3>5. QED
      BY <1>4, <2>1, <3>2, <3>3, <3>4 DEF InRewriting
  <2>6. QED
    BY <2>2, <2>5 DEF History, Single, HeldBy
<1>5. QED
  BY <1>3, <1>4

LEMMA WriterKeeps ==
  ASSUME FileTyped, History, NEW w \in Writer, BeginRecord(w) \/ Recording(w) PROVE FileTyped' /\ History'
<1> USE IncidentsAssumption
<1> DEFINE x == writer[w]
<1>0. /\ x.at \in WriterAt /\ written \in Seq(Line) /\ LastOnly(written) /\ raced \in BOOLEAN
      /\ {"rest", "append", "read", "create", "write", "rename"} = WriterAt
  BY DEF FileTyped, WriterAt
<1>1. ~ raced /\ Legible(written) => Keeps(log) /\ Single /\ \A v \in Writer : HeldBy(v)
  BY DEF History
<1>2. ASSUME NEW a \in WriterAt, NEW lines, writer' = [writer EXCEPT ![w] = [at |-> a, lines |-> lines]],
             written' \in Seq(Line), LastOnly(written)', raced' \in BOOLEAN,
             ~ raced' /\ Legible(written)' =>
               /\ ~ raced /\ Legible(written) /\ Keeps(log)'
               /\ a \in InRewriting => \A v \in Writer \ {w} : writer[v].at \notin InRewriting
               /\ a \in {"create", "write"} => lines = log'
               /\ a = "rename" /\ temp' # None => Keeps(temp)'
               /\ a \notin {"rest", "append"} => ~ Continues(written')
               /\ (UNCHANGED <<log, written, temp>>) \/ (\A v \in Writer \ {w} : writer[v].at \notin InRewriting)
               /\ Continues(written') => written' = written
      PROVE  FileTyped' /\ History'
  <2>1. /\ writer' = [v \in Writer |-> [at |-> writer'[v].at, lines |-> writer'[v].lines]]
        /\ \A v \in Writer : writer'[v].at \in WriterAt
        /\ writer'[w].at = a /\ writer'[w].lines = lines
        /\ \A v \in Writer \ {w} : writer'[v] = writer[v]
    BY <1>2, WriterMoves
  <2>2. FileTyped'
    BY <1>2, <2>1 DEF FileTyped
  <2>3. ASSUME ~ raced', Legible(written)' PROVE Keeps(log)' /\ Single' /\ \A v \in Writer : HeldBy(v)'
    <3>1. Keeps(log)' /\ Keeps(log) /\ Single /\ \A v \in Writer : HeldBy(v)
      BY <1>1, <1>2, <2>3
    <3>2. Single'
      <4> SUFFICES ASSUME NEW u \in Writer, NEW v \in Writer, writer'[u].at \in InRewriting, writer'[v].at \in InRewriting
                   PROVE  u = v
        BY DEF Single
      <4>1. CASE u # w /\ v # w
        BY <2>1, <3>1, <4>1 DEF Single
      <4>2. CASE u = w \/ v = w
        BY <1>2, <2>1, <2>3, <4>2
      <4>3. QED
        BY <4>1, <4>2
    <3>3. HeldBy(w)'
      BY <1>2, <2>1, <2>3 DEF HeldBy
    <3>4. ASSUME NEW v \in Writer \ {w} PROVE HeldBy(v)'
      <4>1. writer'[v] = writer[v] /\ HeldBy(v)
        BY <2>1, <3>1, <3>4
      <4>2. CASE UNCHANGED <<log, written, temp>>
        BY <4>1, <4>2 DEF HeldBy, Keeps, Held
      <4>3. CASE writer[v].at \notin InRewriting
        BY <1>2, <2>3, <4>1, <4>3 DEF HeldBy, InRewriting
      <4>4. QED
        BY <1>2, <2>3, <3>4, <4>2, <4>3
    <3>5. QED
      BY <3>1, <3>2, <3>3, <3>4
  <2>4. QED
    BY <2>2, <2>3 DEF History
<1>3. ASSUME UNCHANGED <<log, written>> PROVE Held' = Held /\ (~ raced /\ Legible(written) => Keeps(log)')
  BY <1>1, <1>3 DEF Held, Keeps
<1>4. CASE BeginRecord(w)
  <2>1. writer' = [writer EXCEPT ![w] = [at |-> "append", lines |-> x.lines]] /\ UNCHANGED <<log, written, temp, raced>>
    BY <1>4, WriterGoes DEF BeginRecord
  <2>2. QED
    BY <1>0, <1>2, <1>3, <2>1 DEF InRewriting
<1>5. CASE AppendLine(w)
  <2>1. /\ writer' = [writer EXCEPT ![w] = [at |-> "read", lines |-> x.lines]] /\ x.at = "append"
        /\ log' = Appended(log, RecordOf(w)) /\ written' = Appended(written, RecordOf(w))
        /\ raced' = (raced \/ Rewriting(Writer \ {w})) /\ UNCHANGED temp
    BY <1>5, WriterGoes DEF AppendLine
  <2>2. /\ written' \in Seq(Line) /\ LastOnly(written)' /\ raced' \in BOOLEAN
        /\ Legible(written)' => Legible(written)
        /\ ~ raced /\ Legible(written)' => Keeps(log)'
        /\ ~ Continues(written)'
    BY <1>0, <2>1, Recorded, AppendedOn
  <2>3. ~ raced' => ~ raced /\ \A v \in Writer \ {w} : writer[v].at \notin InRewriting
    BY <2>1 DEF Rewriting, InRewriting
  <2>4. QED
    BY <1>0, <1>2, <2>1, <2>2, <2>3 DEF InRewriting
<1>6. CASE CannotRecord(w)
  <2>1. writer' = [v \in Writer |-> IF v \in {w} THEN AtRest ELSE writer[v]]
    BY <1>6 DEF CannotRecord, FileTyped
  <2>2. QED
    BY <1>6, <2>1, LeavingKeeps DEF CannotRecord
<1>7. CASE ReadLines(w)
  <2>1. x.at = "read" /\ UNCHANGED <<log, written, temp>>
    BY <1>7 DEF ReadLines
  <2>2. CASE writer' = [writer EXCEPT ![w] = AtRest] /\ UNCHANGED raced
    BY <1>0, <1>2, <1>3, <2>1, <2>2 DEF InRewriting, AtRest
  <2>3. CASE /\ writer' = [writer EXCEPT ![w] = [at |-> "create", lines |-> ReadFrom(log)]]
             /\ raced' = (raced \/ Rewriting(Writer \ {w}))
    <3>1. ~ raced' => ~ raced /\ \A v \in Writer \ {w} : writer[v].at \notin InRewriting
      BY <2>3 DEF Rewriting, InRewriting
    <3>2. raced' \in BOOLEAN
      BY <2>3
    <3>3. ~ raced /\ Legible(written) => ReadFrom(log) = log /\ ~ Continues(written)
      <4> SUFFICES ASSUME ~ raced, Legible(written) PROVE ReadFrom(log) = log /\ ~ Continues(written)
        OBVIOUS
      <4>1. ~ Continues(written)
        BY <1>1, <2>1 DEF HeldBy
      <4>2. log \in Seq(Line) /\ IsTail(log, written)
        BY <1>1 DEF Keeps
      <4>3. QED
        BY <1>0, <4>1, <4>2, ReadsAll
    <3>4. QED
      BY <1>0, <1>2, <1>3, <2>1, <2>3, <3>1, <3>2, <3>3 DEF InRewriting
  <2>4. QED
    BY <1>7, <2>2, <2>3 DEF ReadLines
<1>8. CASE CreateTemporary(w)
  <2>1. /\ writer' = [writer EXCEPT ![w] = [at |-> "write", lines |-> x.lines]] /\ x.at = "create"
        /\ UNCHANGED <<log, written, raced>>
    BY <1>8, WriterGoes DEF CreateTemporary
  <2>2. ~ raced /\ Legible(written) =>
          x.lines = log /\ ~ Continues(written) /\ \A v \in Writer \ {w} : writer[v].at \notin InRewriting
    BY <1>1, <2>1 DEF HeldBy, Single, InRewriting
  <2>3. QED
    BY <1>0, <1>2, <1>3, <2>1, <2>2
<1>9. CASE WriteTemporary(w)
  <2> DEFINE newest == Newest(x.lines, KEEP)
  <2>1. /\ writer' = [writer EXCEPT ![w] = [at |-> "rename", lines |-> << >>]] /\ x.at = "write"
        /\ UNCHANGED <<written, raced>>
        /\ (log' = newest /\ temp = None /\ temp' = None) \/ (temp' = newest /\ log' = log)
    BY <1>9 DEF WriteTemporary
  <2>2. ~ raced /\ Legible(written) =>
          x.lines = log /\ ~ Continues(written) /\ \A v \in Writer \ {w} : writer[v].at \notin InRewriting
    BY <1>1, <2>1 DEF HeldBy, Single, InRewriting
  <2>3. ~ raced /\ Legible(written) => Keeps(newest) /\ Keeps(log)
    BY <1>1, <2>2, TrimKeeps
  <2> HIDE DEF newest
  <2>4. ~ raced /\ Legible(written) => Keeps(log)' /\ (temp' # None => Keeps(temp)')
    BY <2>1, <2>3 DEF Keeps, Held
  <2>5. QED
    BY <1>0, <1>2, <2>1, <2>2, <2>4
<1>10. CASE RenameTemporary(w)
  <2>1. /\ writer' = [writer EXCEPT ![w] = [at |-> "rest", lines |-> << >>]] /\ x.at = "rename"
        /\ UNCHANGED <<written, raced>>
        /\ (UNCHANGED <<log, temp>> \/ (temp # None /\ log' = temp /\ temp' = None))
    BY <1>10 DEF RenameTemporary, AtRest
  <2>2. ~ raced /\ Legible(written) => \A v \in Writer \ {w} : writer[v].at \notin InRewriting
    BY <1>1, <2>1 DEF Single, InRewriting
  <2>3. ~ raced /\ Legible(written) => Keeps(log)'
    BY <1>1, <2>1 DEF Keeps, Held, HeldBy
  <2>4. QED
    BY <1>0, <1>2, <2>1, <2>2, <2>3 DEF InRewriting
<1>11. QED
  BY <1>4, <1>5, <1>6, <1>7, <1>8, <1>9, <1>10 DEF Recording

LEMMA FileKeeps ==
  ASSUME FileTyped, History, NEW p \in Proc, FileStep(p) PROVE FileTyped' /\ History'
<1>1. Parts(p) \in SUBSET Writer
  BY DEF Parts, Writer
<1>2. ASSUME NEW w \in Parts(p), BeginRecord(w) \/ Recording(w) PROVE FileTyped' /\ History'
  BY <1>1, <1>2, WriterKeeps
<1>3. CASE Abandon(p)
  BY <1>1, <1>3, LeavingKeeps DEF Abandon
<1>4. CASE Clear
  <2>1. /\ log' = << >> /\ written' = << >> /\ UNCHANGED <<temp, writer>> /\ << >> \in Seq(Line) /\ Len(<< >>) = 0
        /\ raced' = Rewriting(Writer)
    BY <1>4, EmptySeq DEF Clear
  <2>2. raced' \in BOOLEAN /\ (~ raced' => \A w \in Writer : writer'[w].at \notin InRewriting)
    BY <2>1 DEF Rewriting, InRewriting
  <2>3. LastOnly(written)' /\ ~ Continues(written)'
    BY <2>1 DEF LastOnly, Continues
  <2>4. Keeps(log)'
    BY <2>1, IncidentsAssumption DEF Keeps, IsTail, Held
  <2>5. FileTyped'
    BY <2>1, <2>2, <2>3 DEF FileTyped
  <2>6. QED
    BY <2>2, <2>3, <2>4, <2>5 DEF History, Single, HeldBy, InRewriting
<1>5. QED
  BY <1>2, <1>3, <1>4 DEF FileStep

\* There is an error of this process in the file, or to come.
Errs(p) ==
  \/ writer[<<p, "error">>].at # "rest"
  \/ \E i \in DOMAIN written : written[i].by = p /\ written[i].kind = "error"

LEMMA AppendedErr ==
  ASSUME NEW s \in Seq(Line), NEW l \in Part, NEW i \in DOMAIN Appended(s, l),
         Appended(s, l)[i].kind = "error"
  PROVE  Appended(s, l)[i] = l \/ (i \in DOMAIN s /\ Appended(s, l)[i] = s[i])
<1> DEFINE y == Appended(s, l)
<1>1. /\ y \in Seq(Line) /\ Len(y) = Len(s) + (IF Continues(s) THEN 0 ELSE 1) /\ Len(y) > 0
      /\ \A j \in 1 .. Len(y) - 1 : y[j] = s[j]
      /\ y[Len(y)] = Becomes(s, l)
  BY AppendedLines
<1>2. Becomes(s, l).kind = "error" => Becomes(s, l) = l
  BY BecomesLine DEF IncidentKind
<1> HIDE DEF y
<1>3. DOMAIN s = 1 .. Len(s) /\ DOMAIN y = 1 .. Len(y) /\ Len(s) \in Nat /\ Len(y) \in Nat
  BY <1>1, LenProperties
<1>4. Len(y) - 1 <= Len(s)
  <2>1. CASE Continues(s)
    BY <1>1, <1>3, <2>1
  <2>2. CASE ~ Continues(s)
    BY <1>1, <1>3, <2>2
  <2>3. QED
    BY <2>1, <2>2
<1>5. i \in 1 .. Len(y) /\ y[i].kind = "error"
  BY <1>3 DEF y
<1>6. CASE i = Len(y)
  BY <1>1, <1>2, <1>5, <1>6 DEF y
<1>7. CASE i # Len(y)
  <2>1. i \in 1 .. Len(y) - 1 /\ i \in 1 .. Len(s)
    BY <1>3, <1>4, <1>5, <1>7
  <2>2. QED
    BY <1>1, <1>3, <2>1 DEF y
<1>8. QED
  BY <1>6, <1>7

\* A step of this process at the file, and not the beginning of that record.
StepBut(p, e) ==
  \/ \E w \in Parts(p) : Recording(w) \/ (w # e /\ BeginRecord(w))
  \/ Abandon(p) \/ Clear

\* An error is on record only where one was begun.
LEMMA ErrsFrom ==
  ASSUME FileTyped, NEW q \in Proc, Errs(q)', NEW p \in Proc, StepBut(p, <<q, "error">>)
  PROVE  Errs(q)
<1> DEFINE e == <<q, "error">>
<1>0. e \in Writer /\ Parts(p) \subseteq Writer /\ written \in Seq(Line) /\ e[1] = q
  BY DEF Writer, Parts, IncidentKind, FileTyped
<1>1. CASE Clear
  BY <1>1 DEF Clear, Errs
<1>2. ASSUME NEW w \in Writer, CutShort(w), \A v \in Writer : writer'[v] = writer[v] \/ writer'[v].at = "rest"
      PROVE  Errs(q)
  <2>1. PICK kind \in CutOff : LET part == [RecordOf(w) EXCEPT !.kind = kind] IN written' = Appended(written, part)
    BY <1>2 DEF CutShort
  <2> DEFINE part == [RecordOf(w) EXCEPT !.kind = kind]
  <2>2. part \in Part /\ part.kind # "error"
    BY <1>2, Recorded DEF Part, CutOff
  <2>3. written' = Appended(written, part)
    BY <2>1
  <2> HIDE DEF part
  <2>4. \A i \in DOMAIN written' : written'[i].kind = "error" => i \in DOMAIN written /\ written'[i] = written[i]
    BY <1>0, <2>2, <2>3, AppendedErr
  <2>5. QED
    BY <1>0, <1>2, <2>4 DEF Errs
<1>3. ASSUME UNCHANGED written, writer'[e] = writer[e] \/ writer'[e].at = "rest" \/ writer[e].at # "rest" PROVE Errs(q)
  BY <1>3 DEF Errs
<1>4. ASSUME NEW W \in SUBSET Writer,
             writer' = [v \in Writer |-> IF v \in W THEN AtRest ELSE writer[v]],
             (\E v \in W : CutShort(v)) \/ UNCHANGED <<log, written, raced>>
      PROVE  Errs(q)
  <2>1. AtRest.at = "rest"
    BY DEF AtRest
  <2>2. \A v \in Writer : writer'[v] = writer[v] \/ writer'[v].at = "rest"
    BY <1>4, <2>1
  <2>3. QED
    BY <1>0, <1>2, <1>3, <1>4, <2>2
<1>5. CASE Abandon(p)
  BY <1>0, <1>4, <1>5 DEF Abandon
<1>6. ASSUME NEW w \in Parts(p), Recording(w) \/ (w # e /\ BeginRecord(w)) PROVE Errs(q)
  <2>0. w \in Writer /\ writer = [v \in Writer |-> writer[v]]
    BY <1>0 DEF FileTyped
  <2>1. CASE w # e /\ BeginRecord(w)
    BY <1>0, <1>3, <2>0, <2>1 DEF BeginRecord
  <2>2. CASE CannotRecord(w)
    <3>1. writer' = [v \in Writer |-> IF v \in {w} THEN AtRest ELSE writer[v]]
      BY <2>0, <2>2 DEF CannotRecord
    <3>2. QED
      BY <1>4, <2>0, <2>2, <3>1 DEF CannotRecord
  <2>3. CASE ReadLines(w) \/ CreateTemporary(w) \/ WriteTemporary(w) \/ RenameTemporary(w)
    <3>1. UNCHANGED written /\ writer[w].at # "rest"
      BY <2>3 DEF ReadLines, CreateTemporary, WriteTemporary, RenameTemporary
    <3>2. \A v \in Writer \ {w} : writer'[v] = writer[v]
      BY <2>0, <2>3 DEF ReadLines, CreateTemporary, WriteTemporary, RenameTemporary
    <3>3. QED
      BY <1>0, <1>3, <3>1, <3>2
  <2>4. CASE AppendLine(w)
    <3>1. /\ writer[w].at = "append" /\ written' = Appended(written, RecordOf(w))
          /\ \A v \in Writer \ {w} : writer'[v] = writer[v]
      BY <2>0, <2>4 DEF AppendLine
    <3>2. CASE w = e
      BY <3>1, <3>2 DEF Errs
    <3>3. CASE w # e
      <4>1. writer'[e] = writer[e]
        BY <1>0, <3>1, <3>3
      <4>2. ~ (RecordOf(w).by = q /\ RecordOf(w).kind = "error")
        BY <2>0, <3>3 DEF RecordOf, Writer
      <4>3. RecordOf(w) \in Part
        BY <2>0, Recorded
      <4>4. ASSUME NEW i \in DOMAIN written', written'[i].by = q, written'[i].kind = "error"
            PROVE  i \in DOMAIN written /\ written'[i] = written[i]
        BY <1>0, <3>1, <4>2, <4>3, <4>4, AppendedErr
      <4>5. QED
        BY <4>1, <4>4 DEF Errs
    <3>4. QED
      BY <3>2, <3>3
  <2>5. QED
    BY <1>6, <2>1, <2>2, <2>3, <2>4 DEF Recording
<1>7. QED
  BY <1>1, <1>5, <1>6 DEF StepBut

-----------------------------------------------------------------------------
(* The processes.                                                          *)

Outcome == Ending \cup {"none", "broke", "refused", "unheard", "not understood"}

May(p) == command(p) = "window" \/ (command(p) = "fix" /\ flag(p, "apply"))

\* What the self-test has found to be in order was so since the process began.
Vouched(p) ==
  /\ AtWork(p) => Thing \ broken \subseteq run[p].sound
  /\ run[p].at = "checking" /\ ~ run[p].failed =>
       \A i \in 1 .. run[p].checks : Checks[i] \in Needed => Checks[i] \in run[p].sound
  /\ run[p].at \in {"working", "fixing"} => command(p) # "boot"
  /\ run[p].at = "failed" => command(p) = "window"
  /\ run[p].at = "fixing" => command(p) \in {"fix", "window"}
  /\ run[p].at \in {"working", "fixing"} /\ May(p) /\ ~ run[p].waived => Needed \subseteq run[p].sound
  /\ run[p].changed => command(p) \in {"fix", "window"}
  /\ run[p].changed /\ ~ run[p].waived => Needed \subseteq run[p].sound
  /\ command(p) = "boot" /\ run[p].at = "done" /\ run[p].outcome = "fine" => Needed \subseteq run[p].sound

\* What its code will say, and of whom an error may be in the file.
Speaks(p) ==
  /\ AtWork(p) => run[p].worst = 0 /\ run[p].outcome = "none"
  /\ run[p].at \in {"done", "recording", "exited"} => command(p) # "window"
  /\ run[p].at = "done" =>
       /\ run[p].outcome \in Ending \cup {"broke", "refused"}
       /\ run[p].outcome = "fine" => run[p].worst < High
       /\ run[p].outcome = "something serious" => run[p].worst >= High
  /\ run[p].at = "recording" => run[p].code \in {1, 101} /\ run[p].outcome # "refused"
  /\ run[p].at = "exited" /\ run[p].outcome # "unheard" =>
       /\ run[p].code = 0 => run[p].worst < High /\ run[p].outcome = "fine"
       /\ run[p].code = 2 => run[p].worst >= High \/ run[p].outcome = "not understood"
  /\ Errs(p) =>
       \/ run[p].at \in {"recording", "gone"}
       \/ run[p].at = "exited" /\ run[p].code \notin {0, 2} /\ run[p].outcome # "refused"
       \/ run[p].at \in {"working", "fixing", "done", "exited"} /\ command(p) \in {"fix", "link", "window"}

Proper ==
  /\ run \in [Proc -> Run] /\ broken \subseteq Thing
  /\ \A p \in Proc : Vouched(p) /\ Speaks(p)
  /\ \A p, q \in Windows : p = q

LEMMA CheckOrder ==
  /\ Len(Checks) = 7
  /\ \A thing \in Thing : \E i \in 1 .. 7 : Checks[i] = thing
<1>1. /\ Len(Checks) = 7 /\ Checks[1] = "platform" /\ Checks[3] = "configuration"
      /\ Checks[4] = "runbooks" /\ Checks[5] = "store" /\ Checks[6] = "snapshots"
  BY DEF Checks
<1>2. QED
  BY <1>1 DEF Thing

LEMMA SetIs ==
  ASSUME NEW p \in Proc, NEW r \in Run, run \in [Proc -> Run], Set(p, r)
  PROVE  /\ run' \in [Proc -> Run] /\ \A q \in Proc \ {p} : run'[q] = run[q]
         /\ run'[p].at = r.at /\ run'[p].asked = r.asked /\ run'[p].sound = r.sound
         /\ run'[p].waived = r.waived /\ run'[p].worst = r.worst /\ run'[p].outcome = r.outcome
         /\ run'[p].changed = r.changed /\ run'[p].code = r.code
         /\ r.at = "checking" => run'[p] = r
<1> DEFINE x == IF r.at = "checking" THEN r ELSE [r EXCEPT !.checks = 0, !.failed = FALSE]
<1>1. /\ x \in Run /\ x.at = r.at /\ x.asked = r.asked /\ x.sound = r.sound
      /\ x.waived = r.waived /\ x.worst = r.worst /\ x.outcome = r.outcome
      /\ x.changed = r.changed /\ x.code = r.code
      /\ r.at = "checking" => x = r
  <2>1. CASE r.at = "checking"
    BY <2>1
  <2>2. CASE r.at # "checking"
    <3> DEFINE y == [r EXCEPT !.checks = 0, !.failed = FALSE]
    <3>1. y \in Run
      <4>1. 0 \in 0 .. 7
        OBVIOUS
      <4>2. QED
        BY <4>1 DEF Run
    <3>2. /\ y.at = r.at /\ y.asked = r.asked /\ y.sound = r.sound
          /\ y.waived = r.waived /\ y.worst = r.worst /\ y.outcome = r.outcome
          /\ y.changed = r.changed /\ y.code = r.code
      BY DEF Run
    <3>3. QED
      BY <2>2, <3>1, <3>2
  <2>3. QED
    BY <2>1, <2>2
<1>2. run' = [run EXCEPT ![p] = x]
  BY DEF Set
<1> HIDE DEF x
<1>3. QED
  BY <1>1, <1>2

\* A step of one process, seen by the others and by the windows.
LEMMA OthersKeep ==
  ASSUME Proper, FileTyped, NEW p \in Proc,
         run' \in [Proc -> Run], \A q \in Proc \ {p} : run'[q] = run[q],
         UNCHANGED <<located, broken>>, FileStep(p) \/ UNCHANGED file,
         Vouched(p)', Speaks(p)',
         p \in Windows' => p \in Windows \/ Windows = {}
  PROVE  Proper'
<1>1. ASSUME NEW q \in Proc \ {p} PROVE Vouched(q)' /\ Speaks(q)'
  <2>1. run'[q] = run[q] /\ Vouched(q) /\ Speaks(q)
    BY DEF Proper
  <2>2. Errs(q)' => Errs(q)
    <3>1. CASE UNCHANGED file
      BY <3>1 DEF Errs, file
    <3>2. CASE FileStep(p)
      <4>1. \A w \in Parts(p) : w # <<q, "error">>
        BY DEF Parts
      <4>2. StepBut(p, <<q, "error">>)
        BY <3>2, <4>1 DEF FileStep, StepBut
      <4>3. QED
        BY <4>2, ErrsFrom
    <3>3. QED
      BY <3>1, <3>2
  <2>3. Vouched(q)'
    BY <2>1 DEF Vouched, AtWork, command, flag, May, Needed
  <2>4. Speaks(q)'
    <3>1. (AtWork(q)' <=> AtWork(q)) /\ command(q)' = command(q)
      BY <2>1 DEF AtWork, command
    <3>2. /\ AtWork(q) => run[q].worst = 0 /\ run[q].outcome = "none"
          /\ Errs(q) =>
               \/ run[q].at \in {"recording", "gone"}
               \/ run[q].at = "exited" /\ run[q].code \notin {0, 2} /\ run[q].outcome # "refused"
               \/ run[q].at \in {"working", "fixing", "done", "exited"} /\ command(q) \in {"fix", "link", "window"}
      BY <2>1 DEF Speaks
    <3>3. QED
      BY ONLY <2>1, <2>2, <3>1, <3>2 DEF Speaks
  <2>5. QED
    BY <2>3, <2>4
<1>2. \A q \in Proc \ {p} : q \in Windows' => q \in Windows
  BY DEF Windows, Alive, command
<1>3. \A q, s \in Windows' : q = s
  <2> SUFFICES ASSUME NEW q \in Windows', NEW s \in Windows' PROVE q = s
    OBVIOUS
  <2>1. q \in Proc /\ s \in Proc
    BY DEF Windows
  <2>2. QED
    BY <1>2, <2>1 DEF Proper
<1>4. QED
  BY <1>1, <1>3 DEF Proper

LEMMA UntypedRuns ==
  /\ Untyped \in Run
  /\ \A at \in {"checking", "working"}, p \in Proc : \A c \in Typed[p], sound \in SUBSET Thing, w \in BOOLEAN :
       [Untyped EXCEPT !.at = at, !.asked = c, !.sound = sound, !.waived = w] \in Run
  /\ [Untyped EXCEPT !.at = "exited", !.asked = Mistyped, !.outcome = "not understood", !.code = 2] \in Run
<1> DEFINE A == [command : Command \cup {"none", "unknown"}, flags : SUBSET Flag]
           K == 0 .. 7
           N == 0 .. 4
           C == -1 .. 255
<1>1. 0 \in K /\ 0 \in N /\ -1 \in C /\ 2 \in C /\ {} \in SUBSET Thing
  OBVIOUS
<1>3. Run =
        [at : {"untyped", "checking", "failed", "working", "fixing", "done", "recording", "exited", "gone"},
         asked : A, checks : K, failed : BOOLEAN, sound : SUBSET Thing, waived : BOOLEAN,
         worst : N, outcome : Outcome, changed : BOOLEAN, code : C]
  BY DEF Run, Outcome
<1>2. NotAsked \in A /\ Mistyped \in A /\ \A p \in Proc : \A c \in Typed[p] : c \in A
  <2>1. NotAsked \in A /\ Mistyped \in A
    BY DEF NotAsked, Mistyped
  <2>2. QED
    BY <2>1, OutlawAssumption
<1> HIDE DEF A, K, N, C
<1>4. Untyped \in Run
  BY <1>1, <1>2, <1>3 DEF Untyped, Outcome
<1>5. ASSUME NEW at \in {"checking", "working"}, NEW p \in Proc, NEW c \in Typed[p],
             NEW sound \in SUBSET Thing, NEW w \in BOOLEAN
      PROVE  [Untyped EXCEPT !.at = at, !.asked = c, !.sound = sound, !.waived = w] \in Run
  BY <1>2, <1>3, <1>4
<1>6. [Untyped EXCEPT !.at = "exited", !.asked = Mistyped, !.outcome = "not understood", !.code = 2] \in Run
  BY <1>1, <1>2, <1>3, <1>4 DEF Outcome
<1>7. QED
  BY <1>4, <1>5, <1>6

\* What is left of a process whose command is over.
\* (-1: there is none yet)
ExitCode == -1 .. 255

LeftAs(x, at, o, n) ==
  [Untyped EXCEPT !.at = at, !.asked.command = x.asked.command, !.worst = x.worst, !.outcome = o, !.code = n]

LEMMA LeftRuns ==
  \A x \in Run, at \in {"done", "recording", "exited"}, o \in Outcome, n \in ExitCode :
    /\ LeftAs(x, at, o, n) \in Run /\ LeftAs(x, at, o, n).at = at
    /\ LeftAs(x, at, o, n).asked.command = x.asked.command /\ LeftAs(x, at, o, n).changed = FALSE
    /\ LeftAs(x, at, o, n).worst = x.worst /\ LeftAs(x, at, o, n).outcome = o /\ LeftAs(x, at, o, n).code = n
<1> TAKE x \in Run, at \in {"done", "recording", "exited"}, o \in Outcome, n \in ExitCode
<1> DEFINE a == [NotAsked EXCEPT !.command = x.asked.command]
           s == [Untyped EXCEPT !.at = at, !.asked = a, !.worst = x.worst, !.outcome = o, !.code = n]
<1>1. x.asked.command \in Command \cup {"none", "unknown"} /\ x.worst \in 0 .. 4
  BY DEF Run
<1>2. a \in [command : Command \cup {"none", "unknown"}, flags : SUBSET Flag] /\ a.command = x.asked.command
  BY <1>1 DEF NotAsked
<1>3. Untyped.asked = NotAsked
  BY DEF Untyped
<1>4. LeftAs(x, at, o, n) = s
  BY <1>3 DEF LeftAs
<1> HIDE DEF a
<1>5. Untyped \in Run
  BY UntypedRuns
<1>6. s \in Run
  BY <1>1, <1>2, <1>5 DEF Run, Outcome, ExitCode
<1>7. s.at = at /\ s.asked = a /\ s.changed = FALSE /\ s.worst = x.worst /\ s.outcome = o /\ s.code = n
  BY DEF Untyped
<1>8. QED
  BY <1>2, <1>4, <1>6, <1>7

LEMMA LeftKeeps ==
  ASSUME Proper, FileTyped, NEW p \in Proc,
         NEW at \in {"done", "recording", "exited"}, NEW o \in Outcome, NEW n \in ExitCode, Left(p, at, o, n),
         UNCHANGED <<located, broken>>, FileStep(p) \/ UNCHANGED file,
         command(p) # "window", ~ (at = "done" /\ o = "fine" /\ command(p) = "boot"),
         at = "done" =>
           /\ o \in Ending \cup {"broke", "refused"}
           /\ o = "fine" => run[p].worst < High
           /\ o = "something serious" => run[p].worst >= High,
         at = "recording" => n \in {1, 101} /\ o # "refused",
         at = "exited" /\ o # "unheard" =>
           /\ n = 0 => run[p].worst < High /\ o = "fine"
           /\ n = 2 => run[p].worst >= High,
         Errs(p)' =>
           \/ at = "recording"
           \/ at = "exited" /\ n \notin {0, 2} /\ o # "refused"
           \/ at \in {"done", "exited"} /\ command(p) \in {"fix", "link"}
  PROVE  Proper'
<1> DEFINE x == run[p]
           r == LeftAs(x, at, o, n)
<1>0. x \in Run /\ run \in [Proc -> Run]
  BY DEF Proper
<1>1. /\ r \in Run /\ r.at = at /\ r.asked.command = x.asked.command /\ r.changed = FALSE
      /\ r.worst = x.worst /\ r.outcome = o /\ r.code = n
  <2>1. at \in {"done", "recording", "exited"} /\ o \in Outcome /\ n \in ExitCode
    OBVIOUS
  <2>2. QED
    BY ONLY <1>0, <2>1, LeftRuns
<1>2. Set(p, r)
  BY DEF Left, LeftAs, command
<1> HIDE DEF r
<1>3. /\ run' \in [Proc -> Run] /\ \A q \in Proc \ {p} : run'[q] = run[q]
      /\ run'[p].at = at /\ run'[p].asked = r.asked /\ run'[p].changed = FALSE
      /\ run'[p].worst = x.worst /\ run'[p].outcome = o /\ run'[p].code = n
  BY <1>0, <1>1, <1>2, SetIs
<1>4. command(p)' = command(p)
  BY <1>1, <1>3 DEF command
<1>5. Vouched(p)'
  BY <1>3, <1>4 DEF Vouched, AtWork
<1>6. Speaks(p)'
  BY <1>3, <1>4 DEF Speaks, AtWork
<1>7. p \notin Windows'
  BY <1>4 DEF Windows
<1>8. QED
  BY <1>3, <1>5, <1>6, <1>7, OthersKeep

LEMMA CheckRuns ==
  ASSUME NEW r \in Run, NEW n \in 0 .. 7, NEW b \in BOOLEAN
  PROVE  [r EXCEPT !.checks = n, !.failed = b] \in Run
BY DEF Run

\* The self-test.
Starts(p) ==
  \/ \E c \in Typed[p] : (c.command = "window" => Windows = {}) /\ Type(p, c)
  \/ Mistype(p) \/ Check(p) \/ Booted(p) \/ Refused(p) \/ StartedUp(p) \/ ScreenFails(p) \/ ContinueAnyway(p)

LEMMA StartKeeps ==
  ASSUME Proper, FileTyped, NEW p \in Proc, Starts(p) PROVE Proper'
<1> DEFINE x == run[p]
<1>00. 0 < High
  BY DEF High
<1>0. /\ x \in Run /\ run \in [Proc -> Run] /\ Vouched(p) /\ Speaks(p) /\ broken \subseteq Thing
      /\ x.sound \subseteq Thing /\ x.checks \in 0 .. 7
  BY DEF Proper, Run
<1>1. ASSUME NEW c \in Typed[p], c.command = "window" => Windows = {}, Type(p, c) PROVE Proper'
  <2> DEFINE r == [Untyped EXCEPT !.at = IF StartsUp(c) THEN "checking" ELSE "working", !.asked = c,
                            !.sound = Thing \ broken, !.waived = "no_boot" \in c.flags]
  <2>1. x.at = "untyped" /\ Set(p, r) /\ UNCHANGED <<incidents, broken>>
    BY <1>1 DEF Type
  <2>2. r \in Run
    <3>1. Thing \ broken \in SUBSET Thing
      OBVIOUS
    <3>2. (IF StartsUp(c) THEN "checking" ELSE "working") \in {"checking", "working"}
      OBVIOUS
    <3>4. ("no_boot" \in c.flags) \in BOOLEAN
      OBVIOUS
    <3>5. QED
      BY <3>1, <3>2, <3>4, UntypedRuns
  <2>3. /\ r.at = (IF StartsUp(c) THEN "checking" ELSE "working") /\ r.asked = c /\ r.sound = Thing \ broken
        /\ r.waived = ("no_boot" \in c.flags) /\ r.worst = 0 /\ r.outcome = "none" /\ r.changed = FALSE /\ r.code = -1
        /\ r.checks = 0
    BY DEF Untyped
  <2> HIDE DEF r
  <2>4. /\ run' \in [Proc -> Run] /\ \A q \in Proc \ {p} : run'[q] = run[q]
        /\ run'[p].at = r.at /\ run'[p].asked = r.asked /\ run'[p].sound = r.sound
        /\ run'[p].waived = r.waived /\ run'[p].worst = r.worst /\ run'[p].outcome = r.outcome
        /\ run'[p].changed = r.changed /\ run'[p].code = r.code
        /\ r.at = "checking" => run'[p] = r
    BY <1>0, <2>1, <2>2, SetIs
  <2>5. Vouched(p)'
    <3>1. run'[p].at = "checking" => run'[p].checks = 0
      BY <2>3, <2>4
    <3>2. c.command \in {"boot", "window"} => StartsUp(c)
      BY DEF StartsUp
    <3>3. c.command = "fix" /\ ~ StartsUp(c) => "no_boot" \in c.flags
      BY DEF StartsUp, BootStyle
    <3>4. /\ run'[p].at \in {"checking", "working"} /\ run'[p].asked = c /\ ~ run'[p].changed
          /\ run'[p].sound = Thing \ broken'
          /\ run'[p].waived <=> "no_boot" \in c.flags
          /\ run'[p].at = "working" <=> ~ StartsUp(c)
      BY <2>1, <2>3, <2>4
    <3>5. CASE StartsUp(c)
      BY <3>1, <3>4, <3>5 DEF Vouched, AtWork, command, flag, May
    <3>6. CASE ~ StartsUp(c)
      BY <3>2, <3>3, <3>4, <3>6 DEF Vouched, AtWork, command, flag, May
    <3>7. QED
      BY <3>5, <3>6
  <2>6. Speaks(p)'
    <3>1. ~ Errs(p)'
      BY <1>0, <2>1 DEF Speaks, incidents, file, Errs
    <3>2. QED
      BY <2>3, <2>4, <3>1 DEF Speaks, AtWork, High
  <2>7. p \in Windows' => Windows = {}
    BY <1>1, <2>3, <2>4 DEF Windows, command
  <2>8. QED
    BY <2>1, <2>4, <2>5, <2>6, <2>7, OthersKeep DEF incidents
<1>15. ASSUME UNCHANGED file PROVE Errs(p)' <=> Errs(p)
  BY <1>15 DEF Errs, file
<1>16. CASE Mistype(p)
  <2> DEFINE r == [Untyped EXCEPT !.at = "exited", !.asked = Mistyped, !.outcome = "not understood", !.code = 2]
  <2>1. Code("not understood") = 2
    BY DEF Code
  <2>2. x.at = "untyped" /\ Set(p, r) /\ UNCHANGED file /\ UNCHANGED <<located, broken>>
    BY <1>16, <2>1 DEF Mistype, Quiet
  <2>3. r \in Run
    BY UntypedRuns
  <2>4. /\ r.at = "exited" /\ r.asked = Mistyped /\ r.outcome = "not understood" /\ r.code = 2 /\ r.changed = FALSE
        /\ Mistyped.command = "unknown"
    BY DEF Untyped, Mistyped
  <2> HIDE DEF r
  <2>5. /\ run' \in [Proc -> Run] /\ \A q \in Proc \ {p} : run'[q] = run[q]
        /\ run'[p].at = "exited" /\ run'[p].asked = Mistyped /\ run'[p].outcome = "not understood"
        /\ run'[p].changed = FALSE /\ run'[p].code = 2
    BY <1>0, <2>2, <2>3, <2>4, SetIs
  <2>6. Vouched(p)'
    BY <2>4, <2>5 DEF Vouched, AtWork, command
  <2>7. Speaks(p)'
    <3>1. ~ Errs(p)'
      BY <1>0, <1>15, <2>2 DEF Speaks
    <3>2. QED
      <4>1. command(p)' # "window"
        BY <2>4, <2>5 DEF command
      <4>2. ~ AtWork(p)'
        BY <2>5 DEF AtWork
      <4>3. 2 # 0
        OBVIOUS
      <4>4. run'[p].code # 0
        BY <2>5, <4>3
      <4>5. QED
        BY <2>5, <3>1, <4>1, <4>2, <4>4 DEF Speaks
  <2>8. p \notin Windows'
    BY <2>4, <2>5 DEF Windows, command
  <2>9. QED
    BY <2>2, <2>5, <2>6, <2>7, <2>8, OthersKeep
<1> DEFINE Now(r) ==
             /\ Set(p, r) /\ r \in Run /\ x.at \notin {"untyped", "exited", "gone"}
             /\ r.asked = x.asked /\ r.sound = x.sound /\ r.worst = x.worst
             /\ r.changed = x.changed
             /\ UNCHANGED file /\ UNCHANGED <<located, broken>>
<1>2. ASSUME NEW r, Now(r), Vouched(p)', Speaks(p)' PROVE Proper'
  <2>1. /\ run' \in [Proc -> Run] /\ \A q \in Proc \ {p} : run'[q] = run[q]
        /\ run'[p].at = r.at /\ run'[p].asked = r.asked
    BY <1>0, <1>2, SetIs
  <2>2. p \in Windows' => p \in Windows
    BY <1>2, <2>1 DEF Windows, command, Alive
  <2>3. QED
    BY <1>2, <2>1, <2>2, OthersKeep
<1>3. CASE Check(p)
  <2> DEFINE r == [x EXCEPT !.checks = @ + 1, !.failed = @ \/ CheckState(Checks[x.checks + 1]) = "fail"]
  <2>1. x.at = "checking" /\ x.checks + 1 \in 1 .. 7 /\ Set(p, r) /\ UNCHANGED file /\ UNCHANGED <<located, broken>>
    BY <1>0, <1>3, CheckOrder DEF Check, Quiet
  <2>2. r \in Run
    <3>1. x.checks + 1 \in 0 .. 7
      BY <2>1
    <3>2. (x.failed \/ CheckState(Checks[x.checks + 1]) = "fail") \in BOOLEAN
      OBVIOUS
    <3>3. QED
      BY <1>0, <3>1, <3>2, CheckRuns
  <2>3. /\ r.at = "checking" /\ r.asked = x.asked /\ r.sound = x.sound /\ r.waived = x.waived /\ r.worst = x.worst
        /\ r.outcome = x.outcome /\ r.changed = x.changed /\ r.checks = x.checks + 1
        /\ r.failed <=> (x.failed \/ CheckState(Checks[x.checks + 1]) = "fail")
    BY <1>0, <2>1 DEF Run
  <2> HIDE DEF r
  <2>4. run'[p] = r
    BY <1>0, <2>1, <2>2, <2>3, SetIs
  <2>5. CheckState(Checks[x.checks + 1]) # "fail" /\ Checks[x.checks + 1] \in Needed
          => Checks[x.checks + 1] \in x.sound
    <3>1. ASSUME NEW thing \in Needed, CheckState(thing) # "fail" PROVE thing \notin broken
      BY <3>1 DEF CheckState, Needed, Thing
    <3>2. Needed \subseteq Thing
      BY DEF Needed, Thing
    <3>3. QED
      BY <1>0, <2>1, <3>1, <3>2 DEF Vouched, AtWork
  <2>6. Vouched(p)'
    <3>1. ASSUME ~ r.failed, NEW i \in 1 .. x.checks + 1, Checks[i] \in Needed PROVE Checks[i] \in x.sound
      BY <1>0, <2>1, <2>3, <2>5, <3>1 DEF Vouched
    <3>2. QED
      BY <1>0, <2>1, <2>3, <2>4, <3>1 DEF Vouched, AtWork, command, flag, May, Needed
  <2>7. Speaks(p)'
    BY <1>0, <1>15, <2>1, <2>3, <2>4 DEF Speaks, AtWork, command
  <2>8. QED
    BY <1>2, <2>1, <2>2, <2>3, <2>6, <2>7
<1>4. Checked(p) /\ Ready(p) => Needed \subseteq x.sound
  <2> SUFFICES ASSUME Checked(p), Ready(p), NEW thing \in Needed PROVE thing \in x.sound
    OBVIOUS
  <2>1. thing \in Thing
    BY DEF Needed, Thing
  <2>2. PICK i \in 1 .. 7 : Checks[i] = thing
    BY <2>1, CheckOrder
  <2>3. QED
    BY <1>0, <2>2, CheckOrder DEF Checked, Ready, Vouched
<1>5. ASSUME NEW at \in {"done", "working", "failed"}, NEW o \in {"none", "fine", "not ready"}, NEW w \in BOOLEAN,
             Set(p, [x EXCEPT !.at = at, !.outcome = o, !.waived = w]),
             UNCHANGED file, UNCHANGED <<located, broken>>,
             x.at \in {"checking", "failed"}, x.waived => w,
             at = "done" <=> o # "none",
             at # "failed" => command(p) # "boot" \/ at = "done",
             at = "failed" => command(p) = "window",
             at = "done" => command(p) = "boot",
             at = "working" => w \/ Needed \subseteq x.sound \/ ~ May(p),
             command(p) = "boot" /\ o = "fine" => Needed \subseteq x.sound
      PROVE  Proper'
  <2> DEFINE r == [x EXCEPT !.at = at, !.outcome = o, !.waived = w]
  <2>1. r \in Run
    BY <1>0 DEF Run, Ending
  <2>2. /\ r.at = at /\ r.outcome = o /\ r.waived = w /\ r.asked = x.asked /\ r.sound = x.sound /\ r.worst = x.worst
        /\ r.changed = x.changed
    BY <1>0 DEF Run
  <2> HIDE DEF r
  <2>3. /\ run'[p].at = r.at /\ run'[p].asked = r.asked /\ run'[p].sound = r.sound
        /\ run'[p].waived = r.waived /\ run'[p].worst = r.worst /\ run'[p].outcome = r.outcome
        /\ run'[p].changed = r.changed
    BY <1>0, <1>5, <2>1, SetIs DEF r
  <2>4. Vouched(p)'
    BY <1>0, <1>5, <2>2, <2>3 DEF Vouched, AtWork, command, flag, May, Needed
  <2>5. ~ Errs(p)
    BY <1>0, <1>5 DEF Speaks
  <2>6. Speaks(p)'
    <3>1. ~ Errs(p)'
      BY <1>5, <1>15, <2>5
    <3>2. x.worst = 0 /\ 0 < High
      <4>1. Speaks(p) /\ x.at \in {"checking", "failed", "working", "fixing"}
        BY <1>0, <1>5
      <4>2. x.worst = 0
        BY ONLY <4>1 DEF Speaks, AtWork
      <4>3. QED
        BY <1>00, <4>2
    <3>3. QED
      BY <1>5, <2>2, <2>3, <3>1, <3>2 DEF Speaks, AtWork, command, Ending
  <2>7. QED
    BY <1>2, <1>5, <2>1, <2>2, <2>4, <2>6 DEF r
<1>6. /\ \A at : [x EXCEPT !.at = at] = [x EXCEPT !.at = at, !.outcome = x.outcome, !.waived = x.waived]
      /\ \A at, o : [x EXCEPT !.at = at, !.outcome = o] = [x EXCEPT !.at = at, !.outcome = o, !.waived = x.waived]
      /\ \A at, w : [x EXCEPT !.at = at, !.waived = w] = [x EXCEPT !.at = at, !.outcome = x.outcome, !.waived = w]
      /\ x.waived \in BOOLEAN
  BY <1>0 DEF Run
<1>7. x.at \in {"checking", "failed"} => x.outcome = "none"
  BY <1>0 DEF Speaks, AtWork
<1>8. CASE Booted(p)
  <2> DEFINE o == IF Ready(p) THEN "fine" ELSE "not ready"
  <2>1. /\ x.at = "checking" /\ Set(p, [x EXCEPT !.at = "done", !.outcome = o]) /\ UNCHANGED file
        /\ UNCHANGED <<located, broken>> /\ command(p) = "boot"
    BY <1>8 DEF Booted, Checked, Quiet
  <2>2. o = "fine" => Needed \subseteq x.sound
    BY <1>4, <1>8 DEF Booted
  <2>3. Set(p, [x EXCEPT !.at = "done", !.outcome = o, !.waived = x.waived])
    BY <1>6, <2>1
  <2>4. o \in {"fine", "not ready"}
    OBVIOUS
  <2> HIDE DEF o
  <2>5. QED
    BY <1>5, <1>6, <2>1, <2>2, <2>3, <2>4
<1>9. CASE Refused(p)
  <2>1. /\ x.at = "checking" /\ Left(p, "done", "refused", -1) /\ UNCHANGED file /\ UNCHANGED <<located, broken>>
        /\ "refused" \in Outcome /\ -1 \in ExitCode
    BY <1>9 DEF Refused, Checked, Answers, Quiet, Outcome, ExitCode
  <2>2. ~ Errs(p)'
    BY <1>0, <1>15, <2>1 DEF Speaks
  <2>3. command(p) # "window"
    BY <1>9 DEF Refused
  <2>4. QED
    BY <2>1, <2>2, <2>3, LeftKeeps
<1>10. CASE StartedUp(p)
  <2>1. /\ x.at = "checking" /\ Set(p, [x EXCEPT !.at = "working", !.outcome = "none", !.waived = x.waived])
        /\ UNCHANGED file /\ UNCHANGED <<located, broken>>
    BY <1>6, <1>7, <1>10 DEF StartedUp, Checked, Quiet
  <2>2. Needed \subseteq x.sound \/ ~ May(p)
    BY <1>4, <1>10 DEF StartedUp, May
  <2>3. command(p) # "boot"
    BY <1>10 DEF StartedUp
  <2>4. QED
    BY <1>5, <1>6, <2>1, <2>2, <2>3
<1>11. CASE ScreenFails(p)
  <2>1. /\ x.at = "checking" /\ Set(p, [x EXCEPT !.at = "failed", !.outcome = "none", !.waived = x.waived])
        /\ UNCHANGED file /\ UNCHANGED <<located, broken>> /\ command(p) = "window"
    BY <1>6, <1>7, <1>11 DEF ScreenFails, Quiet
  <2>2. QED
    BY <1>5, <1>6, <2>1
<1>12. CASE ContinueAnyway(p)
  <2>1. /\ x.at = "failed" /\ Set(p, [x EXCEPT !.at = "working", !.outcome = "none", !.waived = TRUE])
        /\ UNCHANGED file /\ UNCHANGED <<located, broken>> /\ command(p) # "boot"
    BY <1>0, <1>6, <1>7, <1>12 DEF ContinueAnyway, Quiet, Vouched
  <2>2. QED
    BY <1>5, <1>6, <2>1
<1>13. QED
  BY <1>1, <1>16, <1>3, <1>8, <1>9, <1>10, <1>11, <1>12 DEF Starts

LEMMA MoveRuns ==
  ASSUME NEW r \in Run
  PROVE  /\ \A at \in {"fixing", "working"} : [r EXCEPT !.at = at] \in Run
         /\ [r EXCEPT !.changed = TRUE] \in Run
         /\ \A o \in Ending \cup {"broke", "refused"} : [r EXCEPT !.at = "done", !.outcome = o] \in Run
         /\ \A n \in 0 .. 4, o \in Ending \cup {"broke"} : [r EXCEPT !.at = "done", !.worst = n, !.outcome = o] \in Run
<1>2. ASSUME NEW at \in {"fixing", "working"} PROVE [r EXCEPT !.at = at] \in Run
  BY DEF Run
<1>3. [r EXCEPT !.changed = TRUE] \in Run
  BY DEF Run
<1>4. ASSUME NEW o \in Ending \cup {"broke", "refused"} PROVE [r EXCEPT !.at = "done", !.outcome = o] \in Run
  BY DEF Run
<1>5. ASSUME NEW n \in 0 .. 4, NEW o \in Ending \cup {"broke"}
      PROVE  [r EXCEPT !.at = "done", !.worst = n, !.outcome = o] \in Run
  BY DEF Run
<1>7. QED
  BY <1>2, <1>3, <1>4, <1>5

\* What was asked for.
Works(p) ==
  \/ \E worst \in {1, High} : Scan(p, worst)
  \/ OpensQueue(p) \/ ChangesMachine(p) \/ QueueWorked(p)
  \/ Forgets(p) \/ Finishes(p) \/ Declines(p) \/ Breaks(p) \/ Logs(p) \/ Records(p) \/ Panics(p)
  \/ (\E w \in Parts(p) : Recording(w)) /\ UNCHANGED <<located, screen, outlaw>>

\* Nothing is recorded of it by a step at the file that begins no error of it.
LEMMA NoNewErr ==
  ASSUME FileTyped, NEW p \in Proc,
         StepBut(p, <<p, "error">>) \/ BeginRecord(<<p, "panic">>) \/ UNCHANGED file, Errs(p)'
  PROVE  Errs(p)
<1>1. CASE UNCHANGED file
  BY <1>1 DEF Errs, file
<1>2. CASE BeginRecord(<<p, "panic">>)
  <2>1. <<p, "panic">> \in Parts(p) /\ <<p, "panic">> # <<p, "error">>
    BY DEF Parts, IncidentKind
  <2>2. StepBut(p, <<p, "error">>)
    BY <1>2, <2>1 DEF StepBut
  <2>3. QED
    BY <2>2, ErrsFrom
<1>3. CASE StepBut(p, <<p, "error">>)
  BY <1>3, ErrsFrom
<1>4. QED
  BY <1>1, <1>2, <1>3

LEMMA BeginsStep ==
  ASSUME NEW p \in Proc, NEW kind \in IncidentKind, BeginRecord(<<p, kind>>) PROVE FileStep(p)
<1>1. <<p, kind>> \in Parts(p)
  BY DEF Parts
<1>2. QED
  BY <1>1 DEF FileStep

LEMMA WorkKeeps ==
  ASSUME Proper, FileTyped, NEW p \in Proc, Works(p) PROVE Proper'
<1> DEFINE x == run[p]
<1>0. x \in Run /\ run \in [Proc -> Run] /\ Vouched(p) /\ Speaks(p)
  BY DEF Proper
<1>2. High = 3 /\ 0 < High
  BY DEF High
<1>3. x.at \in {"working", "fixing", "checking"} => x.worst = 0 /\ x.outcome = "none"
  BY <1>0 DEF Speaks, AtWork
<1>4. Errs(p) /\ x.at \in {"checking", "working", "fixing", "done"} =>
        x.at # "checking" /\ command(p) \in {"fix", "link", "window"}
  BY <1>0 DEF Speaks
<1>6. ASSUME NEW o \in {"fine", "refused", "broke"}, Answers(p, o), Quiet, UNCHANGED file \/ Clear,
             x.at \in {"working", "fixing"}, command(p) # "window"
      PROVE  Proper'
  <2>1. Left(p, "done", o, -1) /\ o \in Outcome /\ -1 \in ExitCode /\ o \in Ending \cup {"broke", "refused"}
    <3>1. -1 \in ExitCode
      BY DEF ExitCode
    <3>2. QED
      BY <1>6, <3>1 DEF Answers, Outcome, Ending
  <2>2. UNCHANGED <<located, broken>> /\ (FileStep(p) \/ UNCHANGED file)
    BY <1>6 DEF Quiet, FileStep
  <2>3. Errs(p)' => command(p) \in {"fix", "link"}
    <3>1. Errs(p)' => Errs(p)
      BY <1>6, NoNewErr DEF StepBut
    <3>2. QED
      BY <1>4, <1>6, <3>1
  <2>4. command(p) # "boot" /\ x.worst < High /\ o # "something serious"
    BY <1>0, <1>2, <1>3, <1>6 DEF Vouched
  <2>5. QED
    BY <1>6, <2>1, <2>2, <2>3, <2>4, LeftKeeps
<1>7. ASSUME NEW worst \in {1, High}, Scan(p, worst) PROVE Proper'
  <2> DEFINE ending == IF worst >= High THEN "something serious" ELSE "fine"
             explained == flag(p, "explain") => broken \cap {"configuration", "runbooks"} = {} /\ located
             o == IF explained THEN ending ELSE "broke"
             r == [x EXCEPT !.at = "done", !.worst = worst, !.outcome = o]
  <2>1. Set(p, r)
    BY <1>7 DEF Scan
  <2>2. x.at = "working" /\ command(p) = "scan" /\ Quiet /\ UNCHANGED file
    BY <1>7 DEF Scan, Does
  <2>3. /\ o \in Ending \cup {"broke", "refused"}
        /\ o = "fine" => worst < High
        /\ o = "something serious" => worst >= High
    BY <1>2 DEF Ending
  <2> HIDE DEF o
  <2>4. worst \in 0 .. 4
    BY <1>2
  <2>5. r \in Run
    BY <1>0, <2>3, <2>4 DEF Run
  <2>6. r.at = "done" /\ r.worst = worst /\ r.outcome = o /\ r.asked = x.asked /\ r.changed = x.changed /\ r.waived = x.waived
        /\ r.sound = x.sound
    BY <1>0 DEF Run
  <2> HIDE DEF r
  <2>7. /\ run' \in [Proc -> Run] /\ \A q \in Proc \ {p} : run'[q] = run[q]
        /\ run'[p].at = "done" /\ run'[p].asked = x.asked /\ run'[p].sound = x.sound
        /\ run'[p].waived = x.waived /\ run'[p].worst = worst /\ run'[p].outcome = o
        /\ run'[p].changed = x.changed
    BY <1>0, <2>1, <2>5, <2>6, SetIs
  <2>8. command(p)' = "scan"
    BY <2>2, <2>7 DEF command
  <2>9. Vouched(p)'
    BY <1>0, <2>2, <2>7, <2>8 DEF Vouched, AtWork
  <2>10. ~ Errs(p)'
    BY <1>4, <2>2, NoNewErr
  <2>11. Speaks(p)'
    BY <2>3, <2>7, <2>8, <2>10 DEF Speaks, AtWork
  <2>12. p \notin Windows'
    BY <2>8 DEF Windows
  <2>13. QED
    BY <2>2, <2>7, <2>9, <2>11, <2>12, OthersKeep DEF Quiet
<1>8. ASSUME NEW r \in Run, Set(p, r), Quiet, UNCHANGED file, x.at \in {"working", "fixing"},
             r.at \in {"fixing", "working"}, command(p) \in {"fix", "window"},
             r.asked = x.asked, r.sound = x.sound, r.waived = x.waived, r.worst = x.worst, r.outcome = x.outcome,
             r.changed => x.changed \/ (x.at = "fixing" /\ May(p))
      PROVE  Proper'
  <2>1. /\ run' \in [Proc -> Run] /\ \A q \in Proc \ {p} : run'[q] = run[q]
        /\ run'[p].at = r.at /\ run'[p].asked = r.asked /\ run'[p].sound = r.sound
        /\ run'[p].waived = r.waived /\ run'[p].worst = r.worst /\ run'[p].outcome = r.outcome
        /\ run'[p].changed = r.changed
    BY <1>0, <1>8, SetIs
  <2>2. UNCHANGED <<located, broken>> /\ command(p)' = command(p)
    BY <1>8, <2>1 DEF Quiet, command
  <2>3. Vouched(p)'
    BY <1>0, <1>8, <2>1, <2>2 DEF Vouched, AtWork, command, flag, May, Needed
  <2>4. Speaks(p)'
    BY <1>3, <1>8, <2>1, <2>2 DEF Speaks, AtWork
  <2>5. p \in Windows' => p \in Windows
    BY <1>8, <2>2 DEF Windows, Alive
  <2>6. QED
    BY <1>8, <2>1, <2>2, <2>3, <2>4, <2>5, OthersKeep
<1>81. CASE OpensQueue(p)
  <2> DEFINE r == [x EXCEPT !.at = "fixing"]
  <2>1. x.at = "working" /\ Set(p, r) /\ command(p) \in {"fix", "window"} /\ Quiet /\ UNCHANGED file
    BY <1>81 DEF OpensQueue, Does
  <2>2. r \in Run
    BY <1>0, MoveRuns
  <2>3. /\ r.at = "fixing" /\ r.asked = x.asked /\ r.sound = x.sound /\ r.waived = x.waived
        /\ r.worst = x.worst /\ r.outcome = x.outcome /\ r.changed = x.changed
    BY <1>0 DEF Run
  <2> HIDE DEF r
  <2>4. QED
    BY <1>8, <2>1, <2>2, <2>3
<1>82. CASE ChangesMachine(p)
  <2> DEFINE r == [x EXCEPT !.changed = TRUE]
  <2>1. x.at = "fixing" /\ Set(p, r) /\ command(p) \in {"fix", "window"} /\ May(p) /\ Quiet /\ UNCHANGED file
    BY <1>0, <1>82 DEF ChangesMachine, Vouched, May
  <2>2. r \in Run
    BY <1>0, MoveRuns
  <2>3. /\ r.at = x.at /\ r.asked = x.asked /\ r.sound = x.sound /\ r.waived = x.waived
        /\ r.worst = x.worst /\ r.outcome = x.outcome
    BY <1>0 DEF Run
  <2> HIDE DEF r
  <2>4. QED
    BY <1>8, <2>1, <2>2, <2>3
<1>83. CASE QueueWorked(p) /\ command(p) = "window"
  <2> DEFINE r == [x EXCEPT !.at = "working"]
  <2>1. x.at = "fixing" /\ Set(p, r) /\ command(p) = "window" /\ Quiet /\ UNCHANGED file
    BY <1>83 DEF QueueWorked
  <2>2. r \in Run
    BY <1>0, MoveRuns
  <2>3. /\ r.at = "working" /\ r.asked = x.asked /\ r.sound = x.sound /\ r.waived = x.waived
        /\ r.worst = x.worst /\ r.outcome = x.outcome /\ r.changed = x.changed
    BY <1>0 DEF Run
  <2> HIDE DEF r
  <2>4. QED
    BY <1>8, <2>1, <2>2, <2>3
<1>9. CASE QueueWorked(p) /\ command(p) # "window"
  BY <1>6, <1>9 DEF QueueWorked
<1>10. CASE Forgets(p) \/ Finishes(p) \/ Declines(p) \/ Breaks(p)
  <2>1. /\ x.at \in {"working", "fixing"} /\ command(p) # "window" /\ Quiet /\ (UNCHANGED file \/ Clear)
        /\ \E o \in {"fine", "refused", "broke"} : Answers(p, o)
    BY <1>10 DEF Forgets, Finishes, Declines, Breaks, Does
  <2>2. QED
    BY <1>6, <2>1
<1>11. ASSUME UNCHANGED run, UNCHANGED <<located, broken>>, FileStep(p),
              Errs(p)' => Errs(p) \/ (x.at \in {"working", "fixing"} /\ command(p) \in {"fix", "link", "window"})
       PROVE  Proper'
  <2>0. command(p)' = command(p)
    BY <1>11 DEF command
  <2>1. Vouched(p)'
    BY <1>0, <1>11, <2>0 DEF Vouched, AtWork, command, flag, May, Needed
  <2>2. Speaks(p)'
    BY <1>0, <1>11, <2>0 DEF Speaks, AtWork, Ending
  <2>3. p \in Windows' => p \in Windows
    BY <1>11, <2>0 DEF Windows, Alive
  <2>4. QED
    BY <1>0, <1>11, <2>1, <2>2, <2>3, OthersKeep
<1>12. CASE Logs(p)
  <2>1. /\ x.at \in {"working", "fixing"} /\ UNCHANGED run /\ UNCHANGED <<located, broken>>
        /\ \/ BeginRecord(<<p, "panic">>)
           \/ (command(p) \in {"window", "link"} \/ x.changed) /\ BeginRecord(<<p, "error">>)
    BY <1>12 DEF Logs, Quiet
  <2>2. FileStep(p)
    BY <2>1, BeginsStep DEF IncidentKind
  <2>3. x.changed => command(p) \in {"fix", "window"}
    BY <1>0 DEF Vouched
  <2>4. Errs(p)' => Errs(p) \/ command(p) \in {"fix", "link", "window"}
    BY <2>1, <2>3, NoNewErr
  <2>5. QED
    BY <1>11, <2>1, <2>2, <2>4
<1>13. CASE (\E w \in Parts(p) : Recording(w)) /\ UNCHANGED <<located, screen, outlaw>>
  <2>1. FileStep(p) /\ StepBut(p, <<p, "error">>)
    BY <1>13 DEF FileStep, StepBut
  <2>2. QED
    BY <1>11, <1>13, <2>1, NoNewErr DEF outlaw
<1>14. CASE Records(p) \/ Panics(p)
  <2>1. PICK o \in Outcome, n \in {1, 101} : Left(p, "recording", o, n) /\ o # "refused"
    <3>1. Code("broke") = 1 /\ "broke" \in Outcome /\ "none" \in Outcome
      BY DEF Code, Outcome
    <3>2. CASE Records(p)
      BY <3>1, <3>2 DEF Records
    <3>3. CASE Panics(p)
      <4>1. Left(p, "recording", x.outcome, 101) /\ x.outcome = "none"
        BY <1>3, <3>3 DEF Panics
      <4>2. QED
        BY <3>1, <4>1
    <3>4. QED
      BY <1>14, <3>2, <3>3
  <2>2. n \in ExitCode
    BY DEF ExitCode
  <2>3. UNCHANGED <<located, broken>> /\ command(p) # "window"
    BY <1>0, <1>14 DEF Records, Panics, Quiet, Speaks
  <2>4. FileStep(p) \/ UNCHANGED file
    BY <1>14, BeginsStep DEF Records, Panics, IncidentKind
  <2>5. QED
    BY <2>1, <2>2, <2>3, <2>4, LeftKeeps
<1>15. QED
  BY <1>7, <1>81, <1>82, <1>83, <1>9, <1>10, <1>12, <1>13, <1>14 DEF Works

\* The end of a process leaves its code, or nothing.
Ends(p) == Exits(p) \/ Heard(p) \/ PipeBreaks(p) \/ Dies(p)

LEMMA CodeOf ==
  ASSUME NEW o \in Ending \cup {"broke", "refused"}
  PROVE  \/ o = "fine" /\ Code(o) = 0
         \/ o = "something serious" /\ Code(o) = 2
         \/ o \in {"not ready", "broke", "refused"} /\ Code(o) = 1
<1>1. o = "fine" => Code(o) = 0
  BY DEF Code
<1>2. o = "something serious" => Code(o) = 2
  BY DEF Code
<1>3. o \in {"not ready", "broke", "refused"} => Code(o) = 1
  BY DEF Code
<1>4. QED
  BY <1>1, <1>2, <1>3 DEF Ending

LEMMA EndKeeps ==
  ASSUME Proper, FileTyped, NEW p \in Proc, Ends(p) PROVE Proper'
<1> DEFINE x == run[p]
<1>0. x \in Run /\ run \in [Proc -> Run] /\ Vouched(p) /\ Speaks(p)
  BY DEF Proper
<1>1. ASSUME Abandon(p) \/ UNCHANGED file
      PROVE  (FileStep(p) \/ UNCHANGED file) /\ (Errs(p)' => Errs(p))
  <2>1. Abandon(p) => FileStep(p) /\ StepBut(p, <<p, "error">>)
    BY DEF FileStep, StepBut
  <2>2. QED
    BY <1>1, <2>1, NoNewErr
<1>2. ASSUME Set(p, [Untyped EXCEPT !.at = "gone"]), Abandon(p) \/ UNCHANGED file, UNCHANGED <<located, broken>>
      PROVE  Proper'
  <2> DEFINE r == [Untyped EXCEPT !.at = "gone"]
  <2>1. r \in Run /\ r.at = "gone" /\ r.changed = FALSE /\ r.asked = NotAsked /\ NotAsked.command = "none"
    <3>1. Untyped \in Run
      BY UntypedRuns
    <3>2. r \in Run
      BY <3>1 DEF Run
    <3>3. QED
      BY <3>2 DEF Untyped, NotAsked
  <2> HIDE DEF r
  <2>2. Set(p, r)
    BY <1>2 DEF r
  <2>3. /\ run' \in [Proc -> Run] /\ \A q \in Proc \ {p} : run'[q] = run[q]
        /\ run'[p].at = "gone" /\ run'[p].asked = NotAsked /\ run'[p].changed = FALSE
    BY <1>0, <2>1, <2>2, SetIs
  <2>4. Vouched(p)' /\ Speaks(p)' /\ p \notin Windows'
    BY <2>1, <2>3 DEF Vouched, Speaks, AtWork, Windows, Alive, command
  <2>5. QED
    BY <1>1, <1>2, <2>3, <2>4, OthersKeep
<1>4. CASE Exits(p)
  <2>1. /\ UNCHANGED <<located, broken>> /\ (Abandon(p) \/ UNCHANGED file)
        /\ x.at \in {"done", "recording"} /\ command(p) # "window"
    BY <1>0, <1>4 DEF Exits, Quiet, Speaks
  <2>2. CASE x.at = "done" /\ Left(p, "exited", x.outcome, Code(x.outcome))
    <3> DEFINE n == Code(x.outcome)
    <3>1. /\ x.outcome \in Ending \cup {"broke", "refused"} /\ x.outcome \in Outcome
          /\ x.outcome = "fine" => x.worst < High
          /\ x.outcome = "something serious" => x.worst >= High
          /\ Errs(p) => command(p) \in {"fix", "link"}
      BY <1>0, <2>1, <2>2 DEF Speaks, Outcome
    <3>2. \/ x.outcome = "fine" /\ n = 0
          \/ x.outcome = "something serious" /\ n = 2
          \/ x.outcome \in {"not ready", "broke", "refused"} /\ n = 1
      BY <3>1, CodeOf
    <3>3. Left(p, "exited", x.outcome, n)
      BY <2>2
    <3> HIDE DEF n
    <3>4. n \in ExitCode
      <4>1. {0, 1, 2} \subseteq ExitCode
        BY DEF ExitCode
      <4>2. QED
        BY <3>2, <4>1
    <3>5. (n = 0 => x.outcome = "fine") /\ (n = 2 => x.outcome = "something serious")
      <4>1. n = 0 => x.outcome = "fine"
        BY <3>2
      <4>2. n = 2 => n # 0 /\ n # 1
        OBVIOUS
      <4>3. QED
        BY <3>2, <4>1, <4>2
    <3>6. QED
      BY <1>1, <2>1, <3>1, <3>3, <3>4, <3>5, LeftKeeps
  <2>3. CASE x.at = "recording" /\ Left(p, "exited", x.outcome, x.code)
    <3>1. x.code \in {1, 101} /\ x.outcome # "refused"
      BY <1>0, <2>3 DEF Speaks
    <3>2. {1, 101} \subseteq ExitCode /\ {1, 101} \cap {0, 2} = {}
      BY DEF ExitCode
    <3>3. x.outcome \in Outcome
      BY <1>0 DEF Run, Outcome
    <3>4. x.code \in ExitCode /\ x.code \notin {0, 2}
      BY <3>1, <3>2
    <3>5. QED
      BY <1>1, <2>1, <2>3, <3>1, <3>3, <3>4, LeftKeeps
  <2>4. QED
    BY <1>4, <2>2, <2>3 DEF Exits, Leaves
<1>5. CASE Heard(p)
  BY <1>2, <1>5 DEF Heard, Quiet
<1>6. CASE PipeBreaks(p)
  <2>1. /\ x.at \in {"checking", "working", "fixing", "done"} /\ command(p) # "window"
        /\ Left(p, "exited", "unheard", 0) /\ Abandon(p) /\ UNCHANGED <<located, broken>>
    BY <1>6 DEF PipeBreaks, Leaves, Quiet
  <2>2. "unheard" \in Outcome /\ 0 \in ExitCode
    BY DEF Outcome, ExitCode
  <2>3. Errs(p)' => command(p) \in {"fix", "link"}
    BY <1>0, <1>1, <2>1 DEF Speaks
  <2>4. QED
    BY <1>1, <2>1, <2>2, <2>3, LeftKeeps
<1>7. CASE Dies(p)
  BY <1>2, <1>7 DEF Dies
<1>8. QED
  BY <1>4, <1>5, <1>6, <1>7 DEF Ends

\* The world breaks and mends; what is alive is held against what it was.
LEMMA TurnKeeps == ASSUME Proper, Turns PROVE Proper'
<1>0. run \in [Proc -> Run] /\ UNCHANGED incidents /\ broken' \subseteq Thing
  BY OutlawAssumption DEF Proper, Turns
<1>1. ASSUME NEW p \in Proc
      PROVE  /\ run'[p] \in Run /\ Vouched(p)' /\ Speaks(p)'
             /\ p \in Windows' => p \in Windows
  <2> DEFINE x == run[p]
             y == [x EXCEPT !.sound = @ \cup (Thing \ broken')]
  <2>0. x \in Run /\ Vouched(p) /\ Speaks(p)
    BY <1>0, <1>1 DEF Proper
  <2>1. /\ y \in Run /\ y.at = x.at /\ y.asked = x.asked /\ y.checks = x.checks /\ y.failed = x.failed
        /\ y.waived = x.waived /\ y.worst = x.worst /\ y.outcome = x.outcome /\ y.changed = x.changed
        /\ y.code = x.code /\ x.sound \subseteq y.sound /\ Thing \ broken' \subseteq y.sound
    BY <1>0, <2>0 DEF Run
  <2>2. run'[p] = IF AtWork(p) THEN y ELSE x
    BY <1>0, <1>1 DEF Turns
  <2> HIDE DEF y
  <2>3. /\ run'[p] \in Run /\ run'[p].at = x.at /\ run'[p].asked = x.asked /\ run'[p].checks = x.checks
        /\ run'[p].failed = x.failed /\ run'[p].waived = x.waived /\ run'[p].worst = x.worst
        /\ run'[p].outcome = x.outcome /\ run'[p].changed = x.changed /\ run'[p].code = x.code
        /\ x.sound \subseteq run'[p].sound
    BY <2>0, <2>1, <2>2
  <2>4. located' = located /\ UNCHANGED file
    BY <1>0 DEF incidents
  <2>5. Vouched(p)'
    <3>1. AtWork(p)' => Thing \ broken' \subseteq run'[p].sound
      BY <2>1, <2>2, <2>3 DEF AtWork
    <3>2. Needed' = Needed
      BY <2>4 DEF Needed
    <3>3. QED
      BY <2>0, <2>3, <3>1, <3>2 DEF Vouched, AtWork, command, flag, May
  <2>6. Speaks(p)'
    <3>1. Errs(p)' <=> Errs(p)
      BY <2>4 DEF Errs, file
    <3>2. QED
      BY <2>0, <2>3, <3>1 DEF Speaks, AtWork, command
  <2>7. QED
    BY <2>3, <2>5, <2>6 DEF Windows, Alive, command
<1>2. run' \in [Proc -> Run]
  <2>1. run' = [p \in Proc |-> IF AtWork(p) THEN [run[p] EXCEPT !.sound = @ \cup (Thing \ broken')] ELSE run[p]]
    BY DEF Turns
  <2>2. QED
    BY <1>1, <2>1
<1>3. \A p, q \in Windows' : p = q
  <2>1. \A p \in Windows' : p \in Proc
    BY DEF Windows
  <2>2. QED
    BY <1>1, <2>1 DEF Proper
<1>4. QED
  BY <1>0, <1>1, <1>2, <1>3 DEF Proper

\* The report screen touches no process, and the file only to clear it.
LEMMA ScreenKeeps == ASSUME Proper, ReportScreen PROVE Proper'
<1>1. UNCHANGED <<located, outlaw>> /\ (UNCHANGED file \/ Clear)
  BY DEF ReportScreen
<1>2. UNCHANGED <<run, broken, located>>
  BY <1>1 DEF outlaw
<1>3. ASSUME NEW p \in Proc PROVE Vouched(p)' /\ Speaks(p)'
  <2>1. Errs(p)' => Errs(p)
    BY <1>1 DEF Clear, file, Errs
  <2>2. Vouched(p)' 
    BY <1>2, <1>3 DEF Proper, Vouched, AtWork, command, flag, May, Needed
  <2>3. Speaks(p)'
    BY <1>2, <1>3, <2>1 DEF Proper, Speaks, AtWork, command, Ending
  <2>4. QED
    BY <2>2, <2>3
<1>4. Windows' = Windows
  BY <1>2 DEF Windows, Alive, command
<1>5. QED
  BY <1>2, <1>3, <1>4 DEF Proper

LEMMA FilesOfNext ==
  ASSUME Next
  PROVE  UNCHANGED file \/ \E p \in Proc : FileStep(p)
<1>1. ASSUME NEW p \in Proc, Uses(p) PROVE UNCHANGED file \/ FileStep(p)
  <2>1. CASE Starts(p)
    BY <2>1 DEF Starts, Type, Mistype, Check, Booted, Refused, StartedUp, ScreenFails, ContinueAnyway, incidents
  <2>2. CASE Works(p)
    BY <2>2, BeginsStep DEF Works, Scan, OpensQueue, ChangesMachine, QueueWorked, Forgets, Finishes, Declines,
                Breaks, Logs, Records, Panics, FileStep, IncidentKind
  <2>3. CASE Ends(p)
    BY <2>3 DEF Ends, Exits, Heard, PipeBreaks, Dies, FileStep
  <2>4. QED
    BY <1>1, <2>1, <2>2, <2>3 DEF Uses, Starts, Works, Ends
<1>2. CASE Turns
  BY <1>2 DEF Turns, incidents
<1>3. CASE ReportScreen
  BY <1>3 DEF ReportScreen, Open, FileStep
<1>4. QED
  BY <1>1, <1>2, <1>3 DEF Next

Used == FileTyped /\ History /\ Proper

LEMMA InitUsed == Init => Used
<1> SUFFICES ASSUME Init PROVE Used
  OBVIOUS
<1>1. FileTyped /\ History
  BY FileBegins DEF Init
<1>2. ASSUME NEW p \in Proc PROVE run[p] = Untyped /\ Vouched(p) /\ Speaks(p) /\ p \notin Windows
  <2>1. run[p] = Untyped
    BY <1>2 DEF Init
  <2>2. run[p].at = "untyped" /\ run[p].changed = FALSE
    BY <2>1 DEF Untyped
  <2>3. ~ Errs(p)
    BY <1>2 DEF Init, IncidentsInit, Errs, AtRest, Writer, IncidentKind
  <2>4. QED
    BY <2>1, <2>2, <2>3 DEF Vouched, Speaks, AtWork, Alive, Windows, command, NotAsked, Untyped
<1>3. run \in [Proc -> Run] /\ broken \subseteq Thing
  <2>1. Untyped \in Run
    BY UntypedRuns
  <2>2. QED
    BY <2>1, OutlawAssumption DEF Init
<1>4. QED
  BY <1>1, <1>2, <1>3 DEF Used, Proper, Windows

LEMMA NextUsed == Used /\ [Next]_vars => Used'
<1> SUFFICES ASSUME Used, [Next]_vars PROVE Used'
  OBVIOUS
<1>0. FileTyped /\ History /\ Proper
  BY DEF Used
<1>1. CASE Next
  <2>1. ASSUME UNCHANGED <<log, written, temp, writer, raced>> PROVE FileTyped' /\ History'
    BY <1>0, <2>1 DEF FileTyped, History, Single, HeldBy, Keeps, Held
  <2>2. ASSUME NEW p \in Proc, FileStep(p) PROVE FileTyped' /\ History'
    BY <1>0, <2>2, FileKeeps
  <2>3. ASSUME NEW p \in Proc, Uses(p) PROVE Proper'
    <3>1. Starts(p) \/ Works(p) \/ Ends(p)
      BY <2>3 DEF Uses, Starts, Works, Ends
    <3>2. QED
      BY <1>0, <3>1, StartKeeps, WorkKeeps, EndKeeps
  <2>4. Proper'
    BY <1>0, <1>1, <2>3, TurnKeeps, ScreenKeeps DEF Next
  <2>5. QED
    BY <1>1, <2>1, <2>2, <2>4, FilesOfNext DEF Used, file
<1>2. CASE UNCHANGED vars
  <2>1. UNCHANGED file /\ UNCHANGED <<located, run, broken>>
    BY <1>2 DEF vars, incidents, outlaw
  <2>2. FileTyped' /\ History'
    BY <1>0, <2>1 DEF file, FileTyped, History, Single, HeldBy, Keeps, Held
  <2>3. ASSUME NEW p \in Proc PROVE Vouched(p)' /\ Speaks(p)'
    <3>1. Errs(p)' <=> Errs(p)
      BY <2>1 DEF file, Errs
    <3>2. Vouched(p)'
      BY <1>0, <2>1, <2>3 DEF Proper, Vouched, AtWork, command, flag, May, Needed
    <3>3. Speaks(p)'
      BY <1>0, <2>1, <2>3, <3>1 DEF Proper, Speaks, AtWork, command, Ending
    <3>4. QED
      BY <3>2, <3>3
  <2>4. Windows' = Windows
    BY <2>1 DEF Windows, Alive, command
  <2>5. QED
    BY <1>0, <2>1, <2>2, <2>3, <2>4 DEF Used, Proper
<1>3. QED
  BY <1>1, <1>2

LEMMA AlwaysUsed == Spec => []Used
BY InitUsed, NextUsed, PTL DEF Spec

\* For any number of processes, whatever is asked of each, and whatever breaks
\* and mends meanwhile: nobody changes a machine on which something the tool
\* relies on was out of order all along, unless the person waived the self-test.
THEOREM Vouching == Spec => []VouchedFor
<1>1. Used => VouchedFor
  BY DEF Used, Proper, Vouched, VouchedFor
<1>2. QED
  BY AlwaysUsed, <1>1, PTL

\* Two writers of one process and those of others, killed anywhere or unable to
\* write: as long as nothing was written to the file while it was being rewritten,
\* and no line was cut inside a character, the file is the newest of what was
\* written, as many lines of it as are to be kept.
THEOREM HistoryKept == Spec => []HistoryIsKept
<1>1. Used => HistoryIsKept
  <2> SUFFICES ASSUME Used, ~ raced, Legible(written)
               PROVE  /\ \E n \in 0 .. Len(written) : log = Newest(written, n)
                      /\ Len(log) >= IF Len(written) < KEEP THEN Len(written) ELSE KEEP
    BY DEF HistoryIsKept
  <2>1. log \in Seq(Line) /\ written \in Seq(Line) /\ IsTail(log, written) /\ Len(log) >= Held
    BY DEF Used, FileTyped, History, Keeps
  <2>2. QED
    BY <2>1, TailIsNewest DEF Held
<1>2. QED
  BY AlwaysUsed, <1>1, PTL

\* What a script concludes from the exit code is so, whatever was typed and
\* whichever thread or task of the process panicked meanwhile.
THEOREM CodeSpeaks == Spec => []ExitSpeaks
<1>1. Used => ExitSpeaks
  BY DEF Used, Proper, Speaks, ExitSpeaks, Errs
<1>2. QED
  BY AlwaysUsed, <1>1, PTL

-----------------------------------------------------------------------------
(* The draft.  What is on the screen is theirs only with a report behind it, *)
(* and a reading begun when it was theirs was told to leave it alone.        *)

Reports == [incident_count : Nat, includes_crash : BOOLEAN]

Draft == [generated : Reports \cup {Blank}, text : Reports \cup {Blank, Theirs}, listed : BOOLEAN, loaded : BOOLEAN]
Reading == [at : {"none", "asked", "built"}, keep : BOOLEAN, theirs : BOOLEAN,
            built : Reports \cup {Blank}]

Drafted ==
  /\ draft \in Draft /\ loading \in [Load -> Reading]
  /\ \A l \in Load : loading[l].at = "built" => loading[l].built \in Reports
  /\ draft.text = Theirs => draft.generated \in Reports
  /\ \A l \in Load : loading[l].theirs => loading[l].keep

LEMMA ReportIsOne ==
  /\ \A lines : Report(lines) \in Reports
  /\ Blank \notin Reports /\ Theirs \notin Reports /\ Blank # Theirs
<1>1. \A s : Len(s) \in Nat
  OBVIOUS
<1>2. ASSUME NEW lines PROVE Report(lines) \in Reports
  BY <1>1 DEF Report, Reports
<1>3. Blank.incident_count = -1 /\ Theirs.incident_count = -2
  BY DEF Blank, Theirs
<1>4. \A r \in Reports : r.incident_count \in Nat
  BY DEF Reports
<1>5. QED
  BY <1>2, <1>3, <1>4

LEMMA NotLoadingReads == NotLoading \in Reading /\ NotLoading.at = "none" /\ ~ NotLoading.theirs /\ NoDraft \in Draft /\ NoDraft.text = Blank
BY DEF NotLoading, NoDraft, Reading, Draft

LEMMA InitDrafted == Init => Drafted
BY NotLoadingReads, ReportIsOne DEF Init, IncidentsInit, Drafted

\* One step of the report screen.
ScreenStep(l) == BeginLoad(l) \/ Build(l) \/ Loaded(l) \/ CannotLoad(l) \/ Forget(l)

LEMMA ScreenDrafts ==
  ASSUME Drafted, NEW l \in Load, ScreenStep(l)
  PROVE  /\ Drafted'
         /\ draft.text = Theirs /\ draft'.text # Theirs => Forget(l) \/ (Loaded(l) /\ ~ loading[l].theirs)
<1> DEFINE x == loading[l]
<1>0. x \in Reading /\ draft \in Draft /\ loading \in [Load -> Reading]
  BY DEF Drafted
<1>1. CASE BeginLoad(l)
  <2> DEFINE r == [at |-> "asked", keep |-> edited, theirs |-> draft.text = Theirs, built |-> Blank]
  <2>1. edited \in BOOLEAN /\ (draft.text = Theirs => edited)
    BY ReportIsOne DEF edited, Drafted
  <2>2. r \in Reading /\ r.at = "asked" /\ (r.theirs => r.keep)
    BY <2>1 DEF Reading
  <2>3. loading' = [loading EXCEPT ![l] = r] /\ UNCHANGED draft
    BY <1>1 DEF BeginLoad
  <2> HIDE DEF r
  <2>4. QED
    BY <1>0, <2>1, <2>2, <2>3 DEF Drafted
<1>2. CASE Build(l)
  <2> DEFINE r == [x EXCEPT !.at = "built", !.built = Report(log)]
  <2>1. r \in Reading /\ r.at = "built" /\ r.keep = x.keep /\ r.theirs = x.theirs /\ r.built \in Reports
    BY <1>0, ReportIsOne DEF Reading
  <2>2. x.at = "asked" /\ loading' = [loading EXCEPT ![l] = r] /\ UNCHANGED draft
    BY <1>0, <1>2 DEF Build
  <2> HIDE DEF r
  <2>3. QED
    BY <1>0, <2>1, <2>2 DEF Drafted
<1>3. CASE Loaded(l)
  <2>1. /\ x.at = "built" /\ x.built \in Reports /\ loading' = [loading EXCEPT ![l] = NotLoading]
        /\ draft' = [generated |-> x.built, text |-> IF x.keep THEN draft.text ELSE x.built,
                      listed |-> x.built.incident_count > 0, loaded |-> TRUE]
    BY <1>3 DEF Loaded, Drafted
  <2>2. /\ draft' \in Draft /\ draft'.generated = x.built
        /\ draft'.text = IF x.keep THEN draft.text ELSE x.built
    BY <1>0, <2>1 DEF Draft
  <2>3. loading' \in [Load -> Reading] /\ \A m \in Load : loading'[m] = IF m = l THEN NotLoading ELSE loading[m]
    BY <1>0, <2>1, NotLoadingReads
  <2>4. x.theirs => x.keep
    BY DEF Drafted
  <2>5. QED
    BY <1>3, <2>1, <2>2, <2>3, <2>4, NotLoadingReads, ReportIsOne DEF Drafted
<1>4. CASE CannotLoad(l)
  <2>1. loading' = [loading EXCEPT ![l] = NotLoading] /\ draft' = [draft EXCEPT !.loaded = TRUE]
    BY <1>4 DEF CannotLoad
  <2>2. draft' \in Draft /\ draft'.generated = draft.generated /\ draft'.text = draft.text
    BY <1>0, <2>1 DEF Draft
  <2>3. loading' \in [Load -> Reading] /\ \A m \in Load : loading'[m] = IF m = l THEN NotLoading ELSE loading[m]
    BY <1>0, <2>1, NotLoadingReads
  <2>4. QED
    BY <2>2, <2>3, NotLoadingReads DEF Drafted
<1>5. CASE Forget(l)
  <2> DEFINE r == [NotLoading EXCEPT !.at = "asked"]
  <2>1. loading' = [loading EXCEPT ![l] = r] /\ draft' = [NoDraft EXCEPT !.listed = draft.listed]
    BY <1>5 DEF Forget
  <2>2. draft' \in Draft /\ draft'.text = Blank
    BY <1>0, <2>1 DEF Draft, NoDraft
  <2>3. r \in Reading /\ r.at = "asked" /\ ~ r.theirs
    BY DEF Reading, NotLoading
  <2> HIDE DEF r
  <2>4. QED
    BY <1>0, <1>5, <2>1, <2>2, <2>3, ReportIsOne DEF Drafted
<1>6. QED
  BY <1>1, <1>2, <1>3, <1>4, <1>5 DEF ScreenStep

LEMMA EditDrafts ==
  ASSUME Drafted, PersonTypes \/ Restore
  PROVE  Drafted' /\ (draft.text = Theirs /\ draft'.text # Theirs => Restore)
<1>0. draft \in Draft
  BY DEF Drafted
<1>1. CASE PersonTypes
  <2>1. draft' = [draft EXCEPT !.text = Theirs] /\ UNCHANGED loading /\ draft.generated # Blank
    BY <1>1 DEF PersonTypes
  <2>2. draft' \in Draft /\ draft'.text = Theirs /\ draft'.generated = draft.generated /\ draft.generated \in Reports
    BY <1>0, <2>1 DEF Draft
  <2>3. QED
    BY <2>1, <2>2 DEF Drafted
<1>2. CASE Restore
  <2>1. draft' = [draft EXCEPT !.text = draft.generated] /\ UNCHANGED loading
    BY <1>2 DEF Restore
  <2>2. draft' \in Draft /\ draft'.text = draft.generated /\ draft'.generated = draft.generated
    BY <1>0, <2>1 DEF Draft
  <2>3. draft'.text # Theirs
    BY <1>0, <2>2, ReportIsOne DEF Draft
  <2>4. QED
    BY <1>2, <2>1, <2>2, <2>3 DEF Drafted
<1>3. QED
  BY <1>1, <1>2

LEMMA NextDrafts ==
  ASSUME Used, Drafted, [Next]_vars
  PROVE  /\ Drafted'
         /\ draft.text = Theirs /\ draft'.text # Theirs =>
              \/ Restore \/ (\E l \in Load : Forget(l)) \/ Windows' = {}
              \/ \E l \in Load : Loaded(l) /\ ~ loading[l].theirs
<1>1. CASE UNCHANGED screen
  BY <1>1 DEF screen, Drafted
<1>2. ASSUME NEW p \in Proc, Uses(p) PROVE UNCHANGED screen \/ (Dies(p) /\ command(p) = "window")
  <2>1. CASE Starts(p)
    BY <2>1 DEF Starts, Type, Mistype, Check, Booted, Refused, StartedUp, ScreenFails, ContinueAnyway, incidents, Quiet
  <2>2. CASE Works(p)
    BY <2>2 DEF Works, Scan, OpensQueue, ChangesMachine, QueueWorked, Forgets, Finishes, Declines, Breaks, Logs,
                Records, Panics, Quiet
  <2>3. CASE Ends(p)
    BY <2>3 DEF Ends, Exits, Heard, PipeBreaks, Dies, Quiet
  <2>4. QED
    BY <1>2, <2>1, <2>2, <2>3 DEF Uses, Starts, Works, Ends
<1>3. ASSUME NEW p \in Proc, Dies(p), command(p) = "window" PROVE Drafted' /\ Windows' = {}
  <2>1. draft' = NoDraft /\ loading' = [l \in Load |-> NotLoading] /\ Alive(p)
    BY <1>3 DEF Dies
  <2>2. Drafted'
    BY <2>1, NotLoadingReads, ReportIsOne DEF Drafted
  <2>3. p \in Windows /\ \A q \in Windows : q = p
    BY <1>3, <2>1 DEF Used, Proper, Windows
  <2>4. run'[p].at = "gone" /\ \A q \in Proc \ {p} : run'[q] = run[q]
    <3>1. /\ Set(p, [Untyped EXCEPT !.at = "gone"]) /\ run \in [Proc -> Run]
          /\ [Untyped EXCEPT !.at = "gone"] \in Run /\ [Untyped EXCEPT !.at = "gone"].at = "gone"
      <4>1. Untyped \in Run
        BY UntypedRuns
      <4>2. [Untyped EXCEPT !.at = "gone"] \in Run
        BY <4>1 DEF Run
      <4>3. QED
        BY <1>3, <4>2 DEF Dies, Used, Proper, Untyped
    <3>2. QED
      BY <3>1, SetIs
  <2>5. Windows' = {}
    <3>1. \A q \in Proc : ~ (Alive(q)' /\ command(q)' = "window")
      BY <2>3, <2>4 DEF Windows, Alive, command
    <3>2. QED
      BY <3>1 DEF Windows
  <2>6. QED
    BY <2>2, <2>5
<1>4. CASE Turns \/ UNCHANGED vars
  <2>1. UNCHANGED screen
    BY <1>4 DEF Turns, vars, incidents
  <2>2. QED
    BY <1>1, <2>1
<1>5. CASE ReportScreen
  <2>1. PersonTypes \/ Restore \/ \E l \in Load : ScreenStep(l)
    BY <1>5 DEF ReportScreen, ScreenStep
  <2>2. QED
    BY <2>1, ScreenDrafts, EditDrafts
<1>6. QED
  BY <1>1, <1>2, <1>3, <1>4, <1>5 DEF Next

\* Whatever is loaded, refreshed or forgotten, and whenever they type: what the
\* person has written leaves the screen only when they ask for it, with the
\* window, or with a reading that was begun before they wrote it.
THEOREM EditsKept == Spec => EditsAreKept
<1>1. Used /\ Drafted /\ [Next]_vars => Drafted'
  BY NextDrafts
<1>2. Used /\ Drafted /\ [Next]_vars =>
        [draft.text = Theirs /\ draft'.text # Theirs =>
           \/ Restore \/ (\E l \in Load : Forget(l)) \/ Windows' = {}
           \/ \E l \in Load : Loaded(l) /\ ~ loading[l].theirs]_vars
  BY NextDrafts
<1>3. QED
  BY InitDrafted, AlwaysUsed, <1>1, <1>2, PTL DEF Spec, EditsAreKept
=============================================================================
