------------------------------- MODULE Setup --------------------------------
(***************************************************************************)
(* The installer: the job (crates/ork-setup/src/job.rs), what it puts on   *)
(* the machine and the record it leaves (install.rs, model.rs), what it    *)
(* fetches and how that is verified (release.rs), and the pages around it  *)
(* (ui.rs).  Several runs follow each other in one folder; any of them may *)
(* be cut off by closing the window or losing power.                       *)
(***************************************************************************)
EXTENDS Integers, FiniteSets

CONSTANTS
  Release,   \* published versions
  Wishes,    \* what people tick, a subset of Wish
  Systems,   \* those it is run on: TRUE is Windows, FALSE is Linux
  Mishaps,   \* subset of {"network", "disk", "denied", "cut"}
  MaxRuns,   \* bound: how often Install is pressed
  Absent,
  Torn       \* what a file holds when its writing was cut off

Wish == [desktop : BOOLEAN, add_to_path : BOOLEAN, shortcut : BOOLEAN,
         model : {"no", "pull", "pull and install Ollama"}]

ASSUME SetupAssumption ==
  /\ Wishes \subseteq Wish
  /\ Absent \notin Release /\ Torn \notin Release /\ Absent # Torn
  /\ Systems \subseteq BOOLEAN /\ MaxRuns \in Nat

VARIABLES
  windows,  \* is this Windows?
  page,     \* Setup::page
  listed,   \* Releases: "loading", "ready" or "failed"
  choices,  \* Choices of the run under way
  stage,    \* how far carry_out is
  program,  \* what is under the program's name, its .incoming and its .old
  bundles,  \* the window's bundles in the folder, each named for its version
  world,    \* what else is on the machine
  steps,    \* the receipt in memory
  receipt,  \* install-receipt.json
  runs,     \* history: how often Install was pressed
  kept      \* history: the program was put in place, and no renaming of it stopped half way

setup == <<windows, page, listed, choices, stage, program, bundles, world, steps, receipt, runs, kept>>
pages == <<windows, page, listed, choices, runs>>
machine == <<windows, program, bundles, world, receipt>>

Content == Release \cup {Absent, Torn}
Slot == [name : Content, incoming : Content, old : Content]
Extra == {"window", "window file", "link", "path", "shim", "terminal entry",
          "window entry", "Ollama", "model"}
Step == {"program", "bundle"} \cup Extra
SetupChoices == [release : Release, wish : Wishes]
Receipt == [version : Release, steps : SUBSET Step]
Stage == {"off", "sums", "program", "writing", "retiring", "renaming", "desktop",
          "window", "linking", "pathing", "terminal", "entry", "model", "recording",
          "finished", "failed"}

SetupTypeOK ==
  /\ windows \in Systems
  /\ page \in {"welcome", "choose", "working", "done"}
  /\ listed \in {"loading", "ready", "failed"}
  /\ choices \in SetupChoices \cup {Absent}
  /\ stage \in Stage
  /\ program \in Slot
  /\ bundles \subseteq Release
  /\ world \subseteq Extra
  /\ steps \subseteq Step
  /\ receipt \in Receipt \cup {Absent}
  /\ runs \in Nat /\ kept \in BOOLEAN

(* A machine may have Ollama, and on Linux the window as install.sh leaves  *)
(* it: an AppImage under the name window_file_name() gives.                 *)
SetupInit ==
  /\ windows \in Systems
  /\ page = "welcome" /\ listed = "loading" /\ choices = Absent
  /\ stage = "off"
  /\ program = [name |-> Absent, incoming |-> Absent, old |-> Absent]
  /\ bundles = {} /\ world \in SUBSET ({"Ollama"} \cup IF windows THEN {} ELSE {"window file"})
  /\ steps = {} /\ receipt = Absent
  /\ runs = 0 /\ kept = FALSE

-----------------------------------------------------------------------------
(* The pages.                                                              *)

ReleasesArrive ==
  /\ listed = "loading" /\ listed' \in {"ready", "failed"}
  /\ UNCHANGED <<page, choices, stage, steps, runs, kept>> /\ UNCHANGED machine

Turn(from, to) == page = from /\ page' = to

Continue ==
  /\ listed = "ready" /\ Turn("welcome", "choose")
  /\ UNCHANGED <<listed, choices, stage, steps, runs, kept>> /\ UNCHANGED machine

Back ==
  /\ \/ Turn("choose", "welcome") /\ UNCHANGED stage
     \/ Turn("done", "choose") /\ stage = "failed" /\ stage' = "off"
  /\ UNCHANGED <<listed, choices, steps, runs, kept>> /\ UNCHANGED machine

\* Setup::start: a new receipt, whatever the folder already records
Start(c) ==
  /\ Turn("choose", "working")
  /\ choices' = c /\ stage' = "sums" /\ steps' = {}
  /\ runs < MaxRuns /\ runs' = runs + 1
  /\ UNCHANGED <<listed, kept>> /\ UNCHANGED machine

\* Setup::drain hears Finished or Failed
Drain ==
  /\ stage \in {"finished", "failed"} /\ Turn("working", "done")
  /\ UNCHANGED <<listed, choices, stage, steps, runs, kept>> /\ UNCHANGED machine

\* the window is closed, or the machine goes down; the installer is started again
Restart ==
  /\ "cut" \in Mishaps \/ page = "done"
  /\ page' = "welcome" /\ listed' = "loading" /\ choices' = Absent
  /\ stage' = "off" /\ steps' = {}
  /\ kept' = (kept /\ (stage = "renaming" => program.name # Absent))
  /\ UNCHANGED runs /\ UNCHANGED machine

-----------------------------------------------------------------------------
(* The job.                                                                *)

Goes(from, to) == stage = from /\ stage' = to
Fails(from, fault) == fault \in Mishaps /\ Goes(from, "failed")

\* what an earlier run left behind is cleared
Tidied(slot) == [slot EXCEPT !.incoming = Absent, !.old = Absent]

\* 1. The checksums, then tidy: a retired program is gone before anything
\* new has come.
FetchSums ==
  /\ \/ Fails("sums", "network") /\ UNCHANGED program
     \/ /\ Goes("sums", "program")
        /\ program' = Tidied(program)
  /\ UNCHANGED <<bundles, world, steps, receipt, kept>> /\ UNCHANGED pages

FetchInPlace ==
  /\ \/ Fails("program", "network") /\ UNCHANGED program
     \/ Goes("program", "writing") /\ program' = [program EXCEPT !.name = Torn]
  /\ UNCHANGED <<bundles, world, steps, receipt, kept>> /\ UNCHANGED pages

\* 2. fetch_verified: what cannot be had, or does not match its published
\* checksum, never reaches the file system.  Then place, in four steps.
FetchProgram ==
  /\ \/ Fails("program", "network") /\ UNCHANGED program
     \/ Goes("program", "writing") /\ program' = [program EXCEPT !.incoming = Torn]
  /\ UNCHANGED <<bundles, world, steps, receipt, kept>> /\ UNCHANGED pages

Write ==
  /\ \/ Fails("writing", "disk") /\ UNCHANGED program
     \/ /\ Goes("writing", "retiring")
        /\ program' = [program EXCEPT !.incoming = choices.release]
  /\ UNCHANGED <<bundles, world, steps, receipt, kept>> /\ UNCHANGED pages

\* the old program is moved aside; one that cannot be moved is removed, and
\* one that cannot be removed stays
Retire ==
  /\ Goes("retiring", "renaming")
  /\ \/ program' = IF program.name = Absent THEN program
                    ELSE [program EXCEPT !.name = Absent, !.old = program.name]
     \/ /\ "denied" \in Mishaps /\ program.name # Absent
        /\ program' \in {[program EXCEPT !.name = n, !.old = Absent] : n \in {Absent, program.name}}
  /\ UNCHANGED <<bundles, world, steps, receipt, kept>> /\ UNCHANGED pages

Rename ==
  /\ \/ /\ Fails("renaming", "denied") /\ kept' = (kept /\ program.name # Absent)
        /\ UNCHANGED <<program, steps>>
     \/ /\ Goes("renaming", IF choices.wish.desktop THEN "desktop" ELSE "linking")
        /\ program' = [program EXCEPT !.name = program.incoming, !.incoming = Absent]
        /\ steps' = steps \cup {"program"} /\ kept' = TRUE
  /\ UNCHANGED <<bundles, world, receipt>> /\ UNCHANGED pages

\* 3. The window's bundle, verified and placed under the name it was
\* published with, or a warning that there is none for this platform
FetchBundle ==
  /\ \/ /\ "network" \in Mishaps /\ Goes("desktop", "linking")
        /\ UNCHANGED <<bundles, steps>>
     \/ (Fails("desktop", "network") \/ Fails("desktop", "disk")) /\ UNCHANGED <<bundles, steps>>
     \/ /\ Goes("desktop", "window")
        /\ bundles' = bundles \cup {choices.release} /\ steps' = steps \cup {"bundle"}
  /\ UNCHANGED <<program, world, receipt, kept>> /\ UNCHANGED pages

KeepBundle ==
  /\ Goes("window", "linking")
  /\ world' = world \cup {"window"} /\ steps' = steps \cup {"window"}
  /\ bundles' = IF windows THEN bundles \ {choices.release} ELSE bundles
  /\ UNCHANGED <<program, receipt, kept>> /\ UNCHANGED pages

\* a Windows bundle is an installer, a Linux one is the program
BundleIsDisposable == windows

\* The bundle is run, or on Linux made executable, which is all it needs.  An
\* installer that ended with zero is believed: where it left no window after
\* all there is a warning and nothing else.
RunsWindowInstaller ==
  \/ world' = world \cup {"window"}
  \/ windows /\ UNCHANGED world

\* a bundle that has done its job is removed, and the receipt is told
RunWindow ==
  /\ Goes("window", "linking")
  /\ \/ "denied" \in Mishaps /\ UNCHANGED <<bundles, world, steps>>
     \/ /\ RunsWindowInstaller
        /\ \/ /\ BundleIsDisposable /\ bundles' = bundles \ {choices.release}
              /\ steps' = (steps \ {"bundle"}) \cup {"window"}
           \/ /\ ~ BundleIsDisposable \/ "denied" \in Mishaps
              /\ steps' = steps \cup {"window"} /\ UNCHANGED bundles
  /\ UNCHANGED <<program, receipt, kept>> /\ UNCHANGED pages

(* 4. The conveniences.  What is ticked is made and written down; what       *)
(* fails is a warning, and may have undone or left behind something.         *)
Makes(ticked, things, leftovers) ==
  /\ \/ ~ ticked /\ UNCHANGED <<world, steps>>
     \/ ticked /\ world' = world \cup things /\ steps' = steps \cup things
     \/ ticked /\ "denied" \in Mishaps /\ world' \in leftovers /\ UNCHANGED steps
  /\ UNCHANGED <<program, bundles, receipt, kept>> /\ UNCHANGED pages

\* nothing to do on Windows, where the program's directory is the one on PATH;
\* an earlier link is removed before there is another
LinkIntoPath ==
  /\ Goes("linking", "pathing")
  /\ Makes(choices.wish.add_to_path /\ ~ windows, {"link"}, {world, world \ {"link"}})

\* the directory is in the list already: on Windows the account's list is the
\* one that counts, and it is reported as added all the same
AlreadyOnPath ==
  /\ choices.wish.add_to_path /\ "path" \in world
  /\ UNCHANGED <<world, steps, program, bundles, receipt, kept>> /\ UNCHANGED pages

AddToPath ==
  /\ Goes("pathing", "terminal")
  /\ \/ AlreadyOnPath
     \/ /\ "path" \in world => windows \/ ~ choices.wish.add_to_path
        /\ Makes(choices.wish.add_to_path, {"path"}, {world})

\* write_terminal_shim, then make_shortcut, which may fail by itself
TerminalShortcut ==
  /\ Goes("terminal", "entry")
  /\ Makes(choices.wish.shortcut, {"shim", "terminal entry"}, {world, world \cup {"shim"}})

\* a window in the folder is one called window_file_name()
WindowShortcut ==
  /\ Goes("entry", IF choices.wish.model = "no" THEN "recording" ELSE "model")
  /\ Makes(choices.wish.shortcut /\ ~ windows /\ "window file" \in world,
           {"window entry"}, {world})

Conveniences == LinkIntoPath \/ AddToPath \/ TerminalShortcut \/ WindowShortcut

\* 5. The model: Ollama first, where there is a command to install it, then
\* the pull, where Ollama is found to pull it.  The installer of Ollama is
\* believed like the window's: what ended well is on the receipt, and what is
\* left on the machine may be less, or more where it failed.
GetModel ==
  /\ Goes("model", "recording")
  /\ \E well, left \in SUBSET {"Ollama", "model"} :
       /\ "Ollama" \in well \cup left =>
            windows /\ choices.wish.model = "pull and install Ollama" /\ "Ollama" \notin world
       /\ "model" \in well \cup left =>
            "Ollama" \in world \cup well /\ "Ollama" \in world \cup left
       /\ "model" \in well => "model" \in left
       /\ world' = world \cup left /\ steps' = steps \cup well
  /\ UNCHANGED <<program, bundles, receipt, kept>> /\ UNCHANGED pages

\* 6. The receipt, in place of the one that is there
WriteReceipt ==
  /\ \/ Fails("recording", "disk") /\ UNCHANGED receipt
     \/ /\ Goes("recording", "finished")
        /\ receipt' = [version |-> choices.release, steps |-> steps]
  /\ UNCHANGED <<program, bundles, world, steps, kept>> /\ UNCHANGED pages

-----------------------------------------------------------------------------
Place == Write \/ Retire \/ Rename
Job ==
  \/ FetchSums \/ FetchProgram \/ Place
  \/ FetchBundle \/ RunWindow \/ Conveniences \/ GetModel \/ WriteReceipt
Pages ==
  \/ ReleasesArrive \/ Continue \/ Back \/ Drain \/ Restart
  \/ \E c \in SetupChoices : Start(c)

SetupNext == Job \/ Pages

SetupSpec == SetupInit /\ [][SetupNext]_setup

-----------------------------------------------------------------------------
(* Properties.                                                             *)

\* However runs fail, are cut off and are started again, what is under the
\* program's name is a whole program, and once a run put one there it is
\* there, but for the moment between the two renames and after a run that was
\* stopped right there (install.rs:123-160).
WholeProgram ==
  /\ program.name # Torn
  /\ kept /\ stage # "renaming" => program.name # Absent

\* What another's installer is believed to have done.
Believed == {"Ollama"} \cup IF windows THEN {"window"} ELSE {}

\* When the installer says it is finished, the receipt it leaves names the
\* version that is in place, and lists nothing of the installer's own making
\* that is not on the machine: a bundle that was removed again is not on it.
\* What is left to another's installer is listed when that ended with zero,
\* whatever it left behind; a model is listed only where there is an Ollama
\* that pulled it (job.rs:219-526).
ReceiptIsTrue ==
  stage = "finished" =>
    /\ receipt.version = choices.release /\ program.name = choices.release
    /\ "bundle" \in receipt.steps => choices.release \in bundles
    /\ receipt.steps \ ({"program", "bundle"} \cup Believed) \subseteq world
    /\ "model" \in receipt.steps => "Ollama" \in world

\* What docs/install.md:42-46 says: on Linux the installer adds an entry for
\* the window too.
WindowIsReachable ==
  stage = "finished" /\ ~ windows /\ choices.wish.shortcut /\ {"bundle", "window"} \subseteq steps
    => "window entry" \in world
=============================================================================
