------------------------------ MODULE Critter ------------------------------
(* A CritterScript from the text to its end: it is read, and what was read  *)
(* is run, as somebody who may change things or as a guest who may not      *)
(* (crates/ork-critter/src/run.rs, `run`, `run_as_guest` and `check`).      *)
(* Beside the run two others of the same script are kept, to compare it     *)
(* with: anybody's, and that of the script with its pipelines written out.  *)
EXTENDS Running

CONSTANTS
  Scripts,          \* the scripts somebody may write
  Reader(_),        \* what a script is read as: a body, or a refusal
  Unchainer(_),     \* a body with the steps of its pipelines one after another,
  AnswerNames       \* each answer under one of these names

VARIABLES
  source,       \* the script, as its lines
  tree,         \* what it was read as
  at,           \* "written", "refused", "read" or "running"
  guest,        \* whether who runs it may only look
  run,          \* the run
  anybody,      \* the same script, run by somebody who may change things
  plain         \* the same script written out, run by whoever runs it

critter == <<source, tree, at, guest, run, anybody, plain>>

CritterInit ==
  /\ source \in Scripts
  /\ tree = <<>>
  /\ at = "written"
  /\ guest = FALSE
  /\ run = Start(<<>>) /\ anybody = run /\ plain = run

Read ==
  /\ at = "written"
  /\ LET read == Reader(source) IN
       IF read.ok THEN tree' = read.body /\ at' = "read" ELSE tree' = tree /\ at' = "refused"
  /\ UNCHANGED <<source, guest, run, anybody, plain>>

RunAs(whom) ==
  /\ at = "read"
  /\ at' = "running" /\ guest' = whom
  /\ run' = Start(tree) /\ anybody' = Start(tree) /\ plain' = Start(Unchainer(tree))
  /\ UNCHANGED <<source, tree>>

Step ==
  /\ at = "running"
  /\ ~(Over(run) /\ Over(anybody) /\ Over(plain))
  /\ run' = Advance(run, guest) /\ anybody' = Advance(anybody, FALSE)
  /\ plain' = Advance(plain, guest)
  /\ UNCHANGED <<source, tree, at, guest>>

CritterNext == Read \/ Step \/ \E whom \in BOOLEAN : RunAs(whom)

CritterSpec == CritterInit /\ [][CritterNext]_critter

----------------------------------------------------------------------------
(* Properties.                                                              *)

\* A guest's run does what anybody's does, up to the first command that is not
\* for looking, and never that one: not as a statement, as a step of a
\* pipeline, inside brackets or in a function's body.
GuestOnlyLooks ==
  at = "running" /\ guest =>
    /\ \A i \in DOMAIN run.did : Registry[run.did[i]].guest_safe
    /\ IsPrefix(run.did, anybody.did)
    /\ IsPrefix(run.said, anybody.said)
    /\ run.fault # "looking only" => run = anybody

\* A pipeline is its steps written out, each answer under a name of its own:
\* the same is said and done and the script's variables end the same, `$it`
\* among them, so that no later line sees an answer a pipeline left behind.
\* (Written out it takes more steps, and may be the one to run out of them.)
EndsAs(held) ==
  LET kept == {name \in DOMAIN plain.vars : name \notin held} IN
  plain.fault # "too many steps" =>
    /\ plain.fault = ""
    /\ run.said = plain.said /\ run.did = plain.did /\ run.returned = plain.returned
    /\ DOMAIN run.vars = kept
    /\ \A name \in kept : run.vars[name] = plain.vars[name]
PipeIsItsSteps ==
  at = "running" /\ Over(run) /\ Over(plain) /\ run.fault = "" => EndsAs(AnswerNames)
=============================================================================
