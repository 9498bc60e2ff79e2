------------------------------- MODULE Launch -------------------------------
(***************************************************************************)
(* Testing an application by starting it (launch.rs): only when it is not   *)
(* already running, watched until it exits or a settling time is over, then *)
(* asked to quit.  What is started is a wrapper; the client it starts is    *)
(* the application, of which there is one at a time: starting it again      *)
(* ends at the one that runs.                                               *)
(***************************************************************************)
EXTENDS Integers

CONSTANTS
  SETTLE,      \* polls without an exit after which it has started
  MaxTests,    \* bound: tests
  MaxStarts    \* bound: times the person starts the application

ASSUME LaunchAssumption == {SETTLE, MaxTests, MaxStarts} \subseteq Nat

VARIABLES
  app,       \* who started the application that runs: "none", "we", "you"
  wrapper,   \* what was spawned: "none", "up", "exited well", "exited badly"
  step,      \* where the test is
  polls,     \* looks at the wrapper so far
  result,    \* what the last test observed
  before,    \* history: the application that ran when this test began is the one of now
  closed,    \* history: whose application this test has closed
  tests, starts

launch == <<app, wrapper, step, polls, result, before, closed, tests, starts>>

LaunchStep == {"idle", "begun", "not running", "located", "watching", "exited", "waiting", "done"}
LaunchResult == {"none", "started", "failed", "exited immediately", "already running",
                 "not found", "could not test"}

LaunchInit ==
  /\ app = "none" /\ wrapper = "none" /\ step = "idle" /\ polls = 0
  /\ result = "none" /\ before = FALSE /\ closed = {} /\ tests = 0 /\ starts = 0

\* a test is over: the wrapper it leaves is as the parameter says
Conclude(observed, leaves) ==
  /\ result' = observed /\ step' = "done" /\ wrapper' = leaves
  /\ UNCHANGED <<polls, before, tests, starts>>

-----------------------------------------------------------------------------
(* The person, and the application.                                        *)

YouStart ==
  /\ starts < MaxStarts /\ app = "none"
  /\ starts' = starts + 1 /\ app' = "you"
  /\ UNCHANGED <<wrapper, step, polls, result, before, closed, tests>>

\* closed by the person, or gone by itself
AppQuits ==
  /\ app # "none" /\ app' = "none" /\ before' = FALSE
  /\ UNCHANGED <<wrapper, step, polls, result, closed, tests, starts>>

\* the wrapper starts the client, unless one is there to hand over to
WrapperStarts ==
  /\ wrapper = "up" /\ app = "none" /\ app' = "we"
  /\ UNCHANGED <<wrapper, step, polls, result, before, closed, tests, starts>>

WrapperExits ==
  /\ wrapper = "up" /\ wrapper' \in {"exited well", "exited badly"}
  /\ UNCHANGED <<app, step, polls, result, before, closed, tests, starts>>

-----------------------------------------------------------------------------
(* The test.                                                               *)

\* the names looked for are those of the client, and of the wrapper
Running == app # "none" \/ wrapper = "up"

BeginTest ==
  /\ step = "idle" /\ tests < MaxTests
  /\ step' = "begun" /\ tests' = tests + 1 /\ before' = (app # "none") /\ closed' = {} /\ polls' = 0
  /\ UNCHANGED <<app, wrapper, result, starts>>

\* (AskWrapperOnly is a mutant: only the name of what is spawned is looked for.)
AskWrapperOnly ==
  /\ step = "begun" /\ wrapper # "up" /\ step' = "not running"
  /\ UNCHANGED <<app, closed, wrapper, polls, result, before, tests, starts>>

\* running(): yes, no, or a list of processes that could not be read
AskRunning ==
  /\ step = "begun" /\ UNCHANGED <<app, closed>>
  /\ \/ Running /\ Conclude("already running", wrapper)
     \/ Conclude("could not test", wrapper)
     \/ /\ ~ Running /\ step' = "not running"
        /\ UNCHANGED <<wrapper, polls, result, before, tests, starts>>

Locate ==
  /\ step = "not running" /\ UNCHANGED <<app, closed>>
  /\ \/ Conclude("not found", wrapper)
     \/ /\ step' = "located"
        /\ UNCHANGED <<wrapper, polls, result, before, tests, starts>>

Spawn ==
  /\ step = "located" /\ UNCHANGED <<app, closed>>
  /\ \/ Conclude("could not test", wrapper)
     \/ /\ step' = "watching" /\ wrapper' = "up"
        /\ UNCHANGED <<polls, result, before, tests, starts>>

\* try_wait: nothing yet, and the settling time is not over
PollUp ==
  /\ step = "watching" /\ wrapper = "up" /\ polls < SETTLE
  /\ polls' = polls + 1
  /\ UNCHANGED <<app, wrapper, step, result, before, closed, tests, starts>>

PollError ==
  /\ step = "watching" /\ UNCHANGED <<app, closed>>
  /\ Conclude("could not test", "none")

PollExited ==
  /\ step = "watching" /\ UNCHANGED <<app, closed>>
  /\ \/ wrapper = "exited badly" /\ Conclude("failed", "none")
     \/ /\ wrapper = "exited well" /\ step' = "exited"
        /\ UNCHANGED <<wrapper, polls, result, before, tests, starts>>

\* asking the application to quit closes the one that runs, whoever started it
Quits ==
  /\ app' = "none" /\ closed' = closed \cup ({app} \ {"none"})

\* it exited well: if the application runs now it is asked to quit
AfterExit ==
  /\ step = "exited"
  /\ \/ app # "none" /\ Quits /\ Conclude("started", "none")
     \/ app # "none" /\ UNCHANGED <<app, closed>> /\ Conclude("started", "none")
     \/ UNCHANGED <<app, closed>> /\ Conclude("exited immediately", "none")

\* still up after the settling time: asked to quit, and waited for; or, when
\* asking does not work, the wrapper is killed and whatever it started stays
Settled ==
  /\ step = "watching" /\ wrapper = "up" /\ polls >= SETTLE
  /\ \/ /\ Quits /\ step' = "waiting"
        /\ UNCHANGED <<wrapper, polls, result, before, tests, starts>>
     \/ UNCHANGED <<app, closed>> /\ Conclude("started", "none")

\* child.wait has no end of its own
Waited ==
  /\ step = "waiting" /\ wrapper # "up" /\ UNCHANGED <<app, closed>>
  /\ Conclude("started", "none")

TestStep ==
  \/ AskRunning \/ Locate \/ Spawn \/ PollUp \/ PollError \/ PollExited
  \/ AfterExit \/ Settled \/ Waited
WorldStep == YouStart \/ AppQuits \/ WrapperStarts \/ WrapperExits
=============================================================================
