-------------------------------- MODULE Link --------------------------------
(***************************************************************************)
(* Lending a model: the host's service (crates/ork-link/src/server.rs), a  *)
(* machine that joins it (client.rs, pair.rs), both books of linked        *)
(* machines (peer.rs) and the commands around them (linking.rs of the      *)
(* window, crates/ork-cli/src/link.rs).                                    *)
(*                                                                         *)
(* A session is one HostState: one start of lending, in the window or in a *)
(* terminal; several may run at once, each with its own copy of the list   *)
(* of linked machines, over one peers.json.  A request is one POST to      *)
(* /ork/v1/pair.  Its nonce is fresh, so the token both ends derive from   *)
(* it is named by the request itself.  Codes, sessions and requests are    *)
(* interchangeable: the next unused one is taken.  An errand is a command  *)
(* beside the sessions that reads peers.json and writes it back later:     *)
(* unlinking a machine, or joining another machine to borrow from it.      *)
(***************************************************************************)
EXTENDS Integers, FiniteSets

CONSTANTS
  Joiner,     \* machines that ask to be linked
  Code,       \* pairing codes; a shown one is never drawn again
  Session,    \* HostStates, each started once
  Request,    \* pairing requests, each sent once
  Errand,     \* link_join and link_remove on the host, while they run
  MaxWrong,   \* MAX_PAIRING_ATTEMPTS
  Faults,     \* subset of {"save", "slow"}
  None

ASSUME LinkAssumption ==
  /\ MaxWrong \in Nat \ {0}
  /\ None \notin Code \cup Session \cup Request

VARIABLES
  session,  \* [Session -> "new", "open" or "stopped"]
  showing,  \* [Session -> ActivePairing]
  book,     \* [Session -> [Joiner -> the request whose token it honours]]
  disk,     \* peers.json of the host, a book; None where it is torn
  copy,     \* [Errand -> the book it has read and not yet written, or None]
  job,      \* [Request -> what its handler has reached]
  kept,     \* [Joiner -> the request whose token it keeps for the host]
  waiting,  \* [Joiner -> the request it is waiting on]
  spent,    \* codes that were drawn
  wrongs,   \* history: [Code -> wrong tries answered while it was showing]
  smooth    \* history: machines whose link nothing got in the way of

vars == <<session, showing, book, disk, copy, job, kept, waiting, spent, wrongs, smooth>>

Book == [Joiner -> Request \cup {None}]
NoPairing == [code |-> None, wrong |-> 0, old |-> FALSE]
Pairing == [code : Code, wrong : 0 .. MaxWrong, old : BOOLEAN] \cup {NoPairing}
Unsent == [at |-> "unsent", by |-> None, host |-> None, code |-> None]
Reply == {"refused", "failed", "linked"}
Stage == {"sent", "accepted", "recorded"} \cup Reply
Job == [at : Stage, by : Joiner, host : Session, code : Code] \cup {Unsent}

TypeOK ==
  /\ session \in [Session -> {"new", "open", "stopped"}]
  /\ showing \in [Session -> Pairing]
  /\ book \in [Session -> Book]
  /\ disk \in Book \cup {None}
  /\ copy \in [Errand -> Book \cup {None}]
  /\ job \in [Request -> Job]
  /\ kept \in Book
  /\ waiting \in Book
  /\ spent \subseteq Code
  /\ wrongs \in [Code -> Nat]
  /\ smooth \subseteq Joiner

Open(s) == session[s] = "open"
Usable(p) == p.code # None /\ ~ p.old /\ p.wrong < MaxWrong
Reaches(r, stage) == job' = [job EXCEPT ![r].at = stage]

\* a session that may yet save its copy of the list: one that serves, or one
\* that was stopped and still has a handler to finish
MaySave(s) == Open(s) \/ \E r \in Request : job[r].host = s /\ job[r].at = "accepted"

\* nobody but this session has a copy of the list in hand
Alone(s) ==
  /\ \A t \in Session : MaySave(t) => t = s
  /\ \A e \in Errand : copy[e] = None

(* HostState::authorised *)
Authorised(s, j) == kept[j] # None /\ book[s][j] = kept[j]

Init ==
  /\ session = [s \in Session |-> "new"]
  /\ showing = [s \in Session |-> NoPairing]
  /\ book = [s \in Session |-> [j \in Joiner |-> None]]
  /\ disk = [j \in Joiner |-> None]
  /\ copy = [e \in Errand |-> None]
  /\ job = [r \in Request |-> Unsent]
  /\ kept = [j \in Joiner |-> None]
  /\ waiting = [j \in Joiner |-> None]
  /\ spent = {}
  /\ wrongs = [c \in Code |-> 0]
  /\ smooth = Joiner

-----------------------------------------------------------------------------
(* The host.                                                               *)

OpenPairing(s) ==
  LET c == CHOOSE d \in Code : d \notin spent IN
  /\ spent # Code
  /\ spent' = spent \cup {c}
  /\ showing' = [showing EXCEPT ![s] = [code |-> c, wrong |-> 0, old |-> FALSE]]

\* link_host_start, `outlaw link host`.  The window refuses a second session
\* of its own; nothing refuses one in a terminal, on another port.
HostStart(s) ==
  /\ session[s] = "new" /\ disk # None
  /\ s = CHOOSE t \in Session : session[t] = "new"
  /\ session' = [session EXCEPT ![s] = "open"]
  /\ book' = [book EXCEPT ![s] = disk]
  /\ OpenPairing(s)
  /\ UNCHANGED <<disk, copy, job, kept, waiting, wrongs, smooth>>

\* link_pair_reopen
Reopen(s) ==
  /\ Open(s) /\ OpenPairing(s)
  /\ UNCHANGED <<session, book, disk, copy, job, kept, waiting, wrongs, smooth>>

\* link_host_stop, Ctrl-C.  A handler that is running finishes: shutdown is
\* graceful.  Where the process is killed it never takes its next step.
HostStop(s) ==
  /\ Open(s)
  /\ session' = [session EXCEPT ![s] = "stopped"]
  /\ showing' = [showing EXCEPT ![s] = NoPairing]
  /\ UNCHANGED <<book, disk, copy, job, kept, waiting, spent, wrongs, smooth>>

\* PAIRING_WINDOW passes
GrowsOld(s) ==
  /\ showing[s].code # None /\ ~ showing[s].old
  /\ showing' = [showing EXCEPT ![s].old = TRUE]
  /\ UNCHANGED <<session, book, disk, copy, job, kept, waiting, spent, wrongs, smooth>>

(* handle_pair, under the lock on the code *)

Refuse(r) ==
  LET s == job[r].host IN
  /\ job[r].at = "sent" /\ Open(s) /\ ~ Usable(showing[s])
  /\ showing' = [showing EXCEPT ![s] = NoPairing]
  /\ Reaches(r, "refused")
  /\ UNCHANGED <<session, book, disk, copy, kept, waiting, spent, wrongs, smooth>>

WrongCodeUncounted(r) ==
  LET s == job[r].host IN
  /\ job[r].at = "sent" /\ Open(s) /\ Usable(showing[s])
  /\ job[r].code # showing[s].code
  /\ wrongs' = [wrongs EXCEPT ![showing[s].code] = @ + 1]
  /\ Reaches(r, "refused")
  /\ UNCHANGED <<session, showing, book, disk, copy, kept, waiting, spent, smooth>>

WrongCode(r) ==
  LET s == job[r].host
      p == showing[s]
  IN
  /\ job[r].at = "sent" /\ Open(s) /\ Usable(p) /\ job[r].code # p.code
  /\ showing' = [showing EXCEPT ![s] =
       IF p.wrong + 1 >= MaxWrong THEN NoPairing ELSE [p EXCEPT !.wrong = @ + 1]]
  /\ wrongs' = [wrongs EXCEPT ![p.code] = @ + 1]
  /\ Reaches(r, "refused")
  /\ UNCHANGED <<session, book, disk, copy, kept, waiting, spent, smooth>>

RightCode(r) ==
  LET s == job[r].host IN
  /\ job[r].at = "sent" /\ Open(s) /\ Usable(showing[s])
  /\ job[r].code = showing[s].code
  /\ Reaches(r, "accepted")
  /\ UNCHANGED <<session, showing, book, disk, copy, kept, waiting, spent, wrongs, smooth>>

RecordUnsaved(r) ==
  /\ job[r].at = "accepted"
  /\ book' = [book EXCEPT ![job[r].host][job[r].by] = r]
  /\ Reaches(r, "recorded")
  /\ UNCHANGED <<session, showing, disk, copy, kept, waiting, spent, wrongs, smooth>>

(* handle_pair, under the lock on the book: upsert and save, the whole of   *)
(* this session's copy over whatever the file holds.  A save that fails    *)
(* leaves the machine in the copy, and the file as it was or torn.         *)
Record(r) ==
  LET s == job[r].host
      j == job[r].by
      now == [book[s] EXCEPT ![j] = r]
  IN
  /\ job[r].at = "accepted"
  /\ book' = [book EXCEPT ![s] = now]
  /\ \/ /\ disk' = now /\ Reaches(r, "recorded")
        /\ smooth' = IF Alone(s) THEN smooth ELSE smooth \ {j}
     \/ /\ "save" \in Faults /\ Reaches(r, "failed")
        /\ \/ UNCHANGED disk /\ smooth' = smooth \ {j}
           \/ disk' = None /\ smooth' = {}
  /\ UNCHANGED <<session, showing, copy, kept, waiting, spent, wrongs>>

\* close_pairing closes whatever code is showing by now
CloseAndAnswer(r) ==
  /\ job[r].at = "recorded"
  /\ showing' = [showing EXCEPT ![job[r].host] = NoPairing]
  /\ Reaches(r, "linked")
  /\ UNCHANGED <<session, book, disk, copy, kept, waiting, spent, wrongs, smooth>>

(* Commands beside the sessions.                                           *)

\* link_join, link_remove: PeerBook::load
Load(e) ==
  /\ copy[e] = None /\ disk # None
  /\ copy' = [copy EXCEPT ![e] = disk]
  /\ UNCHANGED <<session, showing, book, disk, job, kept, waiting, spent, wrongs, smooth>>

\* PeerBook::save, of the copy without the machines that were unlinked (none
\* where the command is link_join: what it adds is no borrower).  No running
\* session hears of it.
Save(e, gone) ==
  /\ copy[e] # None /\ \A j \in gone : copy[e][j] # None
  /\ disk' = [j \in Joiner |-> IF j \in gone THEN None ELSE copy[e][j]]
  /\ copy' = [copy EXCEPT ![e] = None]
  /\ smooth' = smooth \ gone
  /\ UNCHANGED <<session, showing, book, job, kept, waiting, spent, wrongs>>

\* the other machine refused, or nothing is linked by that name
Drop(e) ==
  /\ copy[e] # None
  /\ copy' = [copy EXCEPT ![e] = None]
  /\ UNCHANGED <<session, showing, book, disk, job, kept, waiting, spent, wrongs, smooth>>

-----------------------------------------------------------------------------
(* A machine that joins.  Where it lends as well, its own command is an     *)
(* errand of the model it is the host of.                                  *)

Join(j, r) ==
  /\ waiting[j] = None /\ job[r] = Unsent
  /\ r = CHOOSE q \in Request : job[q] = Unsent
  /\ \E s \in Session, c \in Code :
       /\ Open(s)
       /\ job' = [job EXCEPT ![r] = [at |-> "sent", by |-> j, host |-> s, code |-> c]]
  /\ waiting' = [waiting EXCEPT ![j] = r]
  /\ UNCHANGED <<session, showing, book, disk, copy, kept, spent, wrongs, smooth>>

\* the reply arrives: the proof holds, and the token is put away
Joined(j) ==
  /\ waiting[j] # None /\ job[waiting[j]].at = "linked"
  /\ kept' = [kept EXCEPT ![j] = waiting[j]]
  /\ waiting' = [waiting EXCEPT ![j] = None]
  /\ UNCHANGED <<session, showing, book, disk, copy, job, spent, wrongs, smooth>>

TurnedDown(j) ==
  /\ waiting[j] # None /\ job[waiting[j]].at \in {"refused", "failed"}
  /\ waiting' = [waiting EXCEPT ![j] = None]
  /\ UNCHANGED <<session, showing, book, disk, copy, job, kept, spent, wrongs, smooth>>

\* ten seconds without a reply, a reply nothing can be made of, or no
\* credential store to keep the token in
GiveUp(j) ==
  /\ waiting[j] # None
  /\ \/ "slow" \in Faults
     \/ job[waiting[j]].at = "sent" /\ ~ Open(job[waiting[j]].host)
  /\ waiting' = [waiting EXCEPT ![j] = None]
  /\ smooth' = smooth \ {j}
  /\ UNCHANGED <<session, showing, book, disk, copy, job, kept, spent, wrongs>>

\* link_remove at the machine that joined: the token goes with the link
CutAtJoiner(j) ==
  /\ kept[j] # None /\ waiting[j] = None
  /\ kept' = [kept EXCEPT ![j] = None]
  /\ UNCHANGED <<session, showing, book, disk, copy, job, waiting, spent, wrongs, smooth>>

-----------------------------------------------------------------------------
Handles(r) == Refuse(r) \/ WrongCode(r) \/ RightCode(r) \/ Record(r) \/ CloseAndAnswer(r)
Lends(s) == HostStart(s) \/ Reopen(s) \/ HostStop(s) \/ GrowsOld(s)
Borrows(j) ==
  \/ \E r \in Request : Join(j, r)
  \/ Joined(j) \/ TurnedDown(j) \/ GiveUp(j) \/ CutAtJoiner(j)
Runs(e) == Load(e) \/ Drop(e) \/ \E gone \in SUBSET Joiner : Save(e, gone)

Next ==
  \/ \E s \in Session : Lends(s)
  \/ \E r \in Request : Handles(r)
  \/ \E j \in Joiner : Borrows(j)
  \/ \E e \in Errand : Runs(e)

Spec == Init /\ [][Next]_vars

-----------------------------------------------------------------------------
(* Properties.                                                             *)

\* However the tries of several machines, new codes and restarts are mixed,
\* a code is answered wrong at most MaxWrong times, and a code that was is
\* on no screen any more (server.rs:60-62, 190-204).
GuessesAreBounded ==
  \A c \in Code :
    /\ wrongs[c] <= MaxWrong
    /\ wrongs[c] = MaxWrong => \A s \in Session : showing[s].code # c

\* A machine that was told it is linked is honoured by every session that is
\* running, and is in the file the next one will read, as long as no save
\* failed, nobody gave up waiting or unlinked it, and it was recorded while
\* nobody else had a copy of the list in hand (server.rs:206-234,
\* client.rs:140-152).  With a copy in hand it may be lost: a second session
\* or a join that ends later writes the list it read before.
LinkedIsHonoured ==
  \A j \in smooth :
    kept[j] # None =>
      /\ disk[j] # kept[j] => waiting[j] # None /\ disk[j] = waiting[j]
      /\ \A s \in Session : Open(s) => book[s][j] = disk[j]

\* Once a machine has been told that a code linked it, that code lets nobody
\* else in, whatever was opened or reopened since (server.rs:232-234).
ClosedAfterLinking ==
  [][\A r, q \in Request :
       job[q].at = "linked" /\ job[r].at = "sent" /\ job'[r].at = "accepted"
         => job[r].code # job[q].code]_vars

\* What docs/linking.md:54 says: "One code links one machine."
OneCodeOneMachine ==
  \A r, q \in Request :
    job[r].at = "linked" /\ job[q].at = "linked" /\ job[r].code = job[q].code
      => job[r].by = job[q].by
=============================================================================
