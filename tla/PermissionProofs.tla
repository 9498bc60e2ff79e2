------------------------- MODULE PermissionProofs --------------------------
(***************************************************************************)
(* What may happen with nobody's permission, and what may not.  First, the *)
(* window's way of asking keeps the promise of Consent, for any number of  *)
(* runs and clicks, as long as no run comes to more questions than the ids *)
(* set aside for it.  Then, a guest's script only looks, for every script, *)
(* every way of reading one and every set of commands.                     *)
(***************************************************************************)
EXTENDS Approval, Critter, SequenceTheorems, TLAPS

-----------------------------------------------------------------------------
(* Types, and where a run can be.                                           *)

LEMMA QuestionParts ==
  /\ \A q \in Question : q[1] \in Run /\ q[2] \in 1 .. MaxQuestions
  /\ \A r \in Run, n \in 1 .. MaxQuestions :
       /\ <<r, n>> \in Question
       /\ <<r, n>>[1] = r /\ <<r, n>>[2] = n
  /\ \A p, q \in Question : p[1] = q[1] /\ p[2] = q[2] => p = q
  /\ None \notin Question
BY ApprovalAssumption DEF Question

\* How far a run has come, and who holds the lock.
Place(r) ==
  /\ pc[r] \in {"ready", "called"} => asked[r] = 0
  /\ pc[r] = "asking" => asked[r] < MaxQuestions
  /\ pc[r] \in {"posted", "parked", "clearing"} => asked[r] > 0
  /\ InQueue(r) => running = r

Placed == TypeOK /\ \A r \in Run : Place(r)

LEMMA InitPlaced == Init => Placed
BY ApprovalAssumption
DEF Init, Placed, Place, InQueue, TypeOK, PC, View, Mounted, Answer

LEMMA RunPlaced ==
  ASSUME Placed, NEW r \in Run, RunStep(r)
  PROVE  Placed'
<1> USE ApprovalAssumption, QuestionParts
<1>1. CASE Begin(r)
  BY <1>1
  DEF Begin, TakeIds, Moves, stop, question, window, Placed, Place, InQueue,
      TypeOK, PC
<1>2. CASE Refuse(r) \/ NextChange(r) \/ EndOfQueue(r) \/ Unlock(r)
  BY <1>2
  DEF Refuse, NextChange, EndOfQueue, Unlock, Moves, stop, ids, question,
      window, Placed, Place, InQueue, TypeOK, PC
<1>3. CASE Sweep(r)
  BY <1>3
  DEF Sweep, TakeSlot, Moves, stop, ids, window, Placed, Place, InQueue,
      TypeOK, PC
<1>4. CASE Announce(r)
  <2>1. Current(r) \in Question
    BY <1>4 DEF Announce, Moves, Current, Placed, Place, TypeOK, Question
  <2> QED
    BY <1>4, <2>1
    DEF Announce, Moves, stop, ids, question, Placed, Place, InQueue,
        TypeOK, PC
<1>5. CASE CannotAnnounce(r)
  <2>1. /\ result' \in [Question -> Answer \cup {"none"}]
        /\ slot' \in Question \cup {None}
        /\ channel' \in [Question -> Answer \cup {"empty", "closed"}]
    BY <1>5 DEF CannotAnnounce, TakeSlot, Placed, TypeOK, Answer
  <2>2. pc' \in [Run -> PC] /\ \A s \in Run : Place(s)'
    BY <1>5
    DEF CannotAnnounce, Moves, ids, Placed, Place, InQueue, TypeOK, PC
  <2> QED
    BY <1>5, <2>1, <2>2
    DEF CannotAnnounce, stop, ids, window, Placed, TypeOK
<1>6. CASE Post(r)
  <2>1. asked[r] + 1 \in 1 .. MaxQuestions
    BY <1>6 DEF Post, Moves, Placed, Place, TypeOK
  <2>2. slot' \in Question
    BY <1>6, <2>1 DEF Post
  <2> QED
    BY <1>6, <2>1, <2>2
    DEF Post, Moves, stop, window, Placed, Place, InQueue, TypeOK, PC
<1>7. CASE ParkSeesStop(r) \/ ParkReceives(r) \/ ParkDisconnected(r)
  <2>1. PICK a \in Answer : Answered(r, a)
    BY <1>7 DEF ParkSeesStop, ParkReceives, ParkDisconnected, Answer
  <2>2. result' \in [Question -> Answer \cup {"none"}]
    BY <2>1 DEF Answered, Placed, TypeOK
  <2>3. pc' \in [Run -> PC] /\ \A s \in Run : Place(s)'
    BY <2>1 DEF Answered, Moves, ids, Placed, Place, InQueue, TypeOK, PC
  <2> QED
    BY <2>1, <2>2, <2>3
    DEF Answered, stop, ids, question, window, Placed, TypeOK
<1>8. CASE Clear(r)
  <2>1. /\ slot' \in Question \cup {None}
        /\ channel' \in [Question -> Answer \cup {"empty", "closed"}]
    BY <1>8 DEF Clear, Placed, TypeOK
  <2>2. pc' \in [Run -> PC] /\ \A s \in Run : Place(s)'
    BY <1>8 DEF Clear, Moves, ids, Placed, Place, InQueue, TypeOK, PC
  <2> QED
    BY <1>8, <2>1, <2>2 DEF Clear, stop, ids, window, Placed, TypeOK
<1> QED
  BY <1>1, <1>2, <1>3, <1>4, <1>5, <1>6, <1>7, <1>8 DEF RunStep

LEMMA OtherPlaced ==
  ASSUME Placed, CommandStep \/ PageStep \/ PersonStep
  PROVE  Placed'
<1> USE ApprovalAssumption, QuestionParts
<1>1. ASSUME NEW q \in Question, NEW a \in Answer, Deliver(q, a)
      PROVE  Placed'
  BY <1>1
  DEF Deliver, TakeSlot, call, stop, ids, question, Placed, Place, InQueue, TypeOK
<1>2. CASE CancelToken \/ NothingToCancel
  BY <1>2
  DEF CancelToken, NothingToCancel, call, ids, question, window, Placed, Place,
      InQueue, TypeOK
<1>3. CASE ReleaseQuestion
  BY <1>3
  DEF ReleaseQuestion, TakeSlot, call, ids, window, Placed, Place, InQueue,
      TypeOK, Answer
<1>4. ASSUME NEW r \in Run, Work(r) \/ WorkReturns(r)
      PROVE  Placed'
  <2>0. /\ [view EXCEPT !.mine = r] \in View
        /\ [view EXCEPT !.mine = None, !.ask = None] \in View
    BY DEF Placed, TypeOK, View
  <2>1. view' \in View
    BY <1>4, <2>0 DEF Work, WorkReturns, Placed, TypeOK
  <2>2. pc' \in [Run -> PC] /\ \A s \in Run : Place(s)'
    BY <1>4
    DEF Work, WorkReturns, Moves, ids, Placed, Place, InQueue, TypeOK, PC
  <2> QED
    BY <1>4, <2>1, <2>2
    DEF Work, WorkReturns, stop, ids, question, Placed, TypeOK
<1>5. ASSUME NEW q \in Question, HandleAsk(q)
      PROVE  Placed'
  BY <1>5
  DEF HandleAsk, call, stop, ids, question, Placed, Place, InQueue, TypeOK, View
<1>6. ASSUME NEW a \in Answer, Click(a)
      PROVE  Placed'
  <2>1. view.ask \in Question
    BY <1>6 DEF Click, Placed, TypeOK, View
  <2>2. view' \in View
    BY <1>6 DEF Click, Placed, TypeOK, View
  <2>3. <<view.ask, a>> \in Question \X Answer
    BY <2>1
  <2> QED
    BY <1>6, <2>2, <2>3
    DEF Click, call, stop, ids, question, Placed, Place, InQueue, TypeOK
<1>7. CASE ClickStop
  BY <1>7
  DEF ClickStop, call, ids, question, window, Placed, Place, InQueue, TypeOK
<1>8. CASE SwitchAway \/ SwitchBack
  <2>1. Mounted(TRUE) \in View /\ Mounted(FALSE) \in View
    BY DEF Mounted, View
  <2>2. /\ view' \in View
        /\ UNCHANGED <<call, stop, ids, question, result, events, clicks, said>>
    BY <1>8, <2>1 DEF SwitchAway, SwitchBack
  <2> QED
    BY <2>2 DEF call, stop, ids, question, Placed, Place, InQueue, TypeOK
<1> QED
  BY <1>1, <1>2, <1>3, <1>4, <1>5, <1>6, <1>7, <1>8
  DEF CommandStep, PageStep, PersonStep

LEMMA StepPlaced == Placed /\ [Next]_vars => Placed'
<1>1. ASSUME Placed, UNCHANGED vars PROVE Placed'
  BY <1>1 DEF vars, Placed, Place, InQueue, TypeOK
<1> QED
  BY <1>1, RunPlaced, OtherPlaced DEF Next

\* fix_run's slot keeps a second run out: at most one works the queue, and it
\* is the one whose token Stop would cancel.
THEOREM OneRun == Spec => []OneRunAtATime
<1>1. Placed => OneRunAtATime
  BY DEF Placed, Place, OneRunAtATime
<1> QED
  BY InitPlaced, StepPlaced, <1>1, PTL DEF Spec

-----------------------------------------------------------------------------
(* What makes an id name one question, and an answer reach no other.        *)

\* A question that was asked.
Known(q) == q \in Question /\ q[2] <= asked[q[1]]

\* A run that owns a block of ids and may use it.
Based(r) == InQueue(r) \/ asked[r] > 0

\* The blocks of two runs do not meet.
Apart ==
  /\ \A r \in Run : Based(r) => base[r] + Block <= nextId
  /\ \A r, s \in Run :
       r # s /\ Based(r) /\ Based(s) =>
         base[r] + Block <= base[s] \/ base[s] + Block <= base[r]

\* Nothing is shown, clicked or on its way for a question that was not asked.
Heard ==
  /\ \A q \in events : Known(q)
  /\ view.ask # None => Known(view.ask)
  /\ \A c \in clicks : Known(c[1]) /\ c \in said

\* The slot holds the question of the run that is asking.
Held ==
  slot # None => /\ pc[slot[1]] \in {"posted", "parked", "clearing"}
                 /\ slot = Current(slot[1])

\* A question has a result exactly when it was asked and is no longer open.
Settled ==
  /\ \A q \in Question : result[q] # "none" => Known(q)
  /\ \A q \in Question :
       Known(q) /\ result[q] = "none" => Asking(q[1]) /\ q = Current(q[1])
  /\ \A r \in Run : Asking(r) => result[Current(r)] = "none"

\* What a channel carries was said, or the run was stopped.
Carried ==
  /\ \A q \in Question :
       /\ channel[q] = "approve" => <<q, "approve">> \in said
       /\ channel[q] = "stop" => <<q, "stop">> \in said \/ q[1] \in cancelled
  /\ stopping = "release" => running # None /\ running \in cancelled

AskInv == Placed /\ Apart /\ Heard /\ Held /\ Settled /\ Carried

OtherStep == CommandStep \/ PageStep \/ PersonStep

\* What a step does to the ids, and to who is in the queue.
LEMMA RunIds ==
  ASSUME Placed, NEW r \in Run, RunStep(r)
  PROVE  \/ Begin(r)
         \/ Post(r)
         \/ UNCHANGED ids /\ \A s \in Run : InQueue(s)' => InQueue(s)
<1>1. CASE Refuse(r) \/ NextChange(r) \/ EndOfQueue(r) \/ Unlock(r) \/ Sweep(r)
  BY <1>1
  DEF Refuse, NextChange, EndOfQueue, Unlock, Sweep, Moves, ids, InQueue,
      Placed, TypeOK
<1>2. CASE Announce(r) \/ CannotAnnounce(r) \/ Clear(r)
  BY <1>2
  DEF Announce, CannotAnnounce, Clear, Moves, ids, InQueue, Placed, TypeOK
<1>3. CASE ParkSeesStop(r) \/ ParkReceives(r) \/ ParkDisconnected(r)
  BY <1>3
  DEF ParkSeesStop, ParkReceives, ParkDisconnected, Answered, Moves, ids,
      InQueue, Placed, TypeOK
<1> QED
  BY <1>1, <1>2, <1>3 DEF RunStep

LEMMA OtherIds ==
  ASSUME Placed, OtherStep
  PROVE  /\ UNCHANGED <<ids, result, running>>
         /\ \A s \in Run : \/ pc'[s] = pc[s]
                           \/ pc[s] = "ready" /\ pc'[s] = "called"
                           \/ pc[s] = "over" /\ pc'[s] = "done"
<1>1. CASE CommandStep
  BY <1>1
  DEF CommandStep, Deliver, CancelToken, NothingToCancel, ReleaseQuestion, call,
      ids
<1>2. CASE PageStep
  BY <1>2 DEF PageStep, WorkReturns, HandleAsk, Moves, call, ids, Placed, TypeOK
<1>3. CASE PersonStep
  BY <1>3
  DEF PersonStep, Work, Click, ClickStop, SwitchAway, SwitchBack, Moves, call,
      ids, Placed, TypeOK
<1> QED
  BY <1>1, <1>2, <1>3 DEF OtherStep

LEMMA KnownStays ==
  ASSUME Placed, (\E r \in Run : RunStep(r)) \/ OtherStep
  PROVE  \A q : Known(q) => Known(q)'
<1>1. ASSUME NEW r \in Run, RunStep(r)
      PROVE  \A s \in Run : asked[s] <= asked'[s]
  BY <1>1, RunIds DEF Begin, Post, ids, Placed, TypeOK
<1>2. CASE OtherStep
  BY <1>2, OtherIds DEF ids, Known
<1>3. CASE \E r \in Run : RunStep(r)
  <2>1. \A s \in Run : asked[s] <= asked'[s]
    BY <1>1, <1>3
  <2>2. Placed'
    BY <1>3, RunPlaced
  <2> QED
    BY <2>1, <2>2, QuestionParts DEF Known, Placed, TypeOK
<1> QED
  BY <1>2, <1>3

LEMMA ApartStep ==
  ASSUME Placed, Apart, (\E r \in Run : RunStep(r)) \/ OtherStep
  PROVE  Apart'
<1> USE ApprovalAssumption
<1>1. ASSUME UNCHANGED ids, \A s \in Run : InQueue(s)' => InQueue(s)
      PROVE  Apart'
  BY <1>1 DEF Apart, Based, ids
<1>2. CASE OtherStep
  <2>1. \A s \in Run : InQueue(s)' => InQueue(s)
    BY <1>2, OtherIds DEF InQueue
  <2> QED
    BY <1>1, <1>2, <2>1, OtherIds
<1>3. ASSUME NEW r \in Run, Post(r)
      PROVE  Apart'
  <2>1. \A s \in Run : Based(s)' => Based(s)
    BY <1>3 DEF Post, Moves, Based, InQueue, Placed, TypeOK
  <2> QED
    BY <1>3, <2>1 DEF Post, Apart
<1>4. ASSUME NEW r \in Run, Begin(r)
      PROVE  Apart'
  <2>1. \A s \in Run \ {r} : Based(s)' <=> Based(s)
    BY <1>4 DEF Begin, Moves, Based, InQueue, Placed, TypeOK
  <2>2. base'[r] = nextId /\ nextId' = nextId + Block
    BY <1>4 DEF Begin, TakeIds, Placed, TypeOK
  <2>3. \A s \in Run \ {r} : base'[s] = base[s]
    BY <1>4 DEF Begin, TakeIds, Placed, TypeOK
  <2>4. nextId \in Nat /\ Block \in Nat /\ \A s \in Run : base[s] \in Nat
    BY DEF Placed, TypeOK
  <2> QED
    BY <2>1, <2>2, <2>3, <2>4 DEF Apart
<1> QED
  BY <1>1, <1>2, <1>3, <1>4, RunIds

LEMMA HeardStep ==
  ASSUME Placed, Heard, (\E r \in Run : RunStep(r)) \/ OtherStep
  PROVE  Heard'
<1> USE KnownStays
<1>1. ASSUME NEW r \in Run, RunStep(r)
      PROVE  Heard'
  <2>1. CASE Announce(r)
    <3>1. Known(Current(r))
      BY <2>1, QuestionParts
      DEF Announce, Moves, Known, Current, Placed, Place, TypeOK
    <3> QED
      BY <2>1, <3>1 DEF Announce, Heard, ids
  <2>2. CASE ~Announce(r)
    <3>1. UNCHANGED window
      BY <1>1, <2>2
      DEF RunStep, Begin, Refuse, NextChange, EndOfQueue, Unlock, Sweep, Post,
          CannotAnnounce, ParkSeesStop, ParkReceives, ParkDisconnected,
          Answered, Clear
    <3> QED
      BY <1>1, <3>1 DEF Heard, window
  <2> QED
    BY <2>1, <2>2
<1>2. ASSUME NEW q \in Question, NEW a \in Answer, Deliver(q, a)
      PROVE  Heard'
  BY <1>2 DEF Deliver, Heard, CommandStep, OtherStep
<1>3. CASE CancelToken \/ NothingToCancel \/ ReleaseQuestion \/ ClickStop
  BY <1>3
  DEF CancelToken, NothingToCancel, ReleaseQuestion, ClickStop, Heard, window,
      CommandStep, PersonStep, OtherStep
<1>4. ASSUME NEW r \in Run, Work(r) \/ WorkReturns(r)
      PROVE  Heard'
  <2>1. view'.ask = view.ask \/ view'.ask = None
    BY <1>4 DEF Work, WorkReturns, Placed, TypeOK, View
  <2> QED
    BY <1>4, <2>1
    DEF Work, WorkReturns, Heard, PageStep, PersonStep, OtherStep
<1>5. ASSUME NEW q \in Question, HandleAsk(q)
      PROVE  Heard'
  <2>1. view'.ask = view.ask \/ view'.ask = q
    BY <1>5 DEF HandleAsk, Placed, TypeOK, View
  <2> QED
    BY <1>5, <2>1 DEF HandleAsk, Heard, PageStep, OtherStep
<1>6. ASSUME NEW a \in Answer, Click(a)
      PROVE  Heard'
  <2>1. view'.ask = None
    BY <1>6 DEF Click, Placed, TypeOK, View
  <2>2. <<view.ask, a>>[1] = view.ask
    OBVIOUS
  <2> QED
    BY <1>6, <2>1, <2>2 DEF Click, Heard, PersonStep, OtherStep
<1>7. CASE SwitchAway \/ SwitchBack
  <2>1. view'.ask = None
    BY <1>7 DEF SwitchAway, SwitchBack, Mounted
  <2> QED
    BY <1>7, <2>1 DEF SwitchAway, SwitchBack, Heard, PersonStep, OtherStep
<1> QED
  BY <1>1, <1>2, <1>3, <1>4, <1>5, <1>6, <1>7
  DEF OtherStep, CommandStep, PageStep, PersonStep

LEMMA HeldStep ==
  ASSUME Placed, Held, (\E r \in Run : RunStep(r)) \/ OtherStep
  PROVE  Held'
<1> USE QuestionParts
<1>1. CASE OtherStep
  <2>1. slot' = slot \/ slot' = None
    BY <1>1
    DEF OtherStep, CommandStep, PageStep, PersonStep, Deliver, CancelToken,
        NothingToCancel, ReleaseQuestion, TakeSlot, Work, WorkReturns,
        HandleAsk, Click, ClickStop, SwitchAway, SwitchBack, question
  <2>2. slot # None => slot[1] \in Run
    BY DEF Placed, TypeOK
  <2> QED
    BY <1>1, <2>1, <2>2, OtherIds DEF Held, Current, ids
<1>2. ASSUME NEW r \in Run, RunStep(r)
      PROVE  Held'
  <2>1. CASE Post(r)
    BY <2>1 DEF Post, Moves, Held, Current, Placed, TypeOK
  <2>2. CASE Sweep(r) \/ CannotAnnounce(r) \/ Clear(r)
    BY <2>2 DEF Sweep, CannotAnnounce, Clear, TakeSlot, Held
  <2>3. ASSUME slot' = slot, UNCHANGED asked, NEW from, NEW to, Moves(r, from, to),
               from \in {"posted", "parked"} => to \in {"parked", "clearing"},
               from # "clearing"
        PROVE  Held'
    BY <2>3 DEF Moves, Held, Current, Placed, TypeOK
  <2>4. CASE Begin(r) \/ Refuse(r) \/ NextChange(r) \/ EndOfQueue(r) \/ Unlock(r)
             \/ Announce(r)
    BY <2>4, <2>3
    DEF Begin, Refuse, NextChange, EndOfQueue, Unlock, Announce, TakeIds, ids,
        question
  <2>5. CASE ParkSeesStop(r) \/ ParkReceives(r) \/ ParkDisconnected(r)
    BY <2>5, <2>3
    DEF ParkSeesStop, ParkReceives, ParkDisconnected, Answered, ids, question
  <2> QED
    BY <1>2, <2>1, <2>2, <2>4, <2>5 DEF RunStep
<1> QED
  BY <1>1, <1>2

LEMMA SettledStep ==
  ASSUME Placed, Settled, (\E r \in Run : RunStep(r)) \/ OtherStep
  PROVE  Settled'
<1> USE QuestionParts
<1>1. ASSUME UNCHANGED <<asked, result>>,
             \A s \in Run : Asking(s)' <=> Asking(s)
      PROVE  Settled'
  BY <1>1 DEF Settled, Known, Current
<1>2. CASE OtherStep
  BY <1>1, <1>2, OtherIds DEF Asking, ids
<1>3. ASSUME NEW r \in Run, RunStep(r)
      PROVE  Settled'
  <2>1. CASE Post(r)
    <3> DEFINE n == <<r, asked[r] + 1>>
    <3>1. /\ pc[r] = "asking" /\ pc' = [pc EXCEPT ![r] = "posted"]
          /\ asked' = [asked EXCEPT ![r] = @ + 1]
          /\ result' = result
      BY <2>1 DEF Post, Moves
    <3>a. asked[r] + 1 \in 1 .. MaxQuestions
      BY <3>1, ApprovalAssumption DEF Placed, Place, TypeOK
    <3>b. n \in Question /\ n[1] = r /\ n[2] = asked[r] + 1
      BY <3>a
    <3>c. ~Known(n)
      BY <3>b DEF Known, Placed, TypeOK
    <3>d. /\ Current(r)' = n
          /\ \A s \in Run \ {r} : Current(s)' = Current(s)
      BY <3>1 DEF Current, Placed, TypeOK
    <3>3. /\ Asking(r)' /\ ~Asking(r)
          /\ \A s \in Run \ {r} : Asking(s)' <=> Asking(s)
      BY <3>1 DEF Asking, Placed, TypeOK
    <3>4. \A q \in Question : Known(q) => Known(q)'
      BY <1>3, KnownStays
    <3>5. \A q \in Question : Known(q)' => Known(q) \/ q = n
      <4>1. ASSUME NEW q \in Question, Known(q)', ~Known(q)
            PROVE  q[1] = r /\ q[2] = asked[r] + 1
        BY <3>1, <4>1 DEF Known, Placed, TypeOK
      <4> QED
        BY <4>1, <3>b
    <3>6. ASSUME NEW q \in Question, Known(q), result[q] = "none"
          PROVE  q[1] \in Run \ {r} /\ Asking(q[1]) /\ q = Current(q[1])
      BY <3>6, <3>3 DEF Settled
    <3> QED
      BY <3>1, <3>b, <3>c, <3>d, <3>3, <3>4, <3>5, <3>6 DEF Settled
  <2>2. ASSUME NEW a \in Answer, result' = [result EXCEPT ![Current(r)] = a],
               UNCHANGED asked, Asking(r), ~Asking(r)',
               \A s \in Run \ {r} : pc'[s] = pc[s]
        PROVE  Settled'
    <3>1. Current(r) \in Question /\ Known(Current(r))
      BY <2>2 DEF Asking, Known, Current, Placed, Place, TypeOK
    <3>2. \A q \in Question :
             result'[q] = IF q = Current(r) THEN a ELSE result[q]
      BY <2>2 DEF Placed, TypeOK
    <3>3. a # "none"
      BY DEF Answer
    <3>4. \A q : Known(q)' <=> Known(q)
      BY <2>2 DEF Known
    <3>5. \A s \in Run : Current(s)' = Current(s)
      BY <2>2 DEF Current
    <3>6. \A s \in Run \ {r} : Asking(s)' <=> Asking(s)
      BY <2>2 DEF Asking
    <3>7. \A s \in Run \ {r} : Current(s) # Current(r)
      BY DEF Current
    <3> QED
      BY <2>2, <3>1, <3>2, <3>3, <3>4, <3>5, <3>6, <3>7 DEF Settled
  <2>3. CASE CannotAnnounce(r)
    BY <2>2, <2>3 DEF CannotAnnounce, Moves, Asking, Answer, ids, Placed, TypeOK
  <2>4. CASE ParkSeesStop(r) \/ ParkReceives(r) \/ ParkDisconnected(r)
    <3>1. PICK a \in Answer : Answered(r, a)
      BY <2>4 DEF ParkSeesStop, ParkReceives, ParkDisconnected, Answer
    <3> QED
      BY <2>2, <3>1 DEF Answered, Moves, Asking, ids, Placed, TypeOK
  <2>5. CASE Begin(r) \/ Refuse(r) \/ NextChange(r) \/ EndOfQueue(r) \/ Unlock(r)
             \/ Announce(r) \/ Sweep(r)
    BY <1>1, <2>5
    DEF Begin, Refuse, NextChange, EndOfQueue, Unlock, Announce, Sweep, TakeIds,
        ids, Moves, Asking, Placed, TypeOK
  <2>6. CASE Clear(r)
    BY <1>1, <2>6 DEF Clear, ids, Moves, Asking, Placed, TypeOK
  <2> QED
    BY <1>3, <2>1, <2>3, <2>4, <2>5, <2>6 DEF RunStep
<1> QED
  BY <1>2, <1>3

\* While no run outgrows its block, an id names one question: the reason a late
\* click cannot approve another change than the one it was shown with.
LEMMA IdNamesOne ==
  ASSUME MaxQuestions <= Block, Placed, Apart,
         NEW p, NEW q, Known(p), Known(q), Id(p) = Id(q)
  PROVE  p = q
<1>1. /\ p \in Question /\ q \in Question
      /\ p[1] \in Run /\ p[2] \in 1 .. MaxQuestions /\ p[2] <= asked[p[1]]
      /\ q[1] \in Run /\ q[2] \in 1 .. MaxQuestions /\ q[2] <= asked[q[1]]
  BY QuestionParts DEF Known
<1>2. /\ asked[p[1]] \in Nat /\ base[p[1]] \in Nat
      /\ asked[q[1]] \in Nat /\ base[q[1]] \in Nat
      /\ Block \in Nat /\ MaxQuestions \in Nat
  BY <1>1, ApprovalAssumption DEF Placed, TypeOK
<1>3. Based(p[1]) /\ Based(q[1])
  BY <1>1, <1>2 DEF Based
<1>4. base[p[1]] + p[2] - 1 = base[q[1]] + q[2] - 1
  BY DEF Id
<1>5. p[1] = q[1]
  <2>1. p[1] # q[1] => \/ base[p[1]] + Block <= base[q[1]]
                       \/ base[q[1]] + Block <= base[p[1]]
    BY <1>1, <1>3 DEF Apart
  <2> QED
    BY <2>1, <1>1, <1>2, <1>4
<1> QED
  BY <1>1, <1>2, <1>4, <1>5, QuestionParts

LEMMA SlotKnown ==
  ASSUME Placed, Held, slot # None
  PROVE  Known(slot) /\ running = slot[1]
<1>1. slot \in Question /\ slot[1] \in Run
  BY QuestionParts DEF Placed, TypeOK
<1>2. slot[2] = asked[slot[1]]
  BY <1>1 DEF Held, Current
<1> QED
  BY <1>1, <1>2 DEF Held, Known, Placed, Place, InQueue, TypeOK

\* Answers only ever reach the question they name.
LEMMA DeliverReaches ==
  ASSUME MaxQuestions <= Block, AskInv,
         NEW q \in Question, NEW a \in Answer, Deliver(q, a)
  PROVE  \/ UNCHANGED question
         \/ /\ slot = q /\ <<q, a>> \in said
            /\ TakeSlot(a)
<1>1. Known(q) /\ <<q, a>> \in said
  BY DEF Deliver, AskInv, Heard
<1>2. slot # None /\ Id(slot) = Id(q) => slot = q
  BY <1>1, SlotKnown, IdNamesOne DEF AskInv
<1> QED
  BY <1>1, <1>2 DEF Deliver

LEMMA CarriedStep ==
  ASSUME MaxQuestions <= Block, AskInv, (\E r \in Run : RunStep(r)) \/ OtherStep
  PROVE  Carried'
<1> USE QuestionParts
<1>1. said \subseteq said' /\ cancelled \subseteq cancelled'
  <2>1. CASE \E r \in Run : RunStep(r)
    BY <2>1
    DEF RunStep, Begin, Refuse, NextChange, EndOfQueue, Unlock, Sweep, Post,
        Announce, CannotAnnounce, ParkSeesStop, ParkReceives, ParkDisconnected,
        Answered, Clear, stop, window
  <2>2. CASE OtherStep
    BY <2>2
    DEF OtherStep, CommandStep, PageStep, PersonStep, Deliver, CancelToken,
        NothingToCancel, ReleaseQuestion, Work, WorkReturns, HandleAsk, Click,
        ClickStop, SwitchAway, SwitchBack, stop, window
  <2> QED
    BY <2>1, <2>2
<1>2. stopping' = "release" => running' # None /\ running' \in cancelled'
  <2>1. CASE \E r \in Run : RunStep(r)
    <3>1. UNCHANGED stop /\ (stopping = "release" => running' = running)
      BY <2>1
      DEF RunStep, Begin, Refuse, NextChange, EndOfQueue, Unlock, Sweep, Post,
          Announce, CannotAnnounce, ParkSeesStop, ParkReceives,
          ParkDisconnected, Answered, Clear, LockFree
    <3> QED
      BY <3>1 DEF stop, AskInv, Carried
  <2>2. CASE OtherStep
    <3>1. CASE CancelToken
      BY <3>1 DEF CancelToken, call
    <3>2. CASE NothingToCancel \/ ReleaseQuestion \/ ClickStop
      BY <3>2 DEF NothingToCancel, ReleaseQuestion, ClickStop
    <3>3. CASE UNCHANGED <<running, stop>>
      BY <3>3 DEF stop, AskInv, Carried
    <3> QED
      BY <2>2, <3>1, <3>2, <3>3
      DEF OtherStep, CommandStep, PageStep, PersonStep, Deliver, Work,
          WorkReturns, HandleAsk, Click, SwitchAway, SwitchBack, call
  <2> QED
    BY <2>1, <2>2
<1>3. \A q \in Question :
        /\ channel'[q] = "approve" =>
             channel[q] = "approve" \/ <<q, "approve">> \in said'
        /\ channel'[q] = "stop" =>
             channel[q] = "stop" \/ <<q, "stop">> \in said' \/ q[1] \in cancelled'
  <2>1. CASE \E r \in Run : RunStep(r)
    BY <2>1
    DEF RunStep, Begin, Refuse, NextChange, EndOfQueue, Unlock, Sweep, Post,
        Announce, CannotAnnounce, ParkSeesStop, ParkReceives, ParkDisconnected,
        Answered, Clear, TakeSlot, question, AskInv, Placed, TypeOK
  <2>2. ASSUME NEW p \in Question, NEW a \in Answer, Deliver(p, a)
        PROVE  <1>3!:
    <3>1. CASE UNCHANGED question
      BY <3>1 DEF question
    <3>2. CASE slot = p /\ <<p, a>> \in said /\ TakeSlot(a)
      BY <3>2, <1>1 DEF TakeSlot, AskInv, Placed, TypeOK
    <3> QED
      BY <3>1, <3>2, <2>2, DeliverReaches
  <2>3. CASE ReleaseQuestion
    <3>1. slot # None => slot[1] \in cancelled
      BY <2>3, SlotKnown DEF ReleaseQuestion, AskInv, Carried
    <3> QED
      BY <2>3, <3>1, <1>1
      DEF ReleaseQuestion, TakeSlot, AskInv, Placed, TypeOK
  <2>4. CASE UNCHANGED question
    BY <2>4 DEF question
  <2> QED
    BY <2>1, <2>2, <2>3, <2>4
    DEF OtherStep, CommandStep, PageStep, PersonStep, CancelToken,
        NothingToCancel, Work, WorkReturns, HandleAsk, Click, ClickStop,
        SwitchAway, SwitchBack
<1> QED
  BY <1>1, <1>2, <1>3 DEF AskInv, Carried

LEMMA AskInvInit == Init => AskInv
<1> USE ApprovalAssumption, QuestionParts
<1>1. Init => Placed
  BY InitPlaced
<1>2. Init => Apart
  BY DEF Init, Apart, Based, InQueue
<1>3. Init => Heard /\ Held /\ Carried
  BY DEF Init, Heard, Held, Carried, Mounted
<1>4. Init => Settled
  BY DEF Init, Settled, Known, Asking
<1> QED
  BY <1>1, <1>2, <1>3, <1>4 DEF AskInv

LEMMA AskInvStep ==
  ASSUME MaxQuestions <= Block, AskInv, [Next]_vars
  PROVE  AskInv'
<1>1. CASE UNCHANGED vars
  <2>1. Placed'
    BY <1>1, StepPlaced DEF AskInv
  <2>2. Apart' /\ Heard' /\ Held'
    BY <1>1
    DEF vars, AskInv, Apart, Based, InQueue, Heard, Known, Held, Current
  <2>3. Settled' /\ Carried'
    BY <1>1 DEF vars, AskInv, Settled, Known, Asking, Current, Carried
  <2> QED
    BY <2>1, <2>2, <2>3 DEF AskInv
<1>2. CASE Next
  <2>1. (\E r \in Run : RunStep(r)) \/ OtherStep
    BY <1>2 DEF Next, OtherStep
  <2> QED
    BY <1>2, <2>1, StepPlaced, ApartStep, HeardStep, HeldStep, SettledStep,
       CarriedStep
    DEF AskInv
<1> QED
  BY <1>1, <1>2

-----------------------------------------------------------------------------
(* The protocol implements Consent.                                         *)

LEMMA VerdictInit == AskInv /\ Init => C!Init
<1>1. ASSUME Init PROVE Verdict = [q \in Question |-> "unasked"]
  BY <1>1, QuestionParts DEF Init, Verdict, Asking
<1> QED
  BY <1>1 DEF Init, C!Init

\* The questions whose verdict a step leaves alone.
LEMMA VerdictOf ==
  \A q \in Question :
    /\ result[q] # "none" => Verdict[q] = result[q]
    /\ result[q] = "none" /\ Asking(q[1]) /\ q = Current(q[1]) =>
         Verdict[q] = "open"
    /\ result[q] = "none" /\ ~(Asking(q[1]) /\ q = Current(q[1])) =>
         Verdict[q] = "unasked"
BY DEF Verdict

LEMMA SameVerdict ==
  ASSUME UNCHANGED <<asked, result>>, \A s \in Run : Asking(s)' <=> Asking(s)
  PROVE  Verdict' = Verdict
<1>1. \A q \in Question : q[1] \in Run
  BY QuestionParts
<1>2. \A q : Current(q)' = Current(q)
  BY DEF Current
<1> QED
  BY <1>1, <1>2 DEF Verdict

\* approve() comes back: the open question gets its verdict, for a reason.
LEMMA AnsweredSettles ==
  ASSUME AskInv, NEW r \in Run, NEW a \in Answer,
         result' = [result EXCEPT ![Current(r)] = a],
         UNCHANGED <<asked, said, cancelled>>, Asking(r), ~Asking(r)',
         \A s \in Run \ {r} : pc'[s] = pc[s],
         a = "approve" => <<Current(r), a>> \in said,
         a = "stop" => <<Current(r), a>> \in said \/ r \in cancelled
  PROVE  C!Next
<1> DEFINE q == Current(r)
<1>1. q \in Question /\ q[1] = r /\ result[q] = "none"
  BY QuestionParts
  DEF Asking, Current, AskInv, Settled, Placed, Place, TypeOK
<1>2. Verdict[q] = "open"
  BY <1>1, VerdictOf
<1>3. \A p \in Question :
        result'[p] = IF p = q THEN a ELSE result[p]
  BY DEF AskInv, Placed, TypeOK
<1>4. \A s : Current(s)' = Current(s)
  BY DEF Current
<1>5. \A p \in Question : p[1] \in Run /\ (p[1] = r /\ p = Current(p[1]) => p = q)
  BY QuestionParts
<1>6. \A s \in Run \ {r} : Asking(s)' <=> Asking(s)
  BY DEF Asking
<1>7. a # "none"
  BY DEF Answer
<1>8. Verdict' = [Verdict EXCEPT ![q] = a]
  <2>1. \A p \in Question : Verdict'[p] = IF p = q THEN a ELSE Verdict[p]
    <3> TAKE p \in Question
    <3>1. CASE p = q
      BY <3>1, <1>1, <1>3, <1>7 DEF Verdict
    <3>2. CASE p # q
      <4>1. (Asking(p[1]) /\ p = Current(p[1]))'
              <=> Asking(p[1]) /\ p = Current(p[1])
        BY <3>2, <1>4, <1>5, <1>6
      <4>2. result'[p] = result[p]
        BY <3>2, <1>3
      <4> QED
        BY <3>2, <4>1, <4>2 DEF Verdict
    <3> QED
      BY <3>1, <3>2
  <2>2. /\ Verdict = [p \in Question |-> Verdict[p]]
        /\ Verdict' = [p \in Question |-> Verdict'[p]]
    BY DEF Verdict
  <2> HIDE DEF q
  <2> QED
    BY <2>1, <2>2
<1>9. C!Settle(q, a)
  BY <1>1, <1>2, <1>8 DEF C!Settle, RunOf
<1> QED
  BY <1>1, <1>9 DEF C!Next, C!Answer, Answer

LEMMA RunRefines ==
  ASSUME AskInv, NEW r \in Run, RunStep(r)
  PROVE  [C!Next]_<<Verdict, said, cancelled>>
<1> USE QuestionParts
<1>1. UNCHANGED <<said, cancelled>>
  BY
  DEF RunStep, Begin, Refuse, NextChange, EndOfQueue, Unlock, Sweep, Post,
      Announce, CannotAnnounce, ParkSeesStop, ParkReceives, ParkDisconnected,
      Answered, Clear, stop, window
<1>2. CASE Post(r)
  <2> DEFINE n == <<r, asked[r] + 1>>
  <2>1. /\ pc[r] = "asking" /\ pc' = [pc EXCEPT ![r] = "posted"]
        /\ asked' = [asked EXCEPT ![r] = @ + 1]
        /\ result' = result
    BY <1>2 DEF Post, Moves
  <2>2. asked[r] + 1 \in 1 .. MaxQuestions
    BY <2>1, ApprovalAssumption DEF AskInv, Placed, Place, TypeOK
  <2>3. n \in Question /\ n[1] = r /\ n[2] = asked[r] + 1
    BY <2>2
  <2>4. /\ Current(r)' = n
        /\ \A s \in Run \ {r} : Current(s)' = Current(s)
    BY <2>1 DEF Current, AskInv, Placed, TypeOK
  <2>5. /\ Asking(r)' /\ ~Asking(r)
        /\ \A s \in Run \ {r} : Asking(s)' <=> Asking(s)
    BY <2>1 DEF Asking, AskInv, Placed, TypeOK
  <2>6. result[n] = "none"
    BY <2>3 DEF Known, AskInv, Settled, Placed, TypeOK
  <2>7. Verdict[n] = "unasked"
    BY <2>3, <2>5, <2>6, VerdictOf
  <2>8. \A p \in Question : Verdict[p] # "open"
    <3> SUFFICES ASSUME NEW p \in Question, Verdict[p] = "open"
                 PROVE  FALSE
      OBVIOUS
    <3>1. Asking(p[1])
      BY VerdictOf DEF AskInv, Settled, Placed, TypeOK, Answer
    <3>2. running = r /\ running = p[1]
      BY <2>1, <3>1 DEF AskInv, Placed, Place, InQueue, Asking
    <3> QED
      BY <2>5, <3>1, <3>2
  <2>9. Verdict' = [Verdict EXCEPT ![n] = "open"]
    <3>1. \A p \in Question : Verdict'[p] = IF p = n THEN "open" ELSE Verdict[p]
      <4> TAKE p \in Question
      <4>1. CASE p = n
        BY <4>1, <2>1, <2>3, <2>4, <2>5, <2>6 DEF Verdict
      <4>2. CASE p # n
        <5>1. p[1] \in Run
          OBVIOUS
        <5>2. CASE p[1] = r
          BY <5>2, <4>2, <2>1, <2>4, <2>5 DEF Verdict
        <5>3. CASE p[1] # r
          BY <5>3, <5>1, <2>1, <2>4, <2>5 DEF Verdict
        <5> QED
          BY <5>2, <5>3, <4>2
      <4> QED
        BY <4>1, <4>2
    <3>2. /\ Verdict = [p \in Question |-> Verdict[p]]
          /\ Verdict' = [p \in Question |-> Verdict'[p]]
      BY DEF Verdict
    <3> HIDE DEF n
    <3> QED
      BY <3>1, <3>2
  <2>10. C!Put(n)
    BY <1>1, <2>7, <2>8, <2>9 DEF C!Put
  <2> QED
    BY <2>3, <2>10 DEF C!Next
<1>3. CASE CannotAnnounce(r)
  <2>1. /\ result' = [result EXCEPT ![Current(r)] = "decline"]
        /\ Asking(r) /\ ~Asking(r)' /\ UNCHANGED asked
        /\ \A s \in Run \ {r} : pc'[s] = pc[s]
    BY <1>3
    DEF CannotAnnounce, Moves, Asking, ids, AskInv, Placed, TypeOK
  <2> QED
    BY <2>1, <1>1, AnsweredSettles DEF Answer
<1>4. CASE ParkSeesStop(r) \/ ParkReceives(r) \/ ParkDisconnected(r)
  <2>1. PICK a \in Answer : /\ Answered(r, a)
                            /\ \/ a = "stop" /\ r \in cancelled
                               \/ a = "decline"
                               \/ pc[r] = "parked" /\ channel[Current(r)] = a
    BY <1>4
    DEF ParkSeesStop, ParkReceives, ParkDisconnected, Holds, Answer, Answered,
        Moves
  <2>2. /\ result' = [result EXCEPT ![Current(r)] = a]
        /\ Asking(r) /\ ~Asking(r)' /\ UNCHANGED asked
        /\ \A s \in Run \ {r} : pc'[s] = pc[s]
    BY <2>1 DEF Answered, Moves, Asking, ids, AskInv, Placed, TypeOK
  <2>3. Current(r) \in Question /\ Current(r)[1] = r
    BY <2>2 DEF Asking, Current, AskInv, Placed, Place, TypeOK
  <2>4. /\ a = "approve" => <<Current(r), a>> \in said
        /\ a = "stop" => <<Current(r), a>> \in said \/ r \in cancelled
    <3>1. \A q \in Question :
             /\ channel[q] = "approve" => <<q, "approve">> \in said
             /\ channel[q] = "stop" => <<q, "stop">> \in said \/ q[1] \in cancelled
      BY DEF AskInv, Carried
    <3>2. \/ a = "stop" /\ r \in cancelled
          \/ a = "decline"
          \/ channel[Current(r)] = a
      BY <2>1
    <3>3. CASE a = "approve"
      BY <3>1, <3>2, <3>3, <2>3
    <3>4. CASE a = "stop"
      BY <3>1, <3>2, <3>4, <2>3
    <3> QED
      BY <3>3, <3>4
  <2> QED
    BY <2>2, <2>4, <1>1, AnsweredSettles
<1>5. CASE Begin(r) \/ Refuse(r) \/ NextChange(r) \/ EndOfQueue(r) \/ Unlock(r)
           \/ Announce(r) \/ Sweep(r) \/ Clear(r)
  <2>1. UNCHANGED <<asked, result>> /\ \A s \in Run : Asking(s)' <=> Asking(s)
    BY <1>5
    DEF Begin, Refuse, NextChange, EndOfQueue, Unlock, Announce, Sweep, Clear,
        TakeIds, ids, Moves, Asking, AskInv, Placed, TypeOK
  <2> QED
    BY <2>1, <1>1, SameVerdict
<1> QED
  BY <1>2, <1>3, <1>4, <1>5 DEF RunStep

LEMMA OtherRefines ==
  ASSUME AskInv, OtherStep
  PROVE  [C!Next]_<<Verdict, said, cancelled>>
<1> USE QuestionParts
<1>1. Verdict' = Verdict
  <2>1. UNCHANGED <<asked, result>> /\ \A s \in Run : Asking(s)' <=> Asking(s)
    BY OtherIds DEF ids, Asking, AskInv
  <2> QED
    BY <2>1, SameVerdict
<1>2. CASE \E a \in Answer : Click(a)
  <2>1. PICK a \in Answer : Click(a)
    BY <1>2
  <2>2. Known(view.ask)
    BY <2>1 DEF Click, AskInv, Heard
  <2>3. Verdict[view.ask] # "unasked"
    BY <2>2, VerdictOf
    DEF AskInv, Settled, Known, Placed, TypeOK, Answer
  <2>4. C!Say(view.ask, a)
    BY <2>1, <2>3, <1>1 DEF Click, C!Say, stop
  <2> QED
    BY <2>2, <2>4 DEF C!Next, C!Answer, Answer, Known
<1>3. CASE CancelToken
  <2>1. running \in Run /\ 1 \in 1 .. MaxQuestions
    BY <1>3, ApprovalAssumption DEF CancelToken, AskInv, Placed, TypeOK
  <2>2. <<running, 1>> \in Question /\ <<running, 1>>[1] = running
    BY <2>1
  <2>3. C!Stop(<<running, 1>>)
    BY <1>3, <1>1, <2>2 DEF CancelToken, C!Stop, RunOf, window
  <2> QED
    BY <2>2, <2>3 DEF C!Next
<1>4. CASE UNCHANGED <<said, cancelled>>
  BY <1>1, <1>4
<1> QED
  BY <1>2, <1>3, <1>4
  DEF OtherStep, CommandStep, PageStep, PersonStep, Deliver, NothingToCancel,
      ReleaseQuestion, Work, WorkReturns, HandleAsk, ClickStop, SwitchAway,
      SwitchBack, stop, window

\* The questions a window asks behave as Consent says: one at a time, settled
\* once, and a change is approved only when a person approved that very change.
\* The ids set aside for a run must be enough for it.
THEOREM AsksForConsent ==
  ASSUME MaxQuestions <= Block
  PROVE  Spec => KeepsConsent
<1>1. Init => AskInv /\ C!Init
  BY AskInvInit, VerdictInit
<1>2. AskInv /\ [Next]_vars => AskInv'
  BY AskInvStep
<1>3. AskInv /\ [Next]_vars => [C!Next]_<<Verdict, said, cancelled>>
  <2>1. ASSUME AskInv, UNCHANGED vars
        PROVE  UNCHANGED <<Verdict, said, cancelled>>
    <3>1. UNCHANGED <<asked, result>> /\ \A s \in Run : Asking(s)' <=> Asking(s)
      BY <2>1 DEF vars, Asking
    <3> QED
      BY <2>1, <3>1, SameVerdict DEF vars
  <2> QED
    BY <2>1, RunRefines, OtherRefines DEF Next, OtherStep
<1> QED
  BY <1>1, <1>2, <1>3, PTL DEF Spec, KeepsConsent, C!Spec

-----------------------------------------------------------------------------
(* A guest's script.  The steps of the machine one by one: all but two of   *)
(* them neither say nor do anything.                                        *)

\* The parts of a run.
Parts == {"steps", "said", "did", "functions", "depth", "vars", "signal", "returned", "fault",
          "val", "vals", "todo"}

\* A run as the code can have it: what it did are commands of the host.
IsRun(R) ==
  /\ Parts = DOMAIN R
  /\ R.did \in Seq(DOMAIN Registry)
  /\ \E T : R.said \in Seq(T)

LEMMA StartIsRun == \A body : IsRun(Start(body)) /\ Start(body).fault = "" /\ Start(body).did = <<>>
<1>1. ASSUME NEW body PROVE IsRun(Start(body)) /\ Start(body).fault = "" /\ Start(body).did = <<>>
  <2>1. DOMAIN Start(body) = Parts /\ Start(body).did = <<>> /\ Start(body).said = <<>>
        /\ Start(body).fault = ""
    BY DEF Start, Parts
  <2>2. <<>> \in Seq(DOMAIN Registry) /\ <<>> \in Seq({})
    OBVIOUS
  <2>3. QED
    BY <2>1, <2>2 DEF IsRun
<1>2. QED
  BY <1>1

\* A step that neither says nor does anything, and is no refusal to a guest.
Quiet(R, S) ==
  /\ DOMAIN S = DOMAIN R
  /\ S.did = R.did /\ S.said = R.said
  /\ S.fault = "looking only" => R.fault = "looking only"

LEMMA QuietParts ==
  ASSUME NEW R, DOMAIN R = Parts
  PROVE  /\ \A first : Quiet(R, Do(R, first))
         /\ \A v : Quiet(R, Give(R, v))
         /\ \A name, v : Quiet(R, Set(R, name, v))
         /\ \A signal : Quiet(R, Signalled(R, signal))
         /\ \A why : why # "looking only" => Quiet(R, Fault(R, why))
         /\ Quiet(R, Keep(R))
         /\ Quiet(R, R)
BY DEF Parts, Quiet, Do, Give, Set, Signalled, Fault, Keep

LEMMA QuietThenQuiet ==
  ASSUME NEW R, NEW S, NEW T, Quiet(R, S), Quiet(S, T) PROVE Quiet(R, T)
BY DEF Quiet

LEMMA QuietAndOn ==
  ASSUME NEW R, NEW S, DOMAIN R = Parts, Quiet(R, S)
  PROVE  /\ DOMAIN S = Parts
         /\ \A first : Quiet(R, Do(S, first))
         /\ Quiet(R, Keep(S))
<1>1. DOMAIN S = Parts
  BY DEF Quiet
<1>2. (\A first : Quiet(S, Do(S, first))) /\ Quiet(S, Keep(S))
  BY <1>1, QuietParts
<1>3. QED
  BY <1>1, <1>2, QuietThenQuiet

LEMMA QuietEval ==
  ASSUME NEW R, DOMAIN R = Parts, NEW e PROVE Quiet(R, Eval(R, e))
BY QuietParts DEF Eval

LEMMA QuietStatement ==
  ASSUME NEW R, DOMAIN R = Parts, NEW stmt PROVE Quiet(R, RunStatement(R, stmt))
<1>1. Quiet(R, Give(R, Nothing)) /\ DOMAIN Give(R, Nothing) = Parts
  BY QuietParts DEF Quiet
<1>2. \A first : Quiet(Give(R, Nothing), Do(Give(R, Nothing), first))
  BY <1>1, QuietParts
<1>3. \A first : Quiet(R, Do(Give(R, Nothing), first))
  BY <1>1, <1>2, QuietThenQuiet
<1>4. QED
  BY <1>3, QuietParts DEF RunStatement

LEMMA QuietBlock ==
  ASSUME NEW R, DOMAIN R = Parts, NEW body PROVE Quiet(R, RunBlock(R, body))
<1>1. \A known : Quiet(R, [R EXCEPT !.functions = known])
                 /\ DOMAIN [R EXCEPT !.functions = known] = Parts
  BY DEF Quiet, Parts
<1>2. \A known, first : Quiet(R, Do([R EXCEPT !.functions = known], first))
  BY <1>1, QuietParts, QuietThenQuiet
<1>3. QED
  BY <1>2 DEF RunBlock

LEMMA QuietOperators ==
  ASSUME NEW R, DOMAIN R = Parts, NEW f
  PROVE  /\ Quiet(R, Right(R, f))
         /\ Quiet(R, Join(R, f))
         /\ \A sign : Quiet(R, Negated(R, sign))
<1>1. Quiet(R, Right(R, f))
  BY QuietParts DEF Right
<1>2. \A op, a, b : Quiet(R, Arithmetic(R, op, a, b))
  BY QuietParts DEF Arithmetic
<1>3. Quiet(R, Join(R, f))
  BY <1>2, QuietParts DEF Join
<1>4. \A sign : Quiet(R, Negated(R, sign))
  BY QuietParts DEF Negated
<1>5. QED
  BY <1>1, <1>3, <1>4

LEMMA QuietLoops ==
  ASSUME NEW R, DOMAIN R = Parts, NEW f, NEW stmt
  PROVE  /\ Quiet(R, Branch(R, stmt))
         /\ Quiet(R, Repeat(R, stmt)) /\ Quiet(R, For(R, stmt))
         /\ Quiet(R, Turn(R, f)) /\ Quiet(R, While(R, f))
<1>1. \A name, v, first : Quiet(R, Do(Set(R, name, v), first))
  BY QuietParts, QuietAndOn
<1>2. Quiet(R, Turn(R, f))
  BY <1>1, QuietParts DEF Turn
<1>3. \A items : Quiet(R, Walk(R, stmt, items))
  BY QuietParts DEF Walk
<1>4. Quiet(R, Repeat(R, stmt)) /\ Quiet(R, For(R, stmt))
  BY <1>3, QuietParts DEF Repeat, For
<1>5. Quiet(R, Branch(R, stmt)) /\ Quiet(R, While(R, f))
  BY QuietParts DEF Branch, While
<1>6. QED
  BY <1>2, <1>4, <1>5

LEMMA QuietPipe ==
  ASSUME NEW R, DOMAIN R = Parts, NEW stage, NEW k, NEW before
  PROVE  Quiet(R, Stage(R, stage, k)) /\ Quiet(R, RestoreIt(R, before))
<1>1. \A v : Quiet(R, Set(R, "it", v)) /\ Quiet(R, Keep(Set(R, "it", v)))
  BY QuietParts, QuietAndOn
<1>2. \A v, first : /\ Quiet(R, Do(Set(R, "it", v), first))
                    /\ Quiet(R, Do(Keep(Set(R, "it", v)), first))
  BY <1>1, QuietAndOn
<1>4. Quiet(R, Stage(R, stage, k))
  BY <1>2, QuietParts DEF Stage
<1>5. Quiet(R, RestoreIt(R, before))
  BY DEF RestoreIt, Quiet, Parts
<1>6. QED
  BY <1>4, <1>5

LEMMA QuietCalls ==
  ASSUME NEW R, DOMAIN R = Parts, NEW name, NEW args, NEW caller
  PROVE  /\ Quiet(R, Shaped(R, name, args))
         /\ Quiet(R, CallDefined(R, name, args))
         /\ Quiet(R, BackTo(R, caller))
<1>1. Quiet(R, Shaped(R, name, args))
  BY QuietParts DEF Shaped
<1>2. \A own, depth :
        LET S == [R EXCEPT !.vars = own, !.depth = depth, !.returned = NoAnswer] IN
        Quiet(R, S) /\ DOMAIN S = Parts
  BY DEF Quiet, Parts
<1>3. Quiet(R, CallDefined(R, name, args))
  BY <1>2, QuietParts, QuietThenQuiet DEF CallDefined
<1>4. \A own, returned, depth :
        LET S == [R EXCEPT !.vars = own, !.returned = returned, !.depth = depth,
                           !.signal = "carry on"] IN
        Quiet(R, S) /\ DOMAIN S = Parts
  BY DEF Quiet, Parts
<1>5. Quiet(R, BackTo(R, caller))
  BY <1>4, QuietParts, QuietThenQuiet DEF BackTo
<1>6. QED
  BY <1>1, <1>3, <1>5

\* What a step may add: one command to what was done, a guest's only for
\* looking; one line to what was said.
Adds(R, S, who) ==
  /\ DOMAIN S = Parts
  /\ S.did = R.did \/ \E name \in DOMAIN Registry :
                        S.did = Append(R.did, name) /\ (who => Registry[name].guest_safe)
  /\ S.said = R.said \/ \E t : S.said = Append(R.said, t)
  /\ S.fault = "looking only" => who /\ S.did = R.did /\ S.said = R.said

LEMMA QuietAdds ==
  ASSUME NEW R, NEW S, NEW who, DOMAIN R = Parts, R.fault # "looking only", Quiet(R, S)
  PROVE  Adds(R, S, who)
BY DEF Quiet, Adds

LEMMA SayAdds ==
  ASSUME NEW R, DOMAIN R = Parts, R.fault # "looking only", NEW v
  PROVE  /\ DOMAIN Say(R, v) = Parts /\ Say(R, v).did = R.did
         /\ Say(R, v).said = R.said \/ \E t : Say(R, v).said = Append(R.said, t)
         /\ Say(R, v).fault # "looking only"
BY DEF Say, Fault, Parts

LEMMA PrintAdds ==
  ASSUME NEW R, DOMAIN R = Parts, R.fault # "looking only", NEW who
  PROVE  Adds(R, PrintIfThereIsOne(R), who)
<1> DEFINE v == R.val
<1> HIDE DEF v
<1>1. Adds(R, Say(R, v), who)
  BY SayAdds DEF Adds
<1>2. Adds(R, R, who)
  BY QuietParts, QuietAdds
<1>3. QED
  BY <1>1, <1>2 DEF PrintIfThereIsOne, v

LEMMA CallHostAdds ==
  ASSUME NEW R, DOMAIN R = Parts, R.fault # "looking only",
         NEW name \in DOMAIN Registry, NEW args, NEW who
  PROVE  Adds(R, CallHost(R, name, args, who), who)
<1> DEFINE ran == [R EXCEPT !.did = Append(@, name), !.val = NoAnswer]
<1>1. /\ DOMAIN ran = Parts /\ ran.fault = R.fault
      /\ ran.said = R.said /\ ran.did = Append(R.did, name)
  BY DEF Parts
<1>2. CASE LookingOnly(R, name, who)
  <2> DEFINE S == Fault(R, "looking only")
  <2>1. who
    BY <1>2 DEF LookingOnly
  <2>2. DOMAIN S = Parts /\ S.did = R.did /\ S.said = R.said
    BY DEF Fault, Parts
  <2> HIDE DEF S
  <2>3. Adds(R, S, who)
    BY <2>1, <2>2 DEF Adds
  <2>4. QED
    BY <1>2, <2>3 DEF CallHost, S
<1>3. CASE ~LookingOnly(R, name, who)
  <2>1. who => Registry[name].guest_safe
    BY <1>3 DEF LookingOnly
  <2>2. Adds(R, ran, who)
    BY <1>1, <2>1 DEF Adds
  <2>3. Adds(R, Say(ran, List(args)), who)
    <3> HIDE DEF ran
    <3>1. QED
      BY <1>1, <2>1, SayAdds DEF Adds
  <2>4. Adds(R, Fault(R, "needs arguments"), who)
    BY QuietParts, QuietAdds
  <2>5. QED
    BY <1>3, <2>2, <2>3, <2>4 DEF CallHost
<1>4. QED
  BY <1>2, <1>3

LEMMA CallAdds ==
  ASSUME NEW R, DOMAIN R = Parts, R.fault # "looking only", NEW f, NEW who
  PROVE  Adds(R, Call(R, f, who), who)
<1> DEFINE kept == Len(R.vals) - f.count
           args == SubSeq(R.vals, kept + 1, Len(R.vals))
           r == [R EXCEPT !.vals = SubSeq(@, 1, kept)]
<1>1. DOMAIN r = Parts /\ r.fault = R.fault /\ r.did = R.did /\ r.said = R.said
  BY DEF Parts
<1> HIDE DEF r, args
<1>2. \A S : Adds(r, S, who) => Adds(R, S, who)
  BY <1>1 DEF Adds
<1>3. f.name \in DOMAIN Registry => Adds(r, CallHost(r, f.name, args, who), who)
  BY <1>1, CallHostAdds
<1>4. /\ Adds(r, Shaped(r, f.name, args), who)
      /\ Adds(r, CallDefined(r, f.name, args), who)
      /\ Adds(r, Fault(r, "no command"), who)
  BY <1>1, QuietCalls, QuietParts, QuietAdds
<1>5. QED
  BY <1>2, <1>3, <1>4 DEF Call, r, args

LEMMA PassByIsQuiet ==
  ASSUME NEW R, DOMAIN R = Parts, NEW f PROVE Quiet(R, PassBy(R, f))
<1>1. \A signal, first : Quiet(R, Do(Signalled(R, signal), first))
  BY QuietParts, QuietAndOn
<1>2. QED
  BY <1>1, QuietCalls, QuietParts DEF PassBy

LEMMA PerformAdds ==
  ASSUME NEW R, DOMAIN R = Parts, R.fault # "looking only", NEW f, NEW who
  PROVE  Adds(R, Perform(R, f, who), who)
<1>1. Adds(R, Call(R, f, who), who)
  BY CallAdds
<1>2. Adds(R, PrintIfThereIsOne(R), who)
  BY PrintAdds
<1>3. /\ Adds(R, RunBlock(R, f.body), who)
      /\ Adds(R, RunStatement(R, f.stmt), who)
      /\ Adds(R, Eval(R, f.e), who)
      /\ Adds(R, Negated(R, f.sign), who)
      /\ Adds(R, Right(R, f), who)
      /\ Adds(R, Join(R, f), who)
  BY QuietAdds, QuietBlock, QuietStatement, QuietEval, QuietOperators
<1>4. /\ Adds(R, BackTo(R, f), who)
      /\ Adds(R, Stage(R, f.stage, f.k), who)
      /\ Adds(R, RestoreIt(R, f.vars), who)
  BY QuietAdds, QuietCalls, QuietPipe
<1>5. /\ Adds(R, Branch(R, f.stmt), who)
      /\ Adds(R, Repeat(R, f.stmt), who) /\ Adds(R, For(R, f.stmt), who)
      /\ Adds(R, Turn(R, f), who) /\ Adds(R, While(R, f), who)
  BY QuietAdds, QuietLoops
<1>6. /\ \A first : Adds(R, Do(R, first), who)
      /\ \A v : Adds(R, Give(R, v), who)
      /\ \A name, v : Adds(R, Set(R, name, v), who)
      /\ Adds(R, Keep(R), who) /\ Adds(R, R, who)
  BY QuietParts, QuietAdds
<1>7. Adds(R, Signalled([R EXCEPT !.returned = R.val], "return"), who)
  <2>1. Quiet(R, [R EXCEPT !.returned = R.val])
    BY DEF Quiet, Parts
  <2>2. Quiet(R, Signalled([R EXCEPT !.returned = R.val], "return"))
    BY <2>1, QuietAndOn, QuietParts, QuietThenQuiet
  <2>3. QED
    BY <2>2, QuietAdds
<1>8. QED
  BY <1>1, <1>2, <1>3, <1>4, <1>5, <1>6, <1>7 DEF Perform

LEMMA AdvanceAdds ==
  ASSUME NEW R, DOMAIN R = Parts, R.fault # "looking only", NEW who
  PROVE  Adds(R, Advance(R, who), who)
<1> DEFINE f == Head(R.todo)
           r == [R EXCEPT !.todo = Tail(@)]
           spent == IF f.do \in {"statement", "eval"} THEN SpendAStep(r) ELSE r
<1>1. DOMAIN r = Parts /\ r.fault = R.fault /\ r.did = R.did /\ r.said = R.said
  BY DEF Parts
<1>2. DOMAIN spent = Parts /\ spent.did = R.did /\ spent.said = R.said
      /\ spent.fault # "looking only"
  BY <1>1 DEF SpendAStep, Fault, Parts
<1> HIDE DEF f, r, spent
<1>3. Adds(R, R, who) /\ Adds(R, spent, who)
  BY <1>2 DEF Adds
<1>4. Adds(R, PassBy(r, f), who)
  <2>1. Adds(r, PassBy(r, f), who)
    BY <1>1, PassByIsQuiet, QuietAdds
  <2>2. QED
    BY <1>1, <2>1 DEF Adds
<1>5. Adds(R, Perform(spent, f, who), who)
  <2>1. Adds(spent, Perform(spent, f, who), who)
    BY <1>2, PerformAdds
  <2>2. QED
    BY <1>2, <2>1 DEF Adds
<1>6. QED
  BY <1>3, <1>4, <1>5 DEF Advance, f, r, spent

\* Who may only look goes the way anybody goes, or is refused.
LEMMA SameWay ==
  ASSUME NEW R, DOMAIN R = Parts
  PROVE  Advance(R, TRUE) = Advance(R, FALSE) \/ Advance(R, TRUE).fault = "looking only"
<1>1. ASSUME NEW S, DOMAIN S = Parts, NEW name, NEW args
      PROVE  \/ CallHost(S, name, args, TRUE) = CallHost(S, name, args, FALSE)
             \/ CallHost(S, name, args, TRUE).fault = "looking only"
  BY <1>1 DEF CallHost, LookingOnly, Fault, Parts
<1>2. ASSUME NEW S, DOMAIN S = Parts, NEW f
      PROVE  Call(S, f, TRUE) = Call(S, f, FALSE) \/ Call(S, f, TRUE).fault = "looking only"
  <2> DEFINE kept == Len(S.vals) - f.count
             args == SubSeq(S.vals, kept + 1, Len(S.vals))
             s == [S EXCEPT !.vals = SubSeq(@, 1, kept)]
  <2>1. DOMAIN s = Parts
    BY <1>2
  <2> HIDE DEF args, s
  <2>2. \/ CallHost(s, f.name, args, TRUE) = CallHost(s, f.name, args, FALSE)
        \/ CallHost(s, f.name, args, TRUE).fault = "looking only"
    BY <1>1, <2>1
  <2>3. QED
    BY <2>2 DEF Call, args, s
<1>3. ASSUME NEW S, DOMAIN S = Parts, NEW f
      PROVE  \/ Perform(S, f, TRUE) = Perform(S, f, FALSE)
             \/ Perform(S, f, TRUE).fault = "looking only"
  BY <1>2, <1>3 DEF Perform
<1> DEFINE f == Head(R.todo)
           r == [R EXCEPT !.todo = Tail(@)]
           spent == IF f.do \in {"statement", "eval"} THEN SpendAStep(r) ELSE r
<1>4. DOMAIN r = Parts /\ DOMAIN spent = Parts
  BY DEF SpendAStep, Fault
<1> HIDE DEF f, r, spent
<1>5. \/ Perform(spent, f, TRUE) = Perform(spent, f, FALSE)
      \/ Perform(spent, f, TRUE).fault = "looking only"
  BY <1>3, <1>4
<1>6. QED
  BY <1>5 DEF Advance, f, r, spent

----------------------------------------------------------------------------
(* The run beside anybody's.                                                *)

LEMMA PrefixOfItself ==
  ASSUME NEW T, NEW s \in Seq(T) PROVE IsPrefix(s, s)
BY DEF IsPrefix

LEMMA PrefixOfMore ==
  ASSUME NEW T, NEW s \in Seq(T), NEW t \in Seq(T), NEW e \in T, IsPrefix(s, t)
  PROVE  IsPrefix(s, Append(t, e))
<1>1. Len(s) <= Len(Append(t, e))
  BY DEF IsPrefix
<1>2. SubSeq(Append(t, e), 1, Len(s)) = SubSeq(t, 1, Len(s))
  BY DEF IsPrefix
<1>3. QED
  BY <1>1, <1>2 DEF IsPrefix

\* What is in a run keeps its kind.
LEMMA AdvanceIsRun ==
  ASSUME NEW R, IsRun(R), R.fault # "looking only", NEW who PROVE IsRun(Advance(R, who))
<1> DEFINE S == Advance(R, who)
<1>1. Adds(R, S, who)
  BY AdvanceAdds DEF IsRun
<1> HIDE DEF S
<1>2. S.did \in Seq(DOMAIN Registry)
  <2>1. R.did \in Seq(DOMAIN Registry)
    BY DEF IsRun
  <2>2. \A name \in DOMAIN Registry : Append(R.did, name) \in Seq(DOMAIN Registry)
    BY <2>1, AppendProperties
  <2>3. QED
    BY <1>1, <2>1, <2>2 DEF Adds
<1>3. PICK T : R.said \in Seq(T)
  BY DEF IsRun
<1>4. \E U : S.said \in Seq(U)
  <2>1. CASE S.said = R.said
    BY <1>3, <2>1
  <2>2. ASSUME NEW t, S.said = Append(R.said, t) PROVE \E U : S.said \in Seq(U)
    <3>1. T \subseteq T \cup {t}
      OBVIOUS
    <3>2. R.said \in Seq(T \cup {t})
      BY <1>3, <3>1, SeqMonotonic
    <3>3. Append(R.said, t) \in Seq(T \cup {t})
      BY <3>2, AppendProperties
    <3>4. QED
      BY <2>2, <3>3
  <2>3. QED
    BY <1>1, <2>1, <2>2 DEF Adds
<1>5. QED
  BY <1>1, <1>2, <1>4 DEF Adds, IsRun, S

\* What was done is all for looking.
Looked(did) == \A i \in DOMAIN did : Registry[did[i]].guest_safe

LEMMA LookedMore ==
  ASSUME NEW did \in Seq(DOMAIN Registry), Looked(did),
         NEW name \in DOMAIN Registry, Registry[name].guest_safe
  PROVE  Looked(Append(did, name))
<1>1. SUFFICES ASSUME NEW i \in DOMAIN Append(did, name)
               PROVE  Registry[Append(did, name)[i]].guest_safe
  BY DEF Looked
<1>2. DOMAIN Append(did, name) = 1..(Len(did) + 1) /\ DOMAIN did = 1..Len(did)
  BY AppendProperties
<1>3. CASE i \in DOMAIN did
  BY <1>2, <1>3, AppendProperties DEF Looked
<1>4. CASE i = Len(did) + 1
  BY <1>4, AppendProperties
<1>5. QED
  BY <1>1, <1>2, <1>3, <1>4

\* A run R beside anybody's run A of the same script: a refused one stays where
\* it was, and anybody's goes on from there.
Beside(R, A, who) ==
  /\ IsRun(R) /\ IsRun(A)
  /\ A.fault # "looking only"
  /\ who => Looked(R.did)
  /\ R.fault # "looking only" => R = A
  /\ R.fault = "looking only" => who /\ IsPrefix(R.did, A.did) /\ IsPrefix(R.said, A.said)
Together == at = "running" => guest \in BOOLEAN /\ Beside(run, anybody, guest)

\* What anybody's run did and said stays, with what a step adds behind it.
LEMMA AnybodyGoesOn ==
  ASSUME NEW R, IsRun(R), R.fault # "looking only"
  PROVE  LET S == Advance(R, FALSE) IN
         /\ IsRun(S) /\ S.fault # "looking only"
         /\ \A did : IsPrefix(did, R.did) /\ did \in Seq(DOMAIN Registry) => IsPrefix(did, S.did)
         /\ \A lines : IsPrefix(lines, R.said) /\ (\E T : lines \in Seq(T)) => IsPrefix(lines, S.said)
<1> DEFINE S == Advance(R, FALSE)
<1>1. IsRun(S) /\ Adds(R, S, FALSE)
  BY AdvanceIsRun, AdvanceAdds DEF IsRun
<1> HIDE DEF S
<1>2. S.fault # "looking only"
  BY <1>1 DEF Adds
<1>3. ASSUME NEW did \in Seq(DOMAIN Registry), IsPrefix(did, R.did)
      PROVE  IsPrefix(did, S.did)
  <2>1. R.did \in Seq(DOMAIN Registry)
    BY DEF IsRun
  <2>2. \A name \in DOMAIN Registry : IsPrefix(did, Append(R.did, name))
    BY <1>3, <2>1, PrefixOfMore
  <2>3. QED
    BY <1>1, <1>3, <2>2 DEF Adds
<1>4. ASSUME NEW lines, IsPrefix(lines, R.said), NEW T, lines \in Seq(T)
      PROVE  IsPrefix(lines, S.said)
  <2>1. PICK U : R.said \in Seq(U)
    BY DEF IsRun
  <2>2. ASSUME NEW t PROVE IsPrefix(lines, Append(R.said, t))
    <3> DEFINE V == T \cup U \cup {t}
    <3>1. T \subseteq V /\ U \subseteq V /\ t \in V
      OBVIOUS
    <3> HIDE DEF V
    <3>2. lines \in Seq(V) /\ R.said \in Seq(V)
      BY <1>4, <2>1, <3>1, SeqMonotonic
    <3>3. QED
      BY <1>4, <3>1, <3>2, PrefixOfMore
  <2>3. QED
    BY <1>1, <1>4, <2>2 DEF Adds
<1>5. QED
  BY <1>1, <1>2, <1>3, <1>4 DEF S

LEMMA BesideAtTheStart ==
  ASSUME NEW body, NEW who PROVE Beside(Start(body), Start(body), who)
<1> DEFINE R == Start(body)
<1>1. IsRun(R) /\ R.fault = "" /\ R.did = <<>>
  BY StartIsRun
<1>2. Looked(<<>>)
  BY DEF Looked
<1> HIDE DEF R
<1>3. QED
  BY <1>1, <1>2 DEF Beside, R

\* A guest's run that was not refused took the step anybody's took, or is
\* refused here.
LEMMA BesideGoing ==
  ASSUME NEW R, NEW who \in BOOLEAN, Beside(R, R, who), R.fault # "looking only"
  PROVE  Beside(Advance(R, who), Advance(R, FALSE), who)
<1> DEFINE S == Advance(R, who)
           A == Advance(R, FALSE)
<1>1. IsRun(R) /\ (who => Looked(R.did))
  BY DEF Beside
<1>2. Adds(R, S, who) /\ IsRun(S)
  BY <1>1, AdvanceAdds, AdvanceIsRun DEF IsRun
<1>3. IsRun(A) /\ A.fault # "looking only"
  BY <1>1, AnybodyGoesOn
<1>4. S = A \/ S.fault = "looking only"
  BY <1>1, SameWay DEF IsRun
<1>5. IsPrefix(R.did, R.did) /\ IsPrefix(R.said, R.said)
  <2>1. R.did \in Seq(DOMAIN Registry) /\ \E T : R.said \in Seq(T)
    BY <1>1 DEF IsRun
  <2>2. QED
    BY <2>1, PrefixOfItself
<1>6. IsPrefix(R.did, A.did) /\ IsPrefix(R.said, A.said)
  BY <1>1, <1>5, AnybodyGoesOn DEF IsRun
<1> HIDE DEF S, A
<1>7. who => Looked(S.did)
  <2>1. R.did \in Seq(DOMAIN Registry)
    BY <1>1 DEF IsRun
  <2>2. who => \A name \in DOMAIN Registry :
                 Registry[name].guest_safe => Looked(Append(R.did, name))
    BY <1>1, <2>1, LookedMore
  <2>3. QED
    BY <1>1, <1>2, <2>2 DEF Adds
<1>8. S.fault = "looking only" => who /\ S.did = R.did /\ S.said = R.said
  BY <1>2 DEF Adds
<1>9. QED
  BY <1>2, <1>3, <1>4, <1>6, <1>7, <1>8 DEF Beside, S, A

\* A refused run is over: only anybody's goes on.
LEMMA BesideRefused ==
  ASSUME NEW R, NEW A, NEW who \in BOOLEAN, Beside(R, A, who), R.fault = "looking only"
  PROVE  Beside(Advance(R, who), Advance(A, FALSE), who)
<1>1. Advance(R, who) = R
  BY DEF Advance, Over
<1>2. /\ IsRun(R) /\ IsRun(A) /\ A.fault # "looking only" /\ who /\ Looked(R.did)
      /\ IsPrefix(R.did, A.did) /\ IsPrefix(R.said, A.said)
  BY DEF Beside
<1> DEFINE B == Advance(A, FALSE)
<1>3. /\ IsRun(B) /\ B.fault # "looking only"
      /\ IsPrefix(R.did, B.did) /\ IsPrefix(R.said, B.said)
  BY <1>2, AnybodyGoesOn DEF IsRun
<1> HIDE DEF B
<1>4. Beside(R, B, who)
  BY <1>2, <1>3 DEF Beside
<1>5. QED
  BY <1>1, <1>4 DEF B

LEMMA BesideAdvances ==
  ASSUME NEW R, NEW A, NEW who \in BOOLEAN, Beside(R, A, who)
  PROVE  Beside(Advance(R, who), Advance(A, FALSE), who)
<1>1. R.fault # "looking only" => R = A
  BY DEF Beside
<1>2. QED
  BY <1>1, BesideGoing, BesideRefused

LEMMA TogetherAlways == Together /\ [CritterNext]_critter => Together'
<1>1. SUFFICES ASSUME Together, [CritterNext]_critter PROVE Together'
  OBVIOUS
<1>2. CASE Read
  BY <1>2 DEF Read, Together
<1>3. CASE Step
  BY <1>1, <1>3, BesideAdvances DEF Step, Together
<1>4. ASSUME NEW whom \in BOOLEAN, RunAs(whom) PROVE Together'
  BY <1>4, BesideAtTheStart DEF RunAs, Together
<1>5. CASE UNCHANGED critter
  BY <1>1, <1>5 DEF critter, Together
<1>6. QED
  BY <1>1, <1>2, <1>3, <1>4, <1>5 DEF CritterNext

LEMMA BesideLooks ==
  ASSUME NEW R, NEW A, Beside(R, A, TRUE)
  PROVE  /\ \A i \in DOMAIN R.did : Registry[R.did[i]].guest_safe
         /\ IsPrefix(R.did, A.did)
         /\ IsPrefix(R.said, A.said)
         /\ R.fault # "looking only" => R = A
<1>1. R.did \in Seq(DOMAIN Registry) /\ \E T : R.said \in Seq(T)
  BY DEF Beside, IsRun
<1>2. IsPrefix(R.did, R.did) /\ IsPrefix(R.said, R.said)
  BY <1>1, PrefixOfItself
<1>3. QED
  BY <1>2 DEF Beside, Looked

\* A guest may look and not touch (run_as_guest): whatever its script says and
\* however it calls a command, what its run did are commands for looking, and
\* what it did and said is what anybody's run of the same script does, up to the
\* first command that is not.
THEOREM LooksOnly == CritterSpec => []GuestOnlyLooks
<1>1. CritterInit => Together
  BY DEF CritterInit, Together
<1>2. Together /\ [CritterNext]_critter => Together'
  BY TogetherAlways
<1>3. Together => GuestOnlyLooks
  BY BesideLooks DEF Together, GuestOnlyLooks
<1>4. QED
  BY <1>1, <1>2, <1>3, PTL DEF CritterSpec
=============================================================================
