----------------------------- MODULE LinkProofs -----------------------------
(* Proofs about Link, for any number of machines, codes, sessions, requests *)
(* and tries: guesses are bounded, a used code is dead, and a machine that  *)
(* was told it is linked is linked.                                         *)
EXTENDS Link, TLAPS

(* The count kept with a code is the count of wrong tries, and a code is    *)
(* drawn once.                                                              *)
Codes ==
  /\ \A s \in Session : showing[s].code # None =>
       /\ showing[s].code \in spent
       /\ wrongs[showing[s].code] = showing[s].wrong
       /\ showing[s].wrong < MaxWrong
  /\ \A s, t \in Session :
       showing[s].code # None /\ showing[s].code = showing[t].code => s = t
  /\ \A c \in Code : wrongs[c] <= MaxWrong /\ (c \notin spent => wrongs[c] = 0)

(* A code somebody came in with is shown by no other session, and by none   *)
(* once the answer is out.                                                  *)
Used ==
  \A r \in Request :
    /\ job[r].at \in {"accepted", "recorded", "linked"} =>
         /\ job[r].code \in spent
         /\ \A s \in Session : showing[s].code = job[r].code => s = job[r].host
    /\ job[r].at = "linked" => \A s \in Session : showing[s].code # job[r].code

(* Where nothing got in the way, the file can be read, and both ends and it *)
(* tell the same.                                                           *)
Told ==
  /\ smooth # {} => disk \in Book
  /\ \A j \in smooth :
       /\ \A r \in Request : job[r].by = j =>
            /\ job[r].at \in {"sent", "accepted", "recorded"} => waiting[j] = r
            /\ job[r].at # "failed"
       /\ waiting[j] # None => job[waiting[j]].by = j /\ job[waiting[j]].at # "unsent"
       /\ waiting[j] # None /\ job[waiting[j]].at \in {"recorded", "linked"}
            => disk[j] = waiting[j]
       /\ disk[j] # None => job[disk[j]].at \in {"recorded", "linked"}
       /\ kept[j] # None /\ disk[j] # kept[j] => waiting[j] # None /\ disk[j] = waiting[j]

(* And so does every copy of the list that somebody may yet write over it.  *)
Copies ==
  \A j \in smooth :
    /\ \A s \in Session : MaySave(s) => book[s][j] = disk[j]
    /\ \A e \in Errand : copy[e] # None => copy[e][j] = disk[j]

IInv == TypeOK /\ Codes /\ Used /\ Told /\ Copies

-----------------------------------------------------------------------------
(* What the records of the model hold.                                      *)

LEMMA PairingFacts ==
  ASSUME NEW p \in Pairing
  PROVE  /\ p.code \in Code \cup {None} /\ p.wrong \in 0 .. MaxWrong /\ p.old \in BOOLEAN
         /\ p.code # None => p \in [code : Code, wrong : 0 .. MaxWrong, old : BOOLEAN]
<1>1. CASE p \in [code : Code, wrong : 0 .. MaxWrong, old : BOOLEAN]
  BY <1>1
<1>2. CASE p = NoPairing
  BY <1>2, LinkAssumption DEF NoPairing
<1>3. QED
  BY <1>1, <1>2 DEF Pairing

LEMMA JobFacts ==
  ASSUME NEW b \in Job
  PROVE  /\ b.at \in Stage \cup {"unsent"}
         /\ b.at # "unsent" =>
              /\ b.by \in Joiner /\ b.host \in Session /\ b.code \in Code
              /\ b \in [at : Stage, by : Joiner, host : Session, code : Code]
         /\ b.at = "unsent" => b = Unsent
  BY DEF Job, Unsent, Stage, Reply

\* A handler that moves on changes how far it is, and nothing else.
LEMMA Moves ==
  ASSUME TypeOK, NEW r \in Request, NEW stage \in Stage, job[r].at # "unsent",
         Reaches(r, stage)
  PROVE  /\ job' \in [Request -> Job]
         /\ job'[r].at = stage /\ job'[r].by = job[r].by
         /\ job'[r].host = job[r].host /\ job'[r].code = job[r].code
         /\ \A q \in Request : q # r => job'[q] = job[q]
<1>1. job[r] \in Job /\ job \in [Request -> Job]
  BY DEF TypeOK
<1>2. job[r] \in [at : Stage, by : Joiner, host : Session, code : Code]
  BY <1>1, JobFacts
<1>3. [job[r] EXCEPT !.at = stage] \in [at : Stage, by : Joiner, host : Session, code : Code]
  BY <1>2
<1>4. job' = [job EXCEPT ![r] = [job[r] EXCEPT !.at = stage]]
  BY DEF Reaches
<1>5. job' \in [Request -> Job]
  BY <1>1, <1>3, <1>4 DEF Job
<1>6. QED
  BY <1>1, <1>2, <1>4, <1>5

\* Who may write the list is who serves, and who is still to record a machine.
LEMMA NoNewWriter ==
  ASSUME \A s \in Session : Open(s)' => Open(s),
         \A r \in Request : job'[r].at = "accepted" =>
           job[r].at = "accepted" /\ job'[r].host = job[r].host
  PROVE  \A s \in Session : MaySave(s)' => MaySave(s)
<1> SUFFICES ASSUME NEW s \in Session, MaySave(s)' PROVE MaySave(s)
  OBVIOUS
<1>1. CASE Open(s)'
  BY <1>1 DEF MaySave
<1>2. CASE \E r \in Request : job'[r].host = s /\ job'[r].at = "accepted"
  BY <1>2 DEF MaySave
<1>3. QED
  BY <1>1, <1>2 DEF MaySave

\* Copies that nobody adds to stay what they are.
LEMMA CopiesKept ==
  ASSUME IInv, smooth' \subseteq smooth, UNCHANGED <<book, disk, copy>>,
         \A s \in Session : MaySave(s)' => MaySave(s)
  PROVE  Copies'
<1>1. ASSUME NEW j \in smooth', NEW s \in Session, MaySave(s)'
      PROVE  book'[s][j] = disk'[j]
  BY <1>1 DEF IInv, Copies
<1>2. ASSUME NEW j \in smooth', NEW e \in Errand, copy'[e] # None
      PROVE  copy'[e][j] = disk'[j]
  BY <1>2 DEF IInv, Copies
<1>3. QED
  BY <1>1, <1>2 DEF Copies

LEMMA Fresh ==
  ASSUME TypeOK, NEW s \in Session, OpenPairing(s)
  PROVE  \E c \in Code \ spent :
           /\ spent' = spent \cup {c}
           /\ showing' = [showing EXCEPT ![s] = [code |-> c, wrong |-> 0, old |-> FALSE]]
<1> DEFINE c == CHOOSE d \in Code : d \notin spent
<1>1. \E d \in Code : d \notin spent
  BY DEF OpenPairing, TypeOK
<1>2. c \in Code /\ c \notin spent
  BY <1>1
<1>3. QED
  BY <1>2 DEF OpenPairing

\* What a new code means to the codes before it.
LEMMA FreshKeeps ==
  ASSUME IInv, NEW s \in Session, OpenPairing(s), wrongs' = wrongs, job' = job
  PROVE  /\ spent' \subseteq Code /\ showing' \in [Session -> Pairing]
         /\ Codes' /\ Used'
<1>1. PICK c \in Code \ spent :
        /\ spent' = spent \cup {c}
        /\ showing' = [showing EXCEPT ![s] = [code |-> c, wrong |-> 0, old |-> FALSE]]
  BY Fresh DEF IInv
<1>2. showing \in [Session -> Pairing] /\ spent \subseteq Code /\ wrongs \in [Code -> Nat]
  BY DEF IInv, TypeOK
<1>3. [code |-> c, wrong |-> 0, old |-> FALSE] \in Pairing
  BY LinkAssumption DEF Pairing
<1>4. spent' \subseteq Code /\ showing' \in [Session -> Pairing]
  BY <1>1, <1>2, <1>3
<1>5. /\ showing'[s].code = c /\ showing'[s].wrong = 0
      /\ \A t \in Session : t # s => showing'[t] = showing[t]
  BY <1>1, <1>2
<1>6. \A t \in Session : showing[t].code # c
  BY <1>1, LinkAssumption DEF IInv, Codes
<1>7. Codes'
  BY <1>1, <1>2, <1>5, <1>6, LinkAssumption DEF IInv, Codes
<1>8. Used'
  BY <1>1, <1>5 DEF IInv, Used
<1>9. QED
  BY <1>4, <1>7, <1>8

\* Closing a code, or ageing it, keeps what is true of the codes.
LEMMA FewerShown ==
  ASSUME IInv, showing' \in [Session -> Pairing],
         UNCHANGED <<spent, wrongs>>,
         \A s \in Session : showing'[s].code # None =>
           showing'[s].code = showing[s].code /\ showing'[s].wrong = showing[s].wrong
  PROVE  Codes'
  BY DEF IInv, Codes

-----------------------------------------------------------------------------
(* The host.                                                                *)

LEMMA HostStartKeeps == ASSUME IInv, NEW s \in Session, HostStart(s) PROVE IInv'
<1>1. spent' \subseteq Code /\ showing' \in [Session -> Pairing] /\ Codes' /\ Used'
  BY FreshKeeps DEF HostStart
<1>2. session' = [session EXCEPT ![s] = "open"] /\ book' = [book EXCEPT ![s] = disk]
      /\ UNCHANGED <<disk, copy, job, kept, waiting, wrongs, smooth>>
      /\ disk # None
  BY DEF HostStart
<1>3. TypeOK'
  BY <1>1, <1>2 DEF IInv, TypeOK
<1>4. \A t \in Session : t # s /\ MaySave(t)' => MaySave(t)
  <2>1. ASSUME NEW t \in Session, t # s
        PROVE  session'[t] = session[t]
    BY <1>2, <2>1 DEF IInv, TypeOK
  <2>2. QED
    BY <1>2, <2>1 DEF MaySave, Open
<1>5. book'[s] = disk /\ \A t \in Session : t # s => book'[t] = book[t]
  BY <1>2 DEF IInv, TypeOK
<1>6. Told'
  BY <1>2 DEF IInv, Told
<1>7. Copies'
  <2>1. ASSUME NEW j \in smooth', NEW t \in Session, MaySave(t)'
        PROVE  book'[t][j] = disk'[j]
    BY <2>1, <1>2, <1>4, <1>5 DEF IInv, Copies
  <2>2. ASSUME NEW j \in smooth', NEW e \in Errand, copy'[e] # None
        PROVE  copy'[e][j] = disk'[j]
    BY <2>2, <1>2 DEF IInv, Copies
  <2>3. QED
    BY <2>1, <2>2 DEF Copies
<1>8. QED
  BY <1>1, <1>3, <1>6, <1>7 DEF IInv

LEMMA ReopenKeeps == ASSUME IInv, NEW s \in Session, Reopen(s) PROVE IInv'
<1>1. spent' \subseteq Code /\ showing' \in [Session -> Pairing] /\ Codes' /\ Used'
  BY FreshKeeps DEF Reopen
<1>2. UNCHANGED <<session, book, disk, copy, job, kept, waiting, wrongs, smooth>>
  BY DEF Reopen
<1>3. TypeOK'
  BY <1>1, <1>2 DEF IInv, TypeOK
<1>4. Told' /\ Copies'
  BY <1>2 DEF IInv, Told, Copies, MaySave, Open
<1>5. QED
  BY <1>1, <1>3, <1>4 DEF IInv

\* What stops showing disturbs no job.
LEMMA FewerUsed ==
  ASSUME IInv, job' = job, spent' = spent,
         \A s \in Session : showing'[s].code # None => showing'[s].code = showing[s].code
  PROVE  Used'
<1>1. \A r \in Request : job[r].at \in {"accepted", "recorded", "linked"} => job[r].code # None
  BY JobFacts, LinkAssumption DEF IInv, TypeOK
<1>2. QED
  BY <1>1 DEF IInv, Used

LEMMA HostStopKeeps == ASSUME IInv, NEW s \in Session, HostStop(s) PROVE IInv'
<1>1. session' = [session EXCEPT ![s] = "stopped"]
      /\ showing' = [showing EXCEPT ![s] = NoPairing]
      /\ UNCHANGED <<book, disk, copy, job, kept, waiting, spent, wrongs, smooth>>
  BY DEF HostStop
<1>2. showing' \in [Session -> Pairing]
  BY <1>1 DEF IInv, TypeOK, Pairing
<1>3. TypeOK'
  BY <1>1, <1>2 DEF IInv, TypeOK
<1>4. \A t \in Session : showing'[t].code # None => showing'[t] = showing[t]
  BY <1>1 DEF IInv, TypeOK, NoPairing
<1>5. Codes' /\ Used'
  BY <1>1, <1>2, <1>4, FewerShown, FewerUsed
<1>6. \A t \in Session : Open(t)' => Open(t)
  BY <1>1 DEF Open, IInv, TypeOK
<1>7. Told'
  BY <1>1 DEF IInv, Told
<1>8. Copies'
  <2>1. \A t \in Session : MaySave(t)' => MaySave(t)
    BY <1>1, <1>6, NoNewWriter
  <2>2. QED
    BY <1>1, <2>1, CopiesKept
<1>9. QED
  BY <1>3, <1>5, <1>7, <1>8 DEF IInv

LEMMA GrowsOldKeeps == ASSUME IInv, NEW s \in Session, GrowsOld(s) PROVE IInv'
<1>1. showing' = [showing EXCEPT ![s] = [showing[s] EXCEPT !.old = TRUE]]
      /\ UNCHANGED <<session, book, disk, copy, job, kept, waiting, spent, wrongs, smooth>>
      /\ showing[s].code # None
  BY DEF GrowsOld
<1>2. showing[s] \in [code : Code, wrong : 0 .. MaxWrong, old : BOOLEAN]
  BY <1>1, PairingFacts DEF IInv, TypeOK
<1>3. /\ [showing[s] EXCEPT !.old = TRUE] \in Pairing
      /\ [showing[s] EXCEPT !.old = TRUE].code = showing[s].code
      /\ [showing[s] EXCEPT !.old = TRUE].wrong = showing[s].wrong
  BY <1>2 DEF Pairing
<1>4. showing' \in [Session -> Pairing]
      /\ \A t \in Session : showing'[t].code = showing[t].code
                            /\ showing'[t].wrong = showing[t].wrong
  BY <1>1, <1>3 DEF IInv, TypeOK
<1>5. TypeOK'
  BY <1>1, <1>4 DEF IInv, TypeOK
<1>6. Codes' /\ Used'
  BY <1>1, <1>4, FewerShown, FewerUsed
<1>7. Told' /\ Copies'
  BY <1>1 DEF IInv, Told, Copies, MaySave, Open
<1>8. QED
  BY <1>5, <1>6, <1>7 DEF IInv

\* A request that is refused, while at most its session's code goes.
LEMMA RefusedKeeps ==
  ASSUME IInv, NEW r \in Request, job[r].at = "sent", Reaches(r, "refused"),
         UNCHANGED <<session, book, disk, copy, kept, waiting, spent, smooth>>,
         showing' \in [Session -> Pairing], wrongs' \in [Code -> Nat], Codes',
         \A s \in Session : showing'[s].code # None => showing'[s].code = showing[s].code
  PROVE  IInv'
<1>1. /\ job' \in [Request -> Job]
      /\ job'[r].at = "refused" /\ job'[r].by = job[r].by
      /\ job'[r].host = job[r].host /\ job'[r].code = job[r].code
      /\ \A q \in Request : q # r => job'[q] = job[q]
  <2>1. "refused" \in Stage
    BY DEF Stage, Reply
  <2>2. QED
    BY <2>1, Moves DEF IInv
<1>2. TypeOK'
  BY <1>1 DEF IInv, TypeOK
<1>3. \A q \in Request : job[q].at \in {"accepted", "recorded", "linked"} => job[q].code # None
  BY JobFacts, LinkAssumption DEF IInv, TypeOK
<1>4. Used'
  BY <1>1, <1>3 DEF IInv, Used
<1>5. Told'
  <2>1. ASSUME NEW j \in smooth
        PROVE  /\ waiting[j] # None => waiting[j] \in Request
               /\ disk[j] # None => disk[j] \in Request
    BY DEF IInv, TypeOK, Book, Told
  <2>2. QED
    BY <1>1, <2>1 DEF IInv, Told
<1>6. Copies'
  <2>1. \A t \in Session : MaySave(t)' => MaySave(t)
    BY <1>1, NoNewWriter DEF Open
  <2>2. QED
    BY <2>1, CopiesKept
<1>7. QED
  BY <1>2, <1>4, <1>5, <1>6 DEF IInv

LEMMA RefuseKeeps == ASSUME IInv, NEW r \in Request, Refuse(r) PROVE IInv'
<1> DEFINE s == job[r].host
<1>1. job[r].at = "sent" /\ showing' = [showing EXCEPT ![s] = NoPairing]
      /\ Reaches(r, "refused")
      /\ UNCHANGED <<session, book, disk, copy, kept, waiting, spent, wrongs, smooth>>
  BY DEF Refuse
<1>2. showing' \in [Session -> Pairing]
  BY <1>1 DEF IInv, TypeOK, Pairing
<1>3. \A t \in Session : showing'[t].code # None => showing'[t] = showing[t]
  BY <1>1 DEF IInv, TypeOK, NoPairing
<1>4. Codes' /\ wrongs' \in [Code -> Nat]
  BY <1>1, <1>2, <1>3, FewerShown DEF IInv, TypeOK
<1>5. QED
  BY <1>1, <1>2, <1>3, <1>4, RefusedKeeps

LEMMA WrongCodeKeeps == ASSUME IInv, NEW r \in Request, WrongCode(r) PROVE IInv'
<1> DEFINE s == job[r].host
           p == showing[s]
           n == IF p.wrong + 1 >= MaxWrong THEN NoPairing ELSE [p EXCEPT !.wrong = @ + 1]
<1>1. job[r].at = "sent" /\ Usable(p) /\ showing' = [showing EXCEPT ![s] = n]
      /\ wrongs' = [wrongs EXCEPT ![p.code] = @ + 1] /\ Reaches(r, "refused")
      /\ UNCHANGED <<session, book, disk, copy, kept, waiting, spent, smooth>>
  BY DEF WrongCode
<1>2. s \in Session
  BY <1>1, JobFacts DEF IInv, TypeOK
<1>3. p \in [code : Code, wrong : 0 .. MaxWrong, old : BOOLEAN] /\ p.code # None
  BY <1>1, <1>2, PairingFacts DEF IInv, TypeOK, Usable
<1>4. /\ n \in Pairing
      /\ n.code # None => n.code = p.code /\ n.wrong = p.wrong + 1 /\ n.wrong < MaxWrong
  <2>1. CASE p.wrong + 1 >= MaxWrong
    BY <2>1 DEF Pairing, NoPairing
  <2>2. CASE ~ (p.wrong + 1 >= MaxWrong)
    <3>1. n = [p EXCEPT !.wrong = p.wrong + 1]
      BY <2>2
    <3>2. p.wrong + 1 \in 0 .. MaxWrong /\ p.wrong + 1 < MaxWrong
      BY <2>2, <1>3, LinkAssumption
    <3>3. n \in [code : Code, wrong : 0 .. MaxWrong, old : BOOLEAN]
      BY <1>3, <3>1, <3>2
    <3>4. n.code = p.code /\ n.wrong = p.wrong + 1
      BY <1>3, <3>1
    <3>5. QED
      BY <3>2, <3>3, <3>4 DEF Pairing
  <2>3. QED
    BY <2>1, <2>2
<1>5. showing' \in [Session -> Pairing] /\ showing'[s] = n
      /\ \A t \in Session : t # s => showing'[t] = showing[t]
  BY <1>1, <1>2, <1>4 DEF IInv, TypeOK
<1>6. wrongs' \in [Code -> Nat] /\ wrongs'[p.code] = wrongs[p.code] + 1
      /\ \A c \in Code : c # p.code => wrongs'[c] = wrongs[c]
  BY <1>1, <1>3 DEF IInv, TypeOK
<1>7. p.code \in spent /\ wrongs[p.code] = p.wrong /\ p.wrong < MaxWrong
      /\ \A t \in Session : showing[t].code = p.code => t = s
  BY <1>2, <1>3 DEF IInv, Codes
<1>8. Codes'
  <2>1. ASSUME NEW t \in Session, showing'[t].code # None
        PROVE  /\ showing'[t].code \in spent'
               /\ wrongs'[showing'[t].code] = showing'[t].wrong
               /\ showing'[t].wrong < MaxWrong
    <3>1. CASE t = s
      BY <2>1, <3>1, <1>1, <1>4, <1>5, <1>6, <1>7
    <3>2. CASE t # s
      <4>1. showing'[t] = showing[t] /\ showing[t].code # p.code
        BY <3>2, <1>5, <1>7
      <4>2. showing[t].code \in Code
        BY <4>1, <2>1, PairingFacts DEF IInv, TypeOK
      <4>3. QED
        BY <4>1, <4>2, <2>1, <1>1, <1>6 DEF IInv, Codes
    <3>3. QED
      BY <3>1, <3>2
  <2>2. ASSUME NEW t \in Session, NEW u \in Session,
               showing'[t].code # None, showing'[t].code = showing'[u].code
        PROVE  t = u
    <3>1. \A v \in Session : showing'[v].code # None => showing'[v].code = showing[v].code
      BY <1>4, <1>5
    <3>2. QED
      BY <2>2, <3>1 DEF IInv, Codes
  <2>3. ASSUME NEW c \in Code
        PROVE  wrongs'[c] <= MaxWrong /\ (c \notin spent' => wrongs'[c] = 0)
    <3>1. CASE c = p.code
      BY <3>1, <1>1, <1>3, <1>6, <1>7, LinkAssumption
    <3>2. CASE c # p.code
      BY <3>2, <1>1, <1>6 DEF IInv, Codes
    <3>3. QED
      BY <3>1, <3>2
  <2>4. QED
    BY <2>1, <2>2, <2>3 DEF Codes
<1>9. \A t \in Session : showing'[t].code # None => showing'[t].code = showing[t].code
  BY <1>4, <1>5
<1>10. QED
  BY <1>1, <1>5, <1>6, <1>8, <1>9, RefusedKeeps

LEMMA RightCodeKeeps == ASSUME IInv, NEW r \in Request, RightCode(r) PROVE IInv'
<1> DEFINE s == job[r].host
<1>1. job[r].at = "sent" /\ Open(s) /\ job[r].code = showing[s].code /\ showing[s].code # None
      /\ Reaches(r, "accepted")
      /\ UNCHANGED <<session, showing, book, disk, copy, kept, waiting, spent, wrongs, smooth>>
  BY DEF RightCode, Usable
<1>2. s \in Session
  BY <1>1, JobFacts DEF IInv, TypeOK
<1>3. /\ job' \in [Request -> Job]
      /\ job'[r].at = "accepted" /\ job'[r].by = job[r].by
      /\ job'[r].host = job[r].host /\ job'[r].code = job[r].code
      /\ \A q \in Request : q # r => job'[q] = job[q]
  <2>1. "accepted" \in Stage
    BY DEF Stage
  <2>2. QED
    BY <1>1, <2>1, Moves DEF IInv
<1>4. TypeOK'
  BY <1>1, <1>3 DEF IInv, TypeOK
<1>5. Codes'
  BY <1>1 DEF IInv, Codes
<1>6. job[r].code \in spent /\ \A t \in Session : showing[t].code = job[r].code => t = s
  BY <1>1, <1>2 DEF IInv, Codes
<1>7. Used'
  BY <1>1, <1>3, <1>6 DEF IInv, Used
<1>8. Told'
  <2>1. ASSUME NEW j \in smooth
        PROVE  /\ waiting[j] # None => waiting[j] \in Request
               /\ disk[j] # None => disk[j] \in Request
    BY DEF IInv, TypeOK, Book, Told
  <2>2. QED
    BY <1>1, <1>3, <2>1 DEF IInv, Told
<1>9. Copies'
  <2>1. ASSUME NEW t \in Session, MaySave(t)' PROVE MaySave(t)
    <3>1. CASE t = s
      BY <3>1, <1>1 DEF MaySave
    <3>2. CASE t # s
      BY <2>1, <3>2, <1>1, <1>3 DEF MaySave, Open
    <3>3. QED
      BY <3>1, <3>2
  <2>2. QED
    BY <1>1, <2>1, CopiesKept
<1>10. QED
  BY <1>4, <1>5, <1>7, <1>8, <1>9 DEF IInv

LEMMA RecordKeeps == ASSUME IInv, NEW r \in Request, Record(r) PROVE IInv'
<1> DEFINE s == job[r].host
           j == job[r].by
           now == [book[s] EXCEPT ![j] = r]
           saved == /\ disk' = now /\ Reaches(r, "recorded")
                    /\ smooth' = IF Alone(s) THEN smooth ELSE smooth \ {j}
           unsaved == Reaches(r, "failed") /\ disk' = disk /\ smooth' = smooth \ {j}
           torn == Reaches(r, "failed") /\ disk' = None /\ smooth' = {}
<1>1. job[r].at = "accepted" /\ book' = [book EXCEPT ![s] = now] /\ (saved \/ unsaved \/ torn)
      /\ UNCHANGED <<session, showing, copy, kept, waiting, spent, wrongs>>
  BY DEF Record
<1>2. s \in Session /\ j \in Joiner /\ job[r].code \in Code
  BY <1>1, JobFacts DEF IInv, TypeOK
<1>3. book[s] \in [Joiner -> Request \cup {None}]
  BY <1>2 DEF IInv, TypeOK, Book
<1>4. /\ now \in Book /\ now[j] = r
      /\ \A k \in Joiner : k # j => now[k] = book[s][k]
  BY <1>2, <1>3 DEF Book
<1>5. book' \in [Session -> Book] /\ book'[s] = now
      /\ \A t \in Session : t # s => book'[t] = book[t]
  BY <1>1, <1>2, <1>4 DEF IInv, TypeOK
<1>6. PICK stage \in {"recorded", "failed"} : Reaches(r, stage)
  BY <1>1
<1>7. /\ job' \in [Request -> Job]
      /\ job'[r].at = stage /\ job'[r].by = j /\ job'[r].host = s /\ job'[r].code = job[r].code
      /\ \A q \in Request : q # r => job'[q] = job[q]
  <2>1. stage \in Stage
    BY DEF Stage, Reply
  <2>2. QED
    BY <1>1, <1>6, <2>1, Moves DEF IInv
<1>8. disk' \in Book \cup {None} /\ smooth' \subseteq smooth
  BY <1>1, <1>4 DEF IInv, TypeOK
<1>9. TypeOK'
  BY <1>1, <1>5, <1>7, <1>8 DEF IInv, TypeOK
<1>10. Codes'
  BY <1>1 DEF IInv, Codes
<1>11. Used'
  BY <1>1, <1>7 DEF IInv, Used
<1>12. \A t \in Session : MaySave(t)' => MaySave(t)
  <2>1. \A q \in Request : job'[q].at = "accepted" => job[q].at = "accepted" /\ job'[q].host = job[q].host
    BY <1>7
  <2>2. QED
    BY <1>1, <2>1, NoNewWriter DEF Open
<1>13. MaySave(s)
  BY <1>1 DEF MaySave
<1>14. ASSUME NEW k \in smooth'
       PROVE  k \in smooth /\ k \in Joiner
              /\ (waiting[k] # None => waiting[k] \in Request)
              /\ (disk[k] # None => disk[k] \in Request)
              /\ (kept[k] # None => kept[k] \in Request)
  BY <1>8 DEF IInv, TypeOK, Book, Told
<1>15. ASSUME NEW k \in smooth', k # j
       PROVE  waiting[k] # r /\ disk[k] # r
  <2>1. waiting[k] # r
    BY <1>1, <1>2, <1>14, <1>15, LinkAssumption, JobFacts DEF IInv, Told
  <2>2. disk[k] # r
    BY <1>1, <1>14, LinkAssumption DEF IInv, Told
  <2>3. QED
    BY <2>1, <2>2
\* every other copy of the list has what the file has of the others
<1>16. ASSUME NEW k \in smooth', k # j
       PROVE  now[k] = disk[k]
  BY <1>4, <1>13, <1>14, <1>16, <1>2 DEF IInv, Copies
<1>17. CASE torn
  <2>1. smooth' = {}
    BY <1>17
  <2>2. Told' /\ Copies'
    BY <2>1 DEF Told, Copies
  <2>3. QED
    BY <1>9, <1>10, <1>11, <2>2 DEF IInv
<1>18. CASE unsaved
  <2>1. stage = "failed"
    <3>1. "failed" \in Stage
      BY DEF Stage, Reply
    <3>2. QED
      BY <1>18, <1>1, <1>7, <3>1, Moves DEF IInv
  <2>2. j \notin smooth' /\ disk' = disk
    BY <1>18
  <2>3. Told'
    BY <2>1, <2>2, <1>1, <1>7, <1>8, <1>14, <1>15 DEF IInv, Told
  <2>4. Copies'
    <3>1. ASSUME NEW k \in smooth', NEW t \in Session, MaySave(t)'
          PROVE  book'[t][k] = disk'[k]
      <4>1. k # j
        BY <2>2
      <4>2. CASE t = s
        BY <4>1, <4>2, <2>2, <1>5, <1>16
      <4>3. CASE t # s
        BY <4>3, <3>1, <2>2, <1>5, <1>12, <1>14 DEF IInv, Copies
      <4>4. QED
        BY <4>2, <4>3
    <3>2. ASSUME NEW k \in smooth', NEW e \in Errand, copy'[e] # None
          PROVE  copy'[e][k] = disk'[k]
      BY <3>2, <2>2, <1>1, <1>14 DEF IInv, Copies
    <3>3. QED
      BY <3>1, <3>2 DEF Copies
  <2>5. QED
    BY <1>9, <1>10, <1>11, <2>3, <2>4 DEF IInv
<1>19. CASE saved
  <2>1. stage = "recorded"
    <3>1. "recorded" \in Stage
      BY DEF Stage
    <3>2. QED
      BY <1>19, <1>1, <1>7, <3>1, Moves DEF IInv
  <2>2. disk' = now /\ disk'[j] = r /\ (j \in smooth' => Alone(s))
    BY <1>19, <1>4
  <2>3. j \in smooth' => waiting[j] = r
    BY <1>1, <1>14 DEF IInv, Told
  <2>4. \A k \in smooth' : k # j => disk'[k] = disk[k]
    BY <2>2, <1>16
  <2>5. Told'
    <3>1. disk' \in Book
      BY <2>2, <1>4
    <3>2. ASSUME NEW k \in smooth'
          PROVE  /\ \A q \in Request : job'[q].by = k =>
                      /\ job'[q].at \in {"sent", "accepted", "recorded"} => waiting[k] = q
                      /\ job'[q].at # "failed"
                 /\ waiting[k] # None => job'[waiting[k]].by = k /\ job'[waiting[k]].at # "unsent"
      BY <2>1, <2>3, <1>1, <1>7, <1>14 DEF IInv, Told
    <3>3. ASSUME NEW k \in smooth'
          PROVE  /\ waiting[k] # None /\ job'[waiting[k]].at \in {"recorded", "linked"}
                      => disk'[k] = waiting[k]
                 /\ disk'[k] # None => job'[disk'[k]].at \in {"recorded", "linked"}
                 /\ kept[k] # None /\ disk'[k] # kept[k] => waiting[k] # None /\ disk'[k] = waiting[k]
      <4>1. CASE k = j
        BY <4>1, <2>1, <2>2, <2>3, <1>7, LinkAssumption
      <4>2. CASE k # j
        BY <4>2, <2>4, <1>7, <1>14, <1>15 DEF IInv, Told
      <4>3. QED
        BY <4>1, <4>2
    <3>4. QED
      BY <3>1, <3>2, <3>3, <1>1 DEF Told
  <2>6. Copies'
    <3>1. ASSUME NEW k \in smooth', NEW t \in Session, MaySave(t)'
          PROVE  book'[t][k] = disk'[k]
      <4>1. CASE t = s
        BY <4>1, <2>2, <1>5
      <4>2. CASE t # s
        <5>1. MaySave(t)
          BY <3>1, <1>12
        <5>2. k # j
          BY <4>2, <5>1, <2>2 DEF Alone
        <5>3. QED
          BY <4>2, <5>1, <5>2, <2>4, <1>5, <1>14 DEF IInv, Copies
      <4>3. QED
        BY <4>1, <4>2
    <3>2. ASSUME NEW k \in smooth', NEW e \in Errand, copy'[e] # None
          PROVE  copy'[e][k] = disk'[k]
      <4>1. k # j
        BY <3>2, <2>2, <1>1 DEF Alone
      <4>2. QED
        BY <4>1, <3>2, <2>4, <1>1, <1>14 DEF IInv, Copies
    <3>3. QED
      BY <3>1, <3>2 DEF Copies
  <2>7. QED
    BY <1>9, <1>10, <1>11, <2>5, <2>6 DEF IInv
<1>20. QED
  BY <1>1, <1>17, <1>18, <1>19

LEMMA CloseAndAnswerKeeps == ASSUME IInv, NEW r \in Request, CloseAndAnswer(r) PROVE IInv'
<1> DEFINE s == job[r].host
<1>1. job[r].at = "recorded" /\ showing' = [showing EXCEPT ![s] = NoPairing]
      /\ Reaches(r, "linked")
      /\ UNCHANGED <<session, book, disk, copy, kept, waiting, spent, wrongs, smooth>>
  BY DEF CloseAndAnswer
<1>2. s \in Session /\ job[r].code # None
  BY <1>1, JobFacts, LinkAssumption DEF IInv, TypeOK
<1>3. /\ job' \in [Request -> Job]
      /\ job'[r].at = "linked" /\ job'[r].by = job[r].by
      /\ job'[r].host = s /\ job'[r].code = job[r].code
      /\ \A q \in Request : q # r => job'[q] = job[q]
  <2>1. "linked" \in Stage
    BY DEF Stage, Reply
  <2>2. QED
    BY <1>1, <2>1, Moves DEF IInv
<1>4. showing' \in [Session -> Pairing]
  BY <1>1 DEF IInv, TypeOK, Pairing
<1>5. /\ showing'[s].code = None
      /\ \A t \in Session : t # s => showing'[t] = showing[t]
  BY <1>1, <1>2 DEF IInv, TypeOK, NoPairing
<1>6. \A t \in Session : showing'[t].code # None => showing'[t] = showing[t]
  BY <1>5
<1>7. TypeOK'
  BY <1>1, <1>3, <1>4 DEF IInv, TypeOK
<1>8. Codes'
  BY <1>1, <1>4, <1>6, FewerShown
<1>9. Used'
  <2>1. \A q \in Request : job[q].at \in {"accepted", "recorded", "linked"} => job[q].code # None
    BY JobFacts, LinkAssumption DEF IInv, TypeOK
  <2>2. \A t \in Session : showing'[t].code # job[r].code
    BY <1>1, <1>2, <1>5 DEF IInv, Used
  <2>3. ASSUME NEW q \in Request, q # r
        PROVE  /\ job'[q].at \in {"accepted", "recorded", "linked"} =>
                    /\ job'[q].code \in spent
                    /\ \A t \in Session : showing'[t].code = job'[q].code => t = job'[q].host
               /\ job'[q].at = "linked" => \A t \in Session : showing'[t].code # job'[q].code
    BY <2>1, <2>3, <1>3, <1>6 DEF IInv, Used
  <2>4. job[r].code \in spent
    BY <1>1 DEF IInv, Used
  <2>5. QED
    BY <1>1, <1>3, <2>2, <2>3, <2>4 DEF Used
<1>10. Told'
  <2>1. ASSUME NEW j \in smooth
        PROVE  /\ waiting[j] # None => waiting[j] \in Request
               /\ disk[j] # None => disk[j] \in Request
    BY DEF IInv, TypeOK, Book, Told
  <2>2. QED
    BY <1>1, <1>3, <2>1 DEF IInv, Told
<1>11. Copies'
  <2>1. \A t \in Session : MaySave(t)' => MaySave(t)
    BY <1>1, <1>3, NoNewWriter DEF Open
  <2>2. QED
    BY <1>1, <2>1, CopiesKept
<1>12. QED
  BY <1>7, <1>8, <1>9, <1>10, <1>11 DEF IInv

(* Commands beside the sessions.                                            *)

LEMMA LoadKeeps == ASSUME IInv, NEW e \in Errand, Load(e) PROVE IInv'
<1>1. copy' = [copy EXCEPT ![e] = disk]
      /\ UNCHANGED <<session, showing, book, disk, job, kept, waiting, spent, wrongs, smooth>>
  BY DEF Load
<1>2. copy'[e] = disk /\ \A d \in Errand : d # e => copy'[d] = copy[d]
  BY <1>1 DEF IInv, TypeOK
<1>3. TypeOK'
  BY <1>1 DEF IInv, TypeOK
<1>4. Codes' /\ Used' /\ Told'
  BY <1>1 DEF IInv, Codes, Used, Told
<1>5. Copies'
  <2>1. ASSUME NEW j \in smooth, NEW d \in Errand, copy'[d] # None
        PROVE  copy'[d][j] = disk[j]
    BY <2>1, <1>2 DEF IInv, Copies
  <2>2. ASSUME NEW j \in smooth, NEW s \in Session, MaySave(s)'
        PROVE  book[s][j] = disk[j]
    BY <2>2, <1>1 DEF IInv, Copies, MaySave, Open
  <2>3. QED
    BY <1>1, <2>1, <2>2 DEF Copies
<1>6. QED
  BY <1>3, <1>4, <1>5 DEF IInv

LEMMA DropKeeps == ASSUME IInv, NEW e \in Errand, Drop(e) PROVE IInv'
<1>1. copy' = [copy EXCEPT ![e] = None]
      /\ UNCHANGED <<session, showing, book, disk, job, kept, waiting, spent, wrongs, smooth>>
  BY DEF Drop
<1>2. copy'[e] = None /\ \A d \in Errand : d # e => copy'[d] = copy[d]
  BY <1>1 DEF IInv, TypeOK
<1>3. TypeOK'
  BY <1>1 DEF IInv, TypeOK
<1>4. Codes' /\ Used' /\ Told'
  BY <1>1 DEF IInv, Codes, Used, Told
<1>5. Copies'
  <2>1. ASSUME NEW j \in smooth, NEW d \in Errand, copy'[d] # None
        PROVE  copy'[d][j] = disk[j]
    BY <2>1, <1>2 DEF IInv, Copies
  <2>2. ASSUME NEW j \in smooth, NEW s \in Session, MaySave(s)'
        PROVE  book[s][j] = disk[j]
    BY <2>2, <1>1 DEF IInv, Copies, MaySave, Open
  <2>3. QED
    BY <1>1, <2>1, <2>2 DEF Copies
<1>6. QED
  BY <1>3, <1>4, <1>5 DEF IInv

\* What a command writes back is what the file has already, for the machines
\* nothing got in the way of.
LEMMA SaveKeeps ==
  ASSUME IInv, NEW e \in Errand, NEW gone \in SUBSET Joiner, Save(e, gone)
  PROVE  IInv'
<1> DEFINE now == [j \in Joiner |-> IF j \in gone THEN None ELSE copy[e][j]]
<1>1. copy[e] # None /\ disk' = now /\ copy' = [copy EXCEPT ![e] = None]
      /\ smooth' = smooth \ gone
      /\ UNCHANGED <<session, showing, book, job, kept, waiting, spent, wrongs>>
  BY DEF Save
<1>2. copy[e] \in Book
  BY <1>1 DEF IInv, TypeOK
<1>3. now \in Book
  BY <1>2 DEF Book
<1>4. copy'[e] = None /\ \A d \in Errand : d # e => copy'[d] = copy[d]
  BY <1>1 DEF IInv, TypeOK
<1>5. TypeOK'
  BY <1>1, <1>3 DEF IInv, TypeOK
<1>6. Codes' /\ Used'
  BY <1>1 DEF IInv, Codes, Used
<1>7. \A j \in smooth' : j \in smooth /\ j \in Joiner /\ disk'[j] = disk[j]
  BY <1>1 DEF IInv, TypeOK, Copies
<1>8. disk' \in Book
  BY <1>1, <1>3
<1>9. Told'
  BY <1>1, <1>7, <1>8 DEF IInv, Told
<1>10. Copies'
  <2>1. ASSUME NEW j \in smooth', NEW d \in Errand, copy'[d] # None
        PROVE  copy'[d][j] = disk'[j]
    BY <2>1, <1>4, <1>7 DEF IInv, Copies
  <2>2. ASSUME NEW j \in smooth', NEW s \in Session, MaySave(s)'
        PROVE  book'[s][j] = disk'[j]
    BY <2>2, <1>1, <1>7 DEF IInv, Copies, MaySave, Open
  <2>3. QED
    BY <2>1, <2>2 DEF Copies
<1>11. QED
  BY <1>5, <1>6, <1>9, <1>10 DEF IInv

-----------------------------------------------------------------------------
(* A machine that joins.                                                    *)

LEMMA JoinKeeps == ASSUME IInv, NEW j \in Joiner, NEW r \in Request, Join(j, r) PROVE IInv'
<1>1. PICK s \in Session, c \in Code :
        job' = [job EXCEPT ![r] = [at |-> "sent", by |-> j, host |-> s, code |-> c]]
  BY DEF Join
<1>2. waiting' = [waiting EXCEPT ![j] = r] /\ waiting[j] = None /\ job[r] = Unsent
      /\ UNCHANGED <<session, showing, book, disk, copy, kept, spent, wrongs, smooth>>
  BY DEF Join
<1>3. [at |-> "sent", by |-> j, host |-> s, code |-> c] \in Job
  BY DEF Job, Stage
<1>4. job' \in [Request -> Job] /\ job'[r].at = "sent" /\ job'[r].by = j
      /\ \A q \in Request : q # r => job'[q] = job[q]
  BY <1>1, <1>3 DEF IInv, TypeOK
<1>5. waiting' \in Book /\ waiting'[j] = r /\ \A k \in Joiner : k # j => waiting'[k] = waiting[k]
  BY <1>2 DEF IInv, TypeOK, Book
<1>6. TypeOK'
  BY <1>2, <1>4, <1>5 DEF IInv, TypeOK
<1>7. Codes' /\ Used'
  BY <1>2, <1>4 DEF IInv, Codes, Used
<1>8. job[r].at = "unsent"
  BY <1>2 DEF Unsent
<1>9. ASSUME NEW k \in smooth
      PROVE  /\ k \in Joiner
             /\ waiting[k] # None => waiting[k] \in Request /\ waiting[k] # r
             /\ disk[k] # None => disk[k] \in Request /\ disk[k] # r
  BY <1>8 DEF IInv, TypeOK, Book, Told
<1>10. \A q \in Request : job[q].by = j => job[q].at \notin {"sent", "accepted", "recorded"} \/ j \notin smooth
  BY <1>2, LinkAssumption DEF IInv, Told
<1>11. Told'
  <2>1. ASSUME NEW k \in smooth, NEW q \in Request, job'[q].by = k
        PROVE  /\ job'[q].at \in {"sent", "accepted", "recorded"} => waiting'[k] = q
               /\ job'[q].at # "failed"
    BY <2>1, <1>4, <1>5, <1>9, <1>10 DEF IInv, Told
  <2>2. ASSUME NEW k \in smooth
        PROVE  /\ waiting'[k] # None => job'[waiting'[k]].by = k /\ job'[waiting'[k]].at # "unsent"
               /\ waiting'[k] # None /\ job'[waiting'[k]].at \in {"recorded", "linked"}
                    => disk[k] = waiting'[k]
               /\ disk[k] # None => job'[disk[k]].at \in {"recorded", "linked"}
               /\ kept[k] # None /\ disk[k] # kept[k] => waiting'[k] # None /\ disk[k] = waiting'[k]
    <3>1. CASE k = j
      BY <3>1, <1>2, <1>4, <1>5, <1>9 DEF IInv, Told
    <3>2. CASE k # j
      BY <3>2, <1>4, <1>5, <1>9 DEF IInv, Told
    <3>3. QED
      BY <3>1, <3>2
  <2>3. QED
    BY <1>2, <2>1, <2>2 DEF IInv, Told
<1>12. Copies'
  <2>1. \A s1 \in Session : MaySave(s1)' => MaySave(s1)
    BY <1>2, <1>4, NoNewWriter DEF Open
  <2>2. QED
    BY <1>2, <2>1, CopiesKept
<1>13. QED
  BY <1>6, <1>7, <1>11, <1>12 DEF IInv

\* A machine that stops waiting, having kept what it was promised or not.
LEMMA WaitsNoMore ==
  ASSUME IInv, NEW j \in Joiner, waiting' = [waiting EXCEPT ![j] = None],
         kept' \in Book, \A k \in Joiner : k # j => kept'[k] = kept[k],
         smooth' \subseteq smooth,
         j \in smooth' => /\ \A r \in Request : job[r].by = j =>
                               job[r].at \notin {"sent", "accepted", "recorded"}
                          /\ kept'[j] # None => disk[j] = kept'[j],
         UNCHANGED <<session, showing, book, disk, copy, job, spent, wrongs>>
  PROVE  IInv'
<1>1. waiting' \in Book /\ waiting'[j] = None
      /\ \A k \in Joiner : k # j => waiting'[k] = waiting[k]
  BY DEF IInv, TypeOK, Book
<1>2. TypeOK'
  BY <1>1 DEF IInv, TypeOK
<1>3. Codes' /\ Used'
  BY DEF IInv, Codes, Used
<1>4. \A k \in smooth' : k \in smooth /\ k \in Joiner
  BY DEF IInv, TypeOK
<1>5. Told'
  BY <1>1, <1>4 DEF IInv, Told
<1>6. Copies'
  BY CopiesKept DEF MaySave, Open
<1>7. QED
  BY <1>2, <1>3, <1>5, <1>6 DEF IInv

LEMMA JoinedKeeps == ASSUME IInv, NEW j \in Joiner, Joined(j) PROVE IInv'
<1> DEFINE r == waiting[j]
<1>1. r # None /\ job[r].at = "linked" /\ kept' = [kept EXCEPT ![j] = r]
      /\ waiting' = [waiting EXCEPT ![j] = None]
      /\ UNCHANGED <<session, showing, book, disk, copy, job, spent, wrongs, smooth>>
  BY DEF Joined
<1>2. r \in Request
  BY <1>1 DEF IInv, TypeOK, Book
<1>3. kept' \in Book /\ kept'[j] = r /\ \A k \in Joiner : k # j => kept'[k] = kept[k]
  BY <1>1, <1>2 DEF IInv, TypeOK, Book
<1>4. j \in smooth => /\ \A q \in Request : job[q].by = j =>
                           job[q].at \notin {"sent", "accepted", "recorded"}
                      /\ disk[j] = r
  BY <1>1, <1>2 DEF IInv, Told
<1>5. QED
  BY <1>1, <1>3, <1>4, WaitsNoMore

LEMMA TurnedDownKeeps == ASSUME IInv, NEW j \in Joiner, TurnedDown(j) PROVE IInv'
<1> DEFINE r == waiting[j]
<1>1. r # None /\ job[r].at \in {"refused", "failed"}
      /\ waiting' = [waiting EXCEPT ![j] = None]
      /\ UNCHANGED <<session, showing, book, disk, copy, job, kept, spent, wrongs, smooth>>
  BY DEF TurnedDown
<1>2. r \in Request /\ kept \in Book
  BY <1>1 DEF IInv, TypeOK, Book
<1>3. j \in smooth => \A q \in Request : job[q].by = j =>
                        job[q].at \notin {"sent", "accepted", "recorded"}
  BY <1>1, <1>2 DEF IInv, Told
<1>4. j \in smooth /\ kept[j] # None => disk[j] = kept[j]
  BY <1>1, <1>2 DEF IInv, TypeOK, Book, Told
<1>5. QED
  BY <1>1, <1>2, <1>3, <1>4, WaitsNoMore

LEMMA GiveUpKeeps == ASSUME IInv, NEW j \in Joiner, GiveUp(j) PROVE IInv'
<1>1. waiting' = [waiting EXCEPT ![j] = None] /\ smooth' = smooth \ {j}
      /\ UNCHANGED <<session, showing, book, disk, copy, job, kept, spent, wrongs>>
  BY DEF GiveUp
<1>2. kept \in Book /\ j \notin smooth'
  BY <1>1 DEF IInv, TypeOK
<1>3. QED
  BY <1>1, <1>2, WaitsNoMore

LEMMA CutAtJoinerKeeps == ASSUME IInv, NEW j \in Joiner, CutAtJoiner(j) PROVE IInv'
<1>1. kept' = [kept EXCEPT ![j] = None]
      /\ UNCHANGED <<session, showing, book, disk, copy, job, waiting, spent, wrongs, smooth>>
  BY DEF CutAtJoiner
<1>2. kept' \in Book /\ kept'[j] = None /\ \A k \in Joiner : k # j => kept'[k] = kept[k]
  BY <1>1 DEF IInv, TypeOK, Book
<1>3. TypeOK'
  BY <1>1, <1>2 DEF IInv, TypeOK
<1>4. Codes' /\ Used' /\ Copies'
  BY <1>1 DEF IInv, Codes, Used, Copies, MaySave, Open
<1>5. \A k \in smooth : k \in Joiner
  BY DEF IInv, TypeOK
<1>6. Told'
  BY <1>1, <1>2, <1>5 DEF IInv, Told
<1>7. QED
  BY <1>3, <1>4, <1>6 DEF IInv

-----------------------------------------------------------------------------
(* What follows of it.                                                      *)

LEMMA InitHolds == Init => IInv
<1> SUFFICES ASSUME Init PROVE IInv
  OBVIOUS
<1> USE LinkAssumption DEF Init
<1>1. TypeOK
  BY DEF TypeOK, Pairing, Book, Job
<1>2. Codes
  BY DEF Codes, NoPairing
<1>3. Used
  BY DEF Used, Unsent
<1>4. Told
  BY DEF Told, Unsent, Book
<1>5. Copies
  BY DEF Copies
<1>6. QED
  BY <1>1, <1>2, <1>3, <1>4, <1>5 DEF IInv

LEMMA NextKeeps == ASSUME IInv, Next PROVE IInv'
<1>1. ASSUME NEW s \in Session, Lends(s) PROVE IInv'
  BY <1>1, HostStartKeeps, ReopenKeeps, HostStopKeeps, GrowsOldKeeps DEF Lends
<1>2. ASSUME NEW r \in Request, Handles(r) PROVE IInv'
  BY <1>2, RefuseKeeps, WrongCodeKeeps, RightCodeKeeps, RecordKeeps, CloseAndAnswerKeeps
     DEF Handles
<1>3. ASSUME NEW j \in Joiner, Borrows(j) PROVE IInv'
  BY <1>3, JoinKeeps, JoinedKeeps, TurnedDownKeeps, GiveUpKeeps, CutAtJoinerKeeps
     DEF Borrows
<1>4. ASSUME NEW e \in Errand, Runs(e) PROVE IInv'
  BY <1>4, LoadKeeps, DropKeeps, SaveKeeps DEF Runs
<1>5. QED
  BY <1>1, <1>2, <1>3, <1>4 DEF Next

\* The strengthening is inductive: the core of every proof below
\* (server.rs:169-248 and what runs beside it).
THEOREM Inductive == Spec => []IInv
<1>1. IInv /\ [Next]_vars => IInv'
  <2> SUFFICES ASSUME IInv, [Next]_vars PROVE IInv'
    OBVIOUS
  <2>1. CASE UNCHANGED vars
    <3>1. TypeOK' /\ Codes' /\ Used'
      BY <2>1 DEF IInv, TypeOK, Codes, Used, vars
    <3>2. Told' /\ Copies'
      BY <2>1 DEF IInv, Told, Copies, MaySave, Open, vars
    <3>3. QED
      BY <3>1, <3>2 DEF IInv
  <2>2. CASE Next
    BY <2>2, NextKeeps
  <2>3. QED
    BY <2>1, <2>2
<1>2. QED
  BY InitHolds, <1>1, PTL DEF Spec

\* Every variable keeps its type (server.rs:53-86, peer.rs:86-125).
THEOREM TypeCorrect == Spec => []TypeOK
<1>1. IInv => TypeOK
  BY DEF IInv
<1>2. QED
  BY Inductive, <1>1, PTL

\* A code is answered wrong at most MaxWrong times, whoever guesses and
\* however often lending is started again (server.rs:60-62, 190-204).
THEOREM GuessesBounded == Spec => []GuessesAreBounded
<1>1. IInv => GuessesAreBounded
  BY LinkAssumption DEF IInv, TypeOK, Codes, GuessesAreBounded
<1>2. QED
  BY Inductive, <1>1, PTL

\* A machine that was told it is linked, and was recorded while nobody else
\* had a copy of the list in hand, is honoured now and after a restart, with
\* any number of sessions and commands over the file (server.rs:206-234,
\* linking.rs:222-243, client.rs:140-152).
THEOREM LinkedHonoured == Spec => []LinkedIsHonoured
<1>1. IInv => LinkedIsHonoured
    BY DEF IInv, Told, Copies, MaySave, LinkedIsHonoured
<1>2. QED
  BY Inductive, <1>1, PTL

\* A code that has linked a machine, and said so, lets nobody else in
\* (server.rs:232-234).
THEOREM ClosedOnceLinked == Spec => ClosedAfterLinking
<1> DEFINE A == \A r, q \in Request :
                  job[q].at = "linked" /\ job[r].at = "sent" /\ job'[r].at = "accepted"
                    => job[r].code # job[q].code
<1>1. IInv /\ [Next]_vars => [A]_vars
  <2> SUFFICES ASSUME IInv, Next, NEW r \in Request, NEW q \in Request,
                      job[q].at = "linked", job[r].at = "sent", job'[r].at = "accepted"
               PROVE  job[r].code # job[q].code
    OBVIOUS
  <2>1. job \in [Request -> Job]
    BY DEF IInv, TypeOK
  <2>2. job' # job
    OBVIOUS
  <2>3. ASSUME NEW x \in Request, NEW stage \in Stage, job[x].at # "unsent", Reaches(x, stage),
               stage # "accepted"
        PROVE  FALSE
    BY <2>3, Moves DEF IInv
  <2>4. ASSUME NEW x \in Request, RightCode(x)
        PROVE  x = r
    <3>1. "accepted" \in Stage /\ job[x].at = "sent" /\ Reaches(x, "accepted")
      BY <2>4 DEF Stage, RightCode
    <3>2. QED
      BY <3>1, Moves DEF IInv
  <2>5. RightCode(r)
    <3>1. ASSUME NEW s \in Session, Lends(s) PROVE FALSE
      BY <3>1, <2>2 DEF Lends, HostStart, Reopen, HostStop, GrowsOld
    <3>2. ASSUME NEW j \in Joiner, Borrows(j) PROVE FALSE
      <4>1. ASSUME NEW x \in Request, Join(j, x) PROVE FALSE
        <5>1. PICK s \in Session, c \in Code :
                job' = [job EXCEPT ![x] = [at |-> "sent", by |-> j, host |-> s, code |-> c]]
          BY <4>1 DEF Join
        <5>2. QED
          BY <2>1, <5>1
      <4>2. QED
        BY <3>2, <4>1, <2>2 DEF Borrows, Joined, TurnedDown, GiveUp, CutAtJoiner
    <3>3. ASSUME NEW x \in Request, Handles(x) PROVE RightCode(x)
      <4>1. {"refused", "recorded", "failed", "linked"} \subseteq Stage
        BY DEF Stage, Reply
      <4>2. QED
        BY <3>3, <4>1, <2>3 DEF Handles, Refuse, WrongCode, Record, CloseAndAnswer
    <3>4. ASSUME NEW e \in Errand, Runs(e) PROVE FALSE
      BY <3>4, <2>2 DEF Runs, Load, Save, Drop
    <3>5. QED
      BY <3>1, <3>2, <3>3, <3>4, <2>4 DEF Next
  <2>6. job[r].code = showing[job[r].host].code /\ job[r].host \in Session
    BY <2>1, <2>5, JobFacts DEF RightCode
  <2>7. QED
    BY <2>6 DEF IInv, Used
<1>2. QED
  BY Inductive, <1>1, PTL DEF Spec, ClosedAfterLinking
=============================================================================
