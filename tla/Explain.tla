------------------------------ MODULE Explain -------------------------------
(***************************************************************************)
(* Explaining what a scan found: which model is asked                      *)
(* (crates/ork-ai/src/router.rs), which runbook entry answers a finding    *)
(* (runbook.rs) and what a model's reply may add to that (analysis.rs).    *)
(* Operators only: explain_report keeps no state of its own.               *)
(***************************************************************************)
EXTENDS Integers, FiniteSets, Sequences, SequencesExt

None == "none"

-----------------------------------------------------------------------------
(* Routing.  A tier is what the settings and the world make of it.         *)

Tier == <<"remote", "local", "cloud">>
Mode == {"auto", "remote", "local", "cloud", "off"}

\* a server: nothing answers, it refuses the request, or the models it lists
Server == {"silent", "refuses"} \cup {"empty", "embeddings only", "models"}
Config ==
  [mode : Mode, named : {"nothing", "offered", "not offered"},
   remote : {"disabled", "no address"} \cup Server,
   local : {"disabled", "no address", "addresses"}, locals : Server \X Server,
   cloud : {"disabled", "no key", "other provider", "ready"}]

Wanted(c, tier) == c.mode \in {"auto", tier}

\* choose_model: a configured name wins where the server offers it or lists
\* nothing; else the first that can answer, else the first; None when neither
ChooseModel(named, server) ==
  IF named = "offered" /\ server \in {"embeddings only", "models"} THEN "as configured"
  ELSE IF named # "nothing" /\ server = "empty" THEN "as configured"
  ELSE IF server = "models" THEN "first that answers"
  ELSE IF server = "embeddings only" THEN "first"
  ELSE None

\* one address: list_models, then choose_model
Tried(c, server) ==
  IF server \in {"silent", "refuses"} \/ ChooseModel(c.named, server) = None
  THEN "unreachable" ELSE "selected"

TryRemote(c) ==
  CASE c.remote = "disabled" -> "disabled"
    [] c.remote = "no address" -> "not configured"
    [] OTHER -> Tried(c, c.remote)

TryLocal(c) ==
  CASE c.local = "disabled" -> "disabled"
    [] c.local = "no address" -> "not configured"
    [] OTHER -> IF \E i \in 1 .. 2 : Tried(c, c.locals[i]) = "selected"
                THEN "selected" ELSE "unreachable"

TryCloud(c) ==
  CASE c.cloud = "disabled" -> "disabled"
    [] c.cloud = "no key" -> "missing credential"
    [] c.cloud = "other provider" -> "not configured"
    [] OTHER -> "selected"

Attempt(c, tier) ==
  IF ~ Wanted(c, tier) THEN "pinned elsewhere"
  ELSE CASE tier = "remote" -> TryRemote(c) [] tier = "local" -> TryLocal(c)
         [] tier = "cloud" -> TryCloud(c)

ResolveNearestLast(c) ==
  LET chosen == {i \in DOMAIN Tier : Attempt(c, Tier[i]) = "selected"}
  IN  [tier |-> IF chosen = {} THEN None ELSE Tier[CHOOSE i \in chosen : \A j \in chosen : i >= j],
       attempts |-> [i \in DOMAIN Tier |-> Attempt(c, Tier[i])]]

\* resolve: in order, up to the first that is selected
Resolve(c) ==
  LET chosen == {i \in DOMAIN Tier : Attempt(c, Tier[i]) = "selected"}
      last == IF chosen = {} THEN Len(Tier) ELSE CHOOSE i \in chosen : \A j \in chosen : i <= j
  IN  [tier |-> IF chosen = {} THEN None ELSE Tier[last],
       attempts |-> [i \in 1 .. last |-> Attempt(c, Tier[i])]]

-----------------------------------------------------------------------------
(* Runbooks.  A finding is [id, subject, severity, triage, says]; an entry  *)
(* is [id, answers, keywords, action], its action "none" where its fixes    *)
(* are advice.                                                             *)

Matches(entry, finding) ==
  finding.id \in entry.answers /\ (entry.keywords = {} \/ entry.keywords \cap finding.says # {})

\* the person's entries replace those of the same id and are added otherwise
Merge(library, extra) ==
  LET replaced == [i \in DOMAIN library |->
                     IF \E e \in ToSet(extra) : e.id = library[i].id
                     THEN CHOOSE e \in ToSet(extra) : e.id = library[i].id ELSE library[i]]
      ids == {e.id : e \in ToSet(library)}
  IN  replaced \o SelectSeq(extra, LAMBDA e : e.id \notin ids)

Hits(library, finding) == {i \in DOMAIN library : Matches(library[i], finding)}

Better(library, i, j) ==
  LET a == Cardinality(library[i].keywords)
      b == Cardinality(library[j].keywords)
  IN  a > b \/ (a = b /\ i >= j)

\* max_by_key: the most keywords, the last of equals; where there is a hit
Lookup(library, finding) ==
  LET hits == Hits(library, finding)
  IN  library[CHOOSE i \in hits : \A j \in hits : Better(library, i, j)]

-----------------------------------------------------------------------------
(* The analysis.  A reply is [usable, says]: whether it is JSON at all, and *)
(* the sequence of [id, subject, blank, action] it says of the findings.    *)

FromRunbook(library, f) ==
  LET found == Hits(library, f) # {}
  IN  [id |-> f.id, subject |-> f.subject,
       source |-> IF found THEN "runbook" ELSE "unexplained",
       entry |-> IF found THEN Lookup(library, f).id ELSE None,
       action |-> IF found THEN Lookup(library, f).action ELSE None]

\* the item an answer is about: the first of that id, and of that subject
\* where it gives one
About(items, answer) ==
  {i \in DOMAIN items :
     /\ items[i].id = answer.id /\ (answer.subject \in {None, items[i].subject})
     /\ \A j \in 1 .. i - 1 :
          ~ (items[j].id = answer.id /\ (answer.subject \in {None, items[j].subject}))}

FoldWithAction(items, answer) ==
  [i \in DOMAIN items |->
     IF i \in About(items, answer) /\ items[i].source # "runbook" /\ ~ answer.blank
     THEN [items[i] EXCEPT !.source = "model", !.action = answer.action] ELSE items[i]]

\* apply_model_analysis, one answer: no runbook answer is replaced, and a
\* model's fixes carry no action
FoldAnswer(items, answer) ==
  [i \in DOMAIN items |->
     IF i \in About(items, answer) /\ items[i].source # "runbook" /\ ~ answer.blank
     THEN [items[i] EXCEPT !.source = "model", !.action = None] ELSE items[i]]

\* the answers in the order they are given
FoldAnswers(items, says) ==
  LET after[n \in 0 .. Len(says)] ==
        IF n = 0 THEN items ELSE FoldAnswer(after[n - 1], says[n])
  IN  after

Analyse(library, findings, routing, reply) ==
  LET items == [i \in DOMAIN findings |-> FromRunbook(library, findings[i])]
  IN  IF routing.tier = None \/ findings = <<>> \/ ~ reply.usable THEN items
      ELSE FoldAnswers(items, reply.says)[Len(reply.says)]
=============================================================================
