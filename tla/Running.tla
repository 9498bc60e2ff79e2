------------------------------ MODULE Running ------------------------------
(* How a CritterScript that was read is run (crates/ork-critter/src/run.rs, *)
(* value.rs, library.rs), one step after another.  A run has on a stack     *)
(* what is still to do: where the code makes a call and goes on with its    *)
(* answer, the call is put above what goes on.                              *)
EXTENDS Integers, SequencesExt

CONSTANTS
  MaxSteps, MaxOutput, MaxLoop, MaxCallDepth,        \* the budgets of run.rs
  Registry        \* the commands the host gives the language: guest_safe, min_args

----------------------------------------------------------------------------
(* Values.  A text is a sequence of pieces: a word, or the digits of a      *)
(* number as "#" and the number, which a text of nothing else reads as.     *)

Value(k, n, t, items) == [k |-> k, n |-> n, t |-> t, items |-> items]
Nothing == Value("nothing", 0, <<>>, <<>>)
NoAnswer == Value("no answer", 0, <<>>, <<>>)          \* not a value: None
Number(n) == Value("num", n, <<"#", n>>, <<>>)
Yes(b) == Value("yes", IF b THEN 1 ELSE 0, <<IF b THEN "true" ELSE "false">>, <<>>)
Digits(t) == Len(t) = 2 /\ t[1] = "#"
Text(t) == Value("text", IF Digits(t) THEN t[2] ELSE 0, t, <<>>)
List(items) ==
  Value("list", 0, FlattenSeq([i \in DOMAIN items |->
                                 IF i = 1 THEN items[i].t ELSE <<", ">> \o items[i].t]), items)

Show(v) == Text(v.t)

Truthy(v) ==
  CASE v.k \in {"num", "yes"} -> v.n # 0
    [] v.k = "text" -> v.t \notin {<<>>, <<"false">>, <<"no">>, <<"off">>}
    [] v.k = "list" -> v.items # <<>>
    [] OTHER -> FALSE

IsNumeric(v) == v.k \in {"num", "yes"} \/ (v.k = "text" /\ Digits(v.t))
ReadsAsNumber(v) == IsNumeric(v) /\ v.k # "yes"

SameAs(a, b) ==
  IF a.k = b.k THEN a = b
  ELSE IF "num" \in {a.k, b.k} /\ ReadsAsNumber(a) /\ ReadsAsNumber(b) THEN a.n = b.n
  ELSE Show(a) = Show(b)

AsList(v) ==
  CASE v.k = "list" -> v.items
    [] v \in {Nothing, Text(<<>>)} -> <<>>
    [] OTHER -> <<v>>

----------------------------------------------------------------------------
(* The library: commands that shape a value and reach nothing.  An answer   *)
(* is the set of the values it may be: none when the command refuses.       *)

Shaping ==
  [list |-> 0, count |-> 1, item |-> 2, add |-> 2, range |-> 1, reverse |-> 1, unique |-> 1,
   first |-> 1, last |-> 1, slice |-> 2, without |-> 2, has |-> 2, sum |-> 1, kind |-> 1]

Arg(args, i) == IF i \in DOMAIN args THEN args[i] ELSE Nothing

Item(items, asked) ==
  LET index == IF asked < 0 THEN Len(items) + asked ELSE asked - 1 IN
  IF index \in 0..(Len(items) - 1) THEN {items[index + 1]} ELSE {}

Counting(args) ==
  LET from == IF Len(args) > 1 THEN args[1].n ELSE 1
      to == IF Len(args) > 1 THEN args[2].n ELSE args[1].n
  IN  IF to - from + 1 > MaxLoop THEN {}
      ELSE {List([i \in 1..(to - from + 1) |-> Number(from + i - 1)])}

Slice(items, args) ==
  LET length == Len(items)
      fromEnd(n) == IF n < 0 THEN n + length + 1 ELSE n
      from == fromEnd(args[2].n)
      to == IF Len(args) > 2 THEN fromEnd(args[3].n) ELSE length
  IN  SubSeq(items, IF from < 1 THEN 1 ELSE from,
             IF to < 0 THEN 0 ELSE IF to > length THEN length ELSE to)

Unique(items) ==
  SelectSeq([i \in DOMAIN items |-> <<i, items[i]>>],
            LAMBDA p : \A j \in 1..(p[1] - 1) : Show(items[j]) # Show(p[2]))

Has(haystack, needle) ==
  IF haystack.k = "list" THEN \E i \in DOMAIN haystack.items : SameAs(haystack.items[i], needle)
  ELSE Show(haystack) = Show(needle) \/ Show(needle) = Text(<<>>)

Numbers(args, from) == \A i \in from..Len(args) : IsNumeric(args[i])

Shape(name, args) ==
  LET items == AsList(Arg(args, 1))
      dropping == {Show(args[i]) : i \in 2..Len(args)}
      some(n) == IF n < 0 THEN 0 ELSE IF n > Len(items) THEN Len(items) ELSE n
  IN
  CASE name = "list" -> {List(args)}
    [] name = "count" -> {Number(IF args[1].k = "list" THEN Len(items) ELSE 1)}
    [] name = "item" -> IF Numbers(args, 2) THEN Item(items, args[2].n) ELSE {}
    [] name = "add" -> {List(items \o Tail(args))}
    [] name = "range" -> IF Numbers(args, 1) THEN Counting(args) ELSE {}
    [] name = "reverse" -> {IF args[1].k = "list" THEN List(Reverse(items)) ELSE Show(args[1])}
    [] name = "unique" -> {List([i \in DOMAIN Unique(items) |-> Unique(items)[i][2]])}
    [] name = "first" /\ Len(args) = 1 -> {IF items = <<>> THEN Nothing ELSE Head(items)}
    [] name = "last" /\ Len(args) = 1 -> {IF items = <<>> THEN Nothing ELSE Last(items)}
    [] name = "first" /\ Len(args) > 1 ->
         IF Numbers(args, 2) THEN {List(SubSeq(items, 1, some(args[2].n)))} ELSE {}
    [] name = "last" /\ Len(args) > 1 ->
         IF Numbers(args, 2)
         THEN {List(SubSeq(items, Len(items) - some(args[2].n) + 1, Len(items)))} ELSE {}
    [] name = "slice" -> IF Numbers(args, 2) THEN {List(Slice(items, args))} ELSE {}
    [] name = "without" -> {List(SelectSeq(items, LAMBDA v : Show(v) \notin dropping))}
    [] name = "has" -> {Yes(Has(args[1], args[2]))}
    [] name = "sum" ->
         IF Numbers(items, 1) THEN {Number(FoldLeft(LAMBDA t, v : t + v.n, 0, items))} ELSE {}
    [] name = "kind" -> {Text(<<args[1].k>>)}
    [] OTHER -> {}

----------------------------------------------------------------------------
(* The run: budgets spent, what was said and done, and where it stands.     *)

ToRun(body) == [do |-> "block", body |-> body]
ToEval(e) == [do |-> "eval", e |-> e]

NoVars == <<>>
Start(body) ==
  [steps |-> 0, said |-> <<>>, did |-> <<>>, functions |-> <<>>, depth |-> 0,
   vars |-> NoVars, signal |-> "carry on", returned |-> NoAnswer, fault |-> "",
   val |-> Nothing, vals |-> <<>>, todo |-> <<ToRun(body), [do |-> "end"]>>]

Over(R) == R.fault # "" \/ R.todo = <<>>

Fault(R, why) == [R EXCEPT !.fault = why]
Do(R, first) == [R EXCEPT !.todo = first \o @]
Give(R, v) == [R EXCEPT !.val = v]
Put(vars, name, v) == (name :> v) @@ vars
Set(R, name, v) == [R EXCEPT !.vars = Put(@, name, v)]
Signalled(R, signal) == [R EXCEPT !.signal = signal]

SpendAStep(R) ==
  IF R.steps >= MaxSteps THEN Fault(R, "too many steps") ELSE [R EXCEPT !.steps = @ + 1]

Say(R, v) ==
  IF Len(R.said) >= MaxOutput THEN Fault(R, "too many lines") ELSE [R EXCEPT !.said = Append(@, v.t)]

PrintIfThereIsOne(R) == IF R.val \in {Nothing, NoAnswer, Text(<<>>)} THEN R ELSE Say(R, R.val)

\* A command that has nothing to say answers a bracket with nothing.
AnswerOf(R) == IF R.val = NoAnswer THEN Nothing ELSE R.val

\* A name that is not set becomes nothing inside a quoted text.
Interpolate(R, name) == IF name \in DOMAIN R.vars THEN Show(R.vars[name]) ELSE Text(<<>>)

----------------------------------------------------------------------------
(* Running a named thing: the one path the statement, the step of a         *)
(* pipeline and the bracket share.                                          *)

\* The arguments, left to right, after those it was given, kept until the
\* command takes them.
Keep(R) == [R EXCEPT !.vals = Append(@, R.val)]
Invoke(name, args, given) ==
  FlattenSeq([i \in DOMAIN args |-> <<ToEval(args[i]), [do |-> "keep"]>>])
    \o <<[do |-> "call", name |-> name, count |-> given + Len(args)]>>

\* (LookingOnlyAtTop is a mutant: a function's body is not asked about.)
LookingOnlyAtTop(R, name, guest) == guest /\ R.depth = 0 /\ ~Registry[name].guest_safe
LookingOnly(R, name, guest) == guest /\ ~Registry[name].guest_safe

\* A command of the host: what it did is on record whether or not it says so.
CallHost(R, name, args, guest) ==
  LET ran == [R EXCEPT !.did = Append(@, name), !.val = NoAnswer] IN
  IF LookingOnly(R, name, guest) THEN Fault(R, "looking only")
  ELSE IF Len(args) < Registry[name].min_args THEN Fault(R, "needs arguments")
  ELSE IF Registry[name].says THEN Say(ran, List(args)) ELSE ran

Shaped(R, name, args) ==
  LET answers == Shape(name, args) IN
  IF Len(args) < Shaping[name] THEN Fault(R, "needs arguments")
  ELSE IF answers = {} THEN Fault(R, "refused") ELSE Give(R, CHOOSE v \in answers : TRUE)

\* A function has variables of its own, and gives the caller its own back.
OwnVars(defined, args) ==
  Put(FoldLeft(LAMBDA vars, i : Put(vars, defined.params[i], Arg(args, i)), NoVars,
               [i \in DOMAIN defined.params |-> i]),
      "args", List(args))

CallDefined(R, name, args) ==
  IF R.depth >= MaxCallDepth THEN Fault(R, "nested calls")
  ELSE Do([R EXCEPT !.vars = OwnVars(R.functions[name], args), !.depth = @ + 1,
                    !.returned = NoAnswer],
          <<ToRun(R.functions[name].body),
            [do |-> "back", vars |-> R.vars, returned |-> R.returned]>>)

BackTo(R, caller) ==
  LET back == [R EXCEPT !.vars = caller.vars, !.returned = caller.returned, !.depth = @ - 1,
                        !.signal = "carry on"]
  IN  IF R.signal \in {"break", "continue"} THEN Fault(back, "outside a loop")
      ELSE Give(back, IF R.returned = NoAnswer THEN Nothing ELSE R.returned)

Call(R, f, guest) ==
  LET kept == Len(R.vals) - f.count
      args == SubSeq(R.vals, kept + 1, Len(R.vals))
      r == [R EXCEPT !.vals = SubSeq(@, 1, kept)]
  IN  IF f.name \in DOMAIN Registry THEN CallHost(r, f.name, args, guest)
      ELSE IF f.name \in DOMAIN Shaping THEN Shaped(r, f.name, args)
      ELSE IF f.name \in DOMAIN R.functions THEN CallDefined(r, f.name, args)
      ELSE Fault(r, "no command")

----------------------------------------------------------------------------
(* Expressions.                                                             *)

Arithmetic(R, op, a, b) ==
  \* Whole numbers only: a script of an instance divides without a rest.
  LET word(v) == v.k = "text" /\ ~Digits(v.t) IN
  CASE op = "==" -> Give(R, Yes(SameAs(a, b)))
    [] op = "!=" -> Give(R, Yes(~SameAs(a, b)))
    [] op = "+" /\ (word(a) \/ word(b)) -> Give(R, Text(a.t \o b.t))
    [] op \notin {"==", "!="} /\ ~(op = "+" /\ (word(a) \/ word(b))) ->
         CASE ~(IsNumeric(a) /\ IsNumeric(b)) -> Fault(R, "not a number")
           [] IsNumeric(a) /\ IsNumeric(b) /\ op \in {"/", "%"} /\ b.n = 0 -> Fault(R, "divided by zero")
           [] OTHER ->
                Give(R, CASE op = "+" -> Number(a.n + b.n)
                          [] op = "-" -> Number(a.n - b.n)
                          [] op = "*" -> Number(a.n * b.n)
                          [] op = "<" -> Yes(a.n < b.n)
                          [] op = ">" -> Yes(a.n > b.n)
                          [] op = "/" -> Number(a.n \div b.n)
                          [] OTHER -> Number(a.n % b.n))

Eval(R, e) ==
  CASE e.e = "num" -> Give(R, Number(e.num))
    [] e.e = "bool" -> Give(R, Yes(e.yes))
    [] e.e = "word" -> Give(R, Text(<<e.text>>))
    [] e.e = "str" -> Give(R, Interpolate(R, e.name))
    [] e.e = "var" ->
         IF e.name \in DOMAIN R.vars THEN Give(R, R.vars[e.name]) ELSE Fault(R, "not set")
    [] e.e = "neg" -> Do(R, <<ToEval(e.of), [do |-> "neg", sign |-> e.sign]>>)
    [] e.e = "not" -> Do(R, <<ToEval(e.of), [do |-> "not"]>>)
    [] e.e = "call" -> Do(R, Append(Invoke(e.name, e.args, 0), [do |-> "answer"]))
    [] OTHER -> Do(R, <<ToEval(e.left), [do |-> "right", op |-> e.op, right |-> e.right]>>)

Negated(R, sign) ==
  IF ~IsNumeric(R.val) THEN Fault(R, "not a number")
  ELSE Give(R, Number(IF sign = "-" THEN -R.val.n ELSE R.val.n))

\* `and` and `or` look at the right side only when the left does not settle it.
Right(R, f) ==
  IF f.op \in {"&&", "||"} /\ Truthy(R.val) = (f.op = "||")
  THEN Give(R, Yes(f.op = "||"))
  ELSE Do(R, <<ToEval(f.right), [do |-> "join", op |-> f.op, left |-> R.val]>>)

Join(R, f) ==
  IF f.op \in {"&&", "||"} THEN Give(R, Yes(Truthy(R.val))) ELSE Arithmetic(R, f.op, f.left, R.val)

----------------------------------------------------------------------------
(* Statements and blocks.                                                   *)

\* The declarations of a block are taken in first, then its statements run.
RunBlock(R, body) ==
  LET defs == SelectSeq(body, LAMBDA stmt : stmt.s = "def")
      known == FoldLeft(LAMBDA fs, d : Put(fs, d.name, [params |-> d.params, body |-> d.body]),
                        R.functions, defs)
  IN  Do([R EXCEPT !.functions = known],
         [i \in DOMAIN body |-> [do |-> "statement", stmt |-> body[i]]])

RunStatement(R, stmt) ==
  CASE stmt.s = "def" -> R
    [] stmt.s = "let" -> Do(R, <<ToEval(stmt.value), [do |-> "set", name |-> stmt.name]>>)
    [] stmt.s \in {"break", "continue"} -> Signalled(R, stmt.s)
    [] stmt.s = "return" ->
         Do(Give(R, Nothing), (IF stmt.has THEN <<ToEval(stmt.value)>> ELSE <<>>)
                                \o <<[do |-> "return"]>>)
    [] stmt.s = "if" -> Do(R, <<ToEval(stmt.cond), [do |-> "branch", stmt |-> stmt]>>)
    [] stmt.s = "repeat" -> Do(R, <<ToEval(stmt.count), [do |-> "repeat", stmt |-> stmt]>>)
    [] stmt.s = "for" -> Do(R, <<ToEval(stmt.source), [do |-> "for", stmt |-> stmt]>>)
    [] stmt.s = "while" -> Do(R, <<[do |-> "again", stmt |-> stmt, turns |-> 0]>>)
    [] stmt.s = "cmd" -> Do(R, Append(Invoke(stmt.name, stmt.args, 0), [do |-> "print"]))
    [] OTHER ->
         Do(R, [k \in DOMAIN stmt.stages |-> [do |-> "stage", stage |-> stmt.stages[k], k |-> k]]
               \o <<[do |-> "restore it", vars |-> R.vars],
                    IF stmt.named THEN [do |-> "set", name |-> stmt.into] ELSE [do |-> "print"]>>)

Branch(R, stmt) ==
  IF Truthy(R.val) THEN Do(R, <<ToRun(stmt.body)>>)
  ELSE IF stmt.has THEN Do(R, <<ToRun(stmt.otherwise)>>) ELSE R

\* `repeat` walks over as many turns as it counts, `for` over the items.
Walk(R, stmt, items) == Do(R, <<[do |-> "turn", stmt |-> stmt, items |-> items]>>)

Repeat(R, stmt) ==
  IF ~IsNumeric(R.val) \/ R.val.n < 0 THEN Fault(R, "not a count")
  ELSE IF R.val.n > MaxLoop THEN Fault(R, "too many turns")
  ELSE Walk(R, stmt, [i \in 1..R.val.n |-> Nothing])

For(R, stmt) ==
  IF Len(AsList(R.val)) > MaxLoop THEN Fault(R, "too many turns") ELSE Walk(R, stmt, AsList(R.val))

Turn(R, f) ==
  IF f.items = <<>> THEN R
  ELSE Do(IF f.stmt.s = "for" THEN Set(R, f.stmt.name, Head(f.items)) ELSE R,
          <<ToRun(f.stmt.body), [f EXCEPT !.items = Tail(@)]>>)

While(R, f) ==
  IF ~Truthy(R.val) THEN R
  ELSE IF f.turns >= MaxLoop THEN Fault(R, "too many turns")
  ELSE Do(R, <<ToRun(f.stmt.body), [f EXCEPT !.do = "again", !.turns = @ + 1]>>)

\* Each step gets the answer of the one before: as `$it` where it says so, as
\* its first argument where it does not.
Stage(R, stage, k) ==
  CASE k = 1 -> Do(R, Invoke(stage.name, stage.args, 0))
    [] k > 1 /\ R.val = NoAnswer -> Fault(R, "no answer to pass along")
    [] k > 1 /\ R.val # NoAnswer /\ stage.uses_it ->
         Do(Set(R, "it", R.val), Invoke(stage.name, stage.args, 0))
    [] OTHER -> Do(Keep(Set(R, "it", R.val)), Invoke(stage.name, stage.args, 1))

\* `$it` is the pipeline's: what the script had there before is put back.
\* (RemoveIt is a mutant: it is taken away, the script's own with it.)
RemoveIt(R, before) == [R EXCEPT !.vars = [name \in DOMAIN @ \ {"it"} |-> @[name]]]
RestoreIt(R, before) ==
  [R EXCEPT !.vars = IF "it" \in DOMAIN before THEN Put(@, "it", before["it"])
                     ELSE [name \in DOMAIN @ \ {"it"} |-> @[name]]]

----------------------------------------------------------------------------
(* A step.                                                                  *)

\* A break, a continue or a return passes by what it skips.
PassBy(R, f) ==
  LET loops == f.do \in {"turn", "again"} IN
  CASE f.do = "back" -> BackTo(R, f)
    [] loops /\ R.signal = "break" -> Signalled(R, "carry on")
    [] loops /\ R.signal = "continue" -> Do(Signalled(R, "carry on"), <<f>>)
    [] f.do = "end" /\ R.signal # "return" -> Fault(R, "outside a loop")
    [] OTHER -> R

Perform(R, f, guest) ==
  CASE f.do = "block" -> RunBlock(R, f.body)
    [] f.do = "statement" -> RunStatement(R, f.stmt)
    [] f.do = "eval" -> Eval(R, f.e)
    [] f.do = "neg" -> Negated(R, f.sign)
    [] f.do = "not" -> Give(R, Yes(~Truthy(R.val)))
    [] f.do = "right" -> Right(R, f)
    [] f.do = "join" -> Join(R, f)
    [] f.do = "keep" -> Keep(R)
    [] f.do = "call" -> Call(R, f, guest)
    [] f.do = "back" -> BackTo(R, f)
    [] f.do = "answer" -> Give(R, AnswerOf(R))
    [] f.do = "set" -> Set(R, f.name, AnswerOf(R))
    [] f.do = "return" -> Signalled([R EXCEPT !.returned = R.val], "return")
    [] f.do = "branch" -> Branch(R, f.stmt)
    [] f.do = "repeat" -> Repeat(R, f.stmt)
    [] f.do = "for" -> For(R, f.stmt)
    [] f.do = "turn" -> Turn(R, f)
    [] f.do = "again" -> Do(R, <<ToEval(f.stmt.cond), [f EXCEPT !.do = "while"]>>)
    [] f.do = "while" -> While(R, f)
    [] f.do = "stage" -> Stage(R, f.stage, f.k)
    [] f.do = "restore it" -> RestoreIt(R, f.vars)
    [] f.do = "print" -> PrintIfThereIsOne(R)
    [] OTHER -> R

Advance(R, guest) ==
  LET f == Head(R.todo)
      r == [R EXCEPT !.todo = Tail(@)]
      spent == IF f.do \in {"statement", "eval"} THEN SpendAStep(r) ELSE r
  IN  IF Over(R) THEN R
      ELSE IF R.signal # "carry on" THEN PassBy(r, f)
      ELSE IF spent.fault # "" THEN spent
      ELSE Perform(spent, f, guest)
=============================================================================
