------------------------------ MODULE Reading ------------------------------
(* How a CritterScript is read (crates/ork-critter/src/parse.rs): a script  *)
(* is a sequence of lines, a line a sequence of tokens, and what comes of   *)
(* it a tree of statements or a refusal.  Characters are left out: a token  *)
(* is what `tokenize` hands on, its text a name and never spelled.          *)
EXTENDS Integers, SequencesExt

CONSTANT MaxNest                       \* MAX_DEPTH: how deeply blocks may nest

ASSUME MaxNestIsNat == MaxNest \in Nat

----------------------------------------------------------------------------
(* Tokens and trees.  Every token has the same fields, whatever it is.      *)

Token(kind, text, num, glued) == [kind |-> kind, text |-> text, num |-> num, glued |-> glued]
Word(text) == Token("word", text, 0, FALSE)
Dollar(name) == Token("var", name, 0, FALSE)
Num(n) == Token("num", "", n, FALSE)
Op(text) == Token("op", text, 0, FALSE)
Str(name) == Token("str", name, 0, FALSE)            \* a quoted text holding $name
Glued(sign) == Token("op", sign, 0, TRUE)            \* a sign against its digits

IsWord(tokens, i, text) == i \in DOMAIN tokens /\ tokens[i] = Word(text)
IsOp(tokens, i, text) ==
  i \in DOMAIN tokens /\ tokens[i].kind = "op" /\ tokens[i].text = text

Precedence ==
  [op \in {"||", "&&", "==", "!=", "<", ">", "+", "-", "*", "/", "%"} |->
     CASE op = "||" -> 1
       [] op = "&&" -> 2
       [] op \in {"==", "!="} -> 3
       [] op \in {"<", ">"} -> 4
       [] op \in {"+", "-"} -> 5
       [] OTHER -> 6]

Binary(tokens, i) ==
  i \in DOMAIN tokens /\ tokens[i].kind = "op" /\ tokens[i].text \in DOMAIN Precedence

\* `and` and `or` are operators written as words.
NormaliseWords(tokens) ==
  [i \in DOMAIN tokens |->
     CASE tokens[i] = Word("and") -> Op("&&")
       [] tokens[i] = Word("or") -> Op("||")
       [] OTHER -> tokens[i]]

Leaf(token) ==
  CASE token.kind = "num" -> [e |-> "num", num |-> token.num]
    [] token.kind = "str" -> [e |-> "str", name |-> token.text]
    [] token.kind = "var" -> [e |-> "var", name |-> token.text]
    [] token.kind = "word" /\ token.text \in {"true", "false"} ->
         [e |-> "bool", yes |-> token.text = "true"]
    [] OTHER -> [e |-> "word", text |-> token.text]

\* An argument that is one token is never `true` or `false`: it is the word.
ArgLeaf(token) ==
  IF token.kind = "word" THEN [e |-> "word", text |-> token.text] ELSE Leaf(token)

Refused == [ok |-> FALSE]

\* What was read so far and, unless it is a refusal, what comes of it next.
Then(read, next(_)) == IF read.ok THEN next(read) ELSE Refused

----------------------------------------------------------------------------
(* Expressions: precedence climbing from the token `at` on.                 *)

RECURSIVE ParseExpr(_, _, _), Climb(_, _, _, _), ParseUnary(_, _), ArgNodes(_, _, _, _)

ParseExpr(tokens, at, min) ==
  Then(ParseUnary(tokens, at), LAMBDA first : Climb(tokens, first.at, first.node, min))

\* An operator binds here: it is one, it binds as tightly as asked, and there
\* is something to its right.
Binds(tokens, at, min) ==
  /\ Binary(tokens, at)
  /\ Precedence[tokens[at].text] >= min
  /\ at < Len(tokens)
  /\ ~IsOp(tokens, at + 1, ")")

Joined(op, left, right) == [e |-> "bin", op |-> op, left |-> left, right |-> right]

\* (ClimbToTheRight is a mutant: equals are taken together from the right.)
ClimbToTheRight(tokens, at, left, min) ==
  IF ~Binds(tokens, at, min) THEN [ok |-> TRUE, node |-> left, at |-> at]
  ELSE Then(ParseExpr(tokens, at + 1, Precedence[tokens[at].text]), LAMBDA right :
            Climb(tokens, right.at, Joined(tokens[at].text, left, right.node), min))
Climb(tokens, at, left, min) ==
  IF ~Binds(tokens, at, min) THEN [ok |-> TRUE, node |-> left, at |-> at]
  ELSE Then(ParseExpr(tokens, at + 1, Precedence[tokens[at].text] + 1), LAMBDA right :
            Climb(tokens, right.at, Joined(tokens[at].text, left, right.node), min))

\* After a bracket a leading word is a command, unless an operator follows it.
CallsACommand(tokens, at) ==
  /\ at + 1 \in DOMAIN tokens
  /\ tokens[at + 1].kind = "word"
  /\ tokens[at + 1].text \notin {"not", "true", "false"}
  /\ ~Binary(tokens, at + 2)

ParseUnary(tokens, at) ==
  CASE at > Len(tokens) -> Refused
    [] IsOp(tokens, at, "-") \/ IsOp(tokens, at, "+") ->
         Then(ParseUnary(tokens, at + 1), LAMBDA inner :
              [inner EXCEPT !.node = [e |-> "neg", sign |-> tokens[at].text, of |-> @]])
    [] IsWord(tokens, at, "not") ->
         Then(ParseUnary(tokens, at + 1), LAMBDA inner :
              [inner EXCEPT !.node = [e |-> "not", of |-> @]])
    [] IsOp(tokens, at, "(") /\ CallsACommand(tokens, at) ->
         Then(ArgNodes(tokens, at + 2, TRUE, <<>>), LAMBDA call :
              IF ~IsOp(tokens, call.at, ")") THEN Refused
              ELSE [ok |-> TRUE, at |-> call.at + 1,
                    node |-> [e |-> "call", name |-> tokens[at + 1].text, args |-> call.args]])
    [] IsOp(tokens, at, "(") /\ ~CallsACommand(tokens, at) ->
         Then(ParseExpr(tokens, at + 1, 1), LAMBDA inner :
              IF ~IsOp(tokens, inner.at, ")") THEN Refused ELSE [inner EXCEPT !.at = @ + 1])
    [] tokens[at].kind = "op" /\ tokens[at].text \notin {"-", "+", "("} -> Refused
    [] OTHER -> [ok |-> TRUE, node |-> Leaf(tokens[at]), at |-> at + 1]

\* Arguments are one piece each; a bracket opens a real expression.
ArgNodes(tokens, at, stop_at_paren, args) ==
  CASE at > Len(tokens) \/ (stop_at_paren /\ IsOp(tokens, at, ")")) ->
         [ok |-> TRUE, args |-> args, at |-> at]
    [] at <= Len(tokens) /\ IsOp(tokens, at, "(") ->
         Then(ParseExpr(tokens, at, 1), LAMBDA expr :
              ArgNodes(tokens, expr.at, stop_at_paren, Append(args, expr.node)))
    [] at < Len(tokens) /\ tokens[at].glued /\ tokens[at + 1].kind = "num" ->
         LET n == tokens[at + 1].num
             signed == IF tokens[at].text = "-" THEN -n ELSE n
         IN  ArgNodes(tokens, at + 2, stop_at_paren, Append(args, [e |-> "num", num |-> signed]))
    [] OTHER -> ArgNodes(tokens, at + 1, stop_at_paren, Append(args, ArgLeaf(tokens[at])))

\* A quoted text is searched for the letters `$it`, which `$item` has too.
StartsWithIt == {"it", "item"}

RECURSIVE MentionsIt(_)
MentionsIt(node) ==
  CASE node.e = "var" -> node.name = "it"
    [] node.e = "str" -> node.name \in StartsWithIt
    [] node.e = "bin" -> MentionsIt(node.left) \/ MentionsIt(node.right)
    [] node.e \in {"neg", "not"} -> MentionsIt(node.of)
    [] node.e = "call" -> \E i \in DOMAIN node.args : MentionsIt(node.args[i])
    [] OTHER -> FALSE

\* An expression that must reach the end of its line (`value_expr`, conditions).
WholeExpr(tokens, from) ==
  Then(ParseExpr(tokens, from, 1), LAMBDA expr : IF expr.at <= Len(tokens) THEN Refused ELSE expr)

----------------------------------------------------------------------------
(* One line that opens no block.                                            *)

\* The places of the pipes that are not inside brackets.
Depth(tokens, i) ==
  Cardinality({j \in 1..i : IsOp(tokens, j, "(")}) - Cardinality({j \in 1..i : IsOp(tokens, j, ")")})

Pipes(tokens) == {i \in DOMAIN tokens : IsOp(tokens, i, "|") /\ Depth(tokens, i) = 0}

Pieces(tokens) ==
  LET cuts == SetToSortSeq(Pipes(tokens) \cup {0, Len(tokens) + 1}, <) IN
  [k \in 1..(Len(cuts) - 1) |-> SubSeq(tokens, cuts[k] + 1, cuts[k + 1] - 1)]

StageOf(piece) ==
  IF piece = <<>> THEN Refused
  ELSE IF piece[1].kind # "word" THEN Refused
  ELSE Then(ArgNodes(piece, 2, FALSE, <<>>), LAMBDA read :
            [ok |-> TRUE, name |-> piece[1].text, args |-> read.args,
             uses_it |-> \E i \in DOMAIN read.args : MentionsIt(read.args[i])])

Staged(line, stages, named, into) ==
  IF \E k \in DOMAIN stages : ~stages[k].ok THEN Refused
  ELSE IF Len(stages) = 1 /\ ~named
  THEN [s |-> "cmd", ok |-> TRUE, line |-> line, name |-> stages[1].name, args |-> stages[1].args]
  ELSE [s |-> "pipe", ok |-> TRUE, line |-> line, stages |-> stages, named |-> named, into |-> into]

Pipeline(line, tokens) ==
  LET arrows == {i \in DOMAIN tokens : IsOp(tokens, i, "->")}
      arrow == Min(arrows)
      named == arrows # {}
      pieces == Pieces(IF named THEN SubSeq(tokens, 1, arrow - 1) ELSE tokens)
  IN  IF named /\ (arrow = 1 \/ Len(tokens) # arrow + 1) THEN Refused
      ELSE IF named /\ tokens[Len(tokens)].kind \notin {"var", "word"} THEN Refused
      ELSE Staged(line, [k \in DOMAIN pieces |-> StageOf(pieces[k])], named,
                  IF named THEN tokens[arrow + 1].text ELSE "")

Let(line, tokens) ==
  IF Len(tokens) < 4 \/ ~IsOp(tokens, 3, "=") THEN Refused
  ELSE IF tokens[2].kind \notin {"word", "var"} THEN Refused
  ELSE Then(WholeExpr(tokens, 4), LAMBDA value :
            [s |-> "let", ok |-> TRUE, line |-> line, name |-> tokens[2].text, value |-> value.node])

Return(line, tokens) ==
  IF Len(tokens) = 1
  THEN [s |-> "return", ok |-> TRUE, line |-> line, has |-> FALSE, value |-> [e |-> "word", text |-> ""]]
  ELSE Then(WholeExpr(tokens, 2), LAMBDA value :
            [s |-> "return", ok |-> TRUE, line |-> line, has |-> TRUE, value |-> value.node])

Statement(line, tokens) ==
  CASE tokens[1] = Word("let") -> Let(line, tokens)
    [] tokens \in {<<Word("break")>>, <<Word("continue")>>} ->
         [s |-> tokens[1].text, ok |-> TRUE, line |-> line]
    [] tokens[1] = Word("return") -> Return(line, tokens)
    [] tokens[1].kind # "word" -> Refused
    [] OTHER -> Pipeline(line, tokens)

----------------------------------------------------------------------------
(* Blocks, found by scanning the lines for openers and `end`.               *)

IfEnds == {"end", "else", "elif"}
LoopWords == {"repeat", "while"}

RECURSIVE Block(_, _, _, _, _), IfChain(_, _, _), Clauses(_, _, _, _)

First(lines, at) == lines[at][1]

\* What a line that opens a block says before it.
Header(tokens, opens) ==
  CASE opens = "for" ->
         IF Len(tokens) < 4 \/ ~IsWord(tokens, 3, "in") THEN Refused
         ELSE IF tokens[2].kind \notin {"word", "var"} THEN Refused
         ELSE WholeExpr(tokens, 4)
    [] opens = "def" ->
         [ok |-> /\ Len(tokens) >= 2
                 /\ tokens[2].kind = "word"
                 /\ \A i \in 3..Len(tokens) : tokens[i].kind \in {"word", "var"}]
    [] OTHER -> WholeExpr(tokens, 2)

Opened(at, tokens, header, body) ==
  CASE tokens[1].text = "for" ->
         [s |-> "for", line |-> at, name |-> tokens[2].text, source |-> header.node, body |-> body]
    [] tokens[1].text = "def" ->
         [s |-> "def", line |-> at, name |-> tokens[2].text,
          params |-> [i \in 1..(Len(tokens) - 2) |-> tokens[i + 2].text], body |-> body]
    [] tokens[1].text = "repeat" ->
         [s |-> "repeat", line |-> at, count |-> header.node, body |-> body]
    [] OTHER -> [s |-> "while", line |-> at, cond |-> header.node, body |-> body]

\* The lines from `at` on, until one that starts with a word of `stop`.
Block(lines, at, depth, stop, body) ==
  LET opens == First(lines, at).text IN
  CASE depth > MaxNest -> Refused
    [] depth <= MaxNest /\ at > Len(lines) -> [ok |-> TRUE, body |-> body, stop |-> "", at |-> at]
    [] depth <= MaxNest /\ at <= Len(lines) ->
         CASE lines[at] = <<>> -> Block(lines, at + 1, depth, stop, body)
           [] First(lines, at).kind = "word" /\ opens \in stop ->
                [ok |-> TRUE, body |-> body, stop |-> opens, at |-> at]
           [] First(lines, at).kind = "word" /\ opens \in {"for", "def"} \cup LoopWords ->
                Then(Header(lines[at], opens), LAMBDA header :
                     Then(Block(lines, at + 1, depth + 1, {"end"}, <<>>), LAMBDA inner :
                          IF inner.stop # "end" THEN Refused
                          ELSE Block(lines, inner.at + 1, depth, stop,
                                     Append(body, Opened(at, lines[at], header, inner.body)))))
           [] First(lines, at) = Word("if") ->
                Then(IfChain(lines, at, depth), LAMBDA chain :
                     Block(lines, chain.at, depth, stop, Append(body, chain.node)))
           [] First(lines, at).kind = "word" /\ opens \in IfEnds \ stop -> Refused
           [] OTHER ->
                Then(Statement(at, lines[at]), LAMBDA stmt :
                     Block(lines, at + 1, depth, stop, Append(body, stmt)))

\* The clauses of a chain, collected first and folded into nested ifs after.
Clauses(lines, at, depth, clauses) ==
  Then(WholeExpr(lines[at], 2), LAMBDA cond :
       Then(Block(lines, at + 1, depth + 1, IfEnds, <<>>), LAMBDA inner :
            LET all == Append(clauses, [line |-> at, cond |-> cond.node, body |-> inner.body]) IN
            IF inner.stop = "elif" THEN Clauses(lines, inner.at, depth, all)
            ELSE [ok |-> TRUE, clauses |-> all, stop |-> inner.stop, at |-> inner.at]))

Nested(clauses, has, otherwise) ==
  FoldRight(LAMBDA clause, below :
              <<[s |-> "if", line |-> clause.line, cond |-> clause.cond, body |-> clause.body,
                 has |-> has \/ clause.line # Last(clauses).line, otherwise |-> below]>>,
            clauses, otherwise)[1]

IfChain(lines, at, depth) ==
  Then(Clauses(lines, at, depth, <<>>), LAMBDA read :
       CASE read.stop = "" -> Refused
         [] read.stop = "end" ->
              [ok |-> TRUE, node |-> Nested(read.clauses, FALSE, <<>>), at |-> read.at + 1]
         [] OTHER ->
              Then(Block(lines, read.at + 1, depth + 1, {"end"}, <<>>), LAMBDA last :
                   IF last.stop # "end" THEN Refused
                   ELSE [ok |-> TRUE, node |-> Nested(read.clauses, TRUE, last.body),
                         at |-> last.at + 1]))

\* Read a whole script: its statements, or a refusal.
Parse(source) ==
  Block([i \in DOMAIN source |-> NormaliseWords(source[i])], 1, 0, {}, <<>>)

----------------------------------------------------------------------------
(* The tree, written out again.  Brackets go where the operators would      *)
(* bind otherwise.                                                          *)

Bracketed(tokens) == <<Op("(")>> \o tokens \o <<Op(")")>>

RECURSIVE Expr(_), AsArg(_)

Expr(e) ==
  LET side(child, min) ==
        IF child.e = "bin" THEN
          IF Precedence[child.op] < min THEN Bracketed(Expr(child)) ELSE Expr(child)
        ELSE Expr(child)
      tight(child) == IF child.e = "bin" THEN Bracketed(Expr(child)) ELSE Expr(child)
  IN
  CASE e.e = "num" -> <<Num(e.num)>>
    [] e.e = "bool" -> <<Word(IF e.yes THEN "true" ELSE "false")>>
    [] e.e = "word" -> <<Word(e.text)>>
    [] e.e = "str" -> <<Str(e.name)>>
    [] e.e = "var" -> <<Dollar(e.name)>>
    [] e.e = "neg" -> <<Op(e.sign)>> \o tight(e.of)
    [] e.e = "not" -> <<Word("not")>> \o tight(e.of)
    [] e.e = "bin" -> side(e.left, Precedence[e.op]) \o <<Op(e.op)>> \o side(e.right, Precedence[e.op] + 1)
    [] OTHER -> Bracketed(<<Word(e.name)>> \o FlattenSeq([i \in DOMAIN e.args |-> AsArg(e.args[i])]))

AsArg(e) ==
  CASE e.e = "num" /\ e.num < 0 -> <<Glued("-"), Num(-e.num)>>
    [] e.e \in {"bin", "neg", "not"} -> Bracketed(Expr(e))
    [] e.e = "word" /\ e.text \in DOMAIN Precedence \cup {"=", "|"} -> <<Op(e.text)>>
    [] OTHER -> Expr(e)

StageTokens(stage) == <<Word(stage.name)>> \o FlattenSeq([i \in DOMAIN stage.args |-> AsArg(stage.args[i])])

Names(texts) == [i \in DOMAIN texts |-> Word(texts[i])]

\* A statement as lines, the first of them at its own line; nothing where the
\* tree says a line its own cannot be at.
RECURSIVE Lines(_, _), BlockLines(_, _)

BlockLines(body, from) ==
  FoldLeft(LAMBDA lines, stmt : lines \o Lines(stmt, from + Len(lines)), <<>>, body)

Lines(stmt, from) ==
  LET head ==
        CASE stmt.s = "let" -> <<Word("let"), Word(stmt.name), Op("=")>> \o Expr(stmt.value)
          [] stmt.s = "return" -> <<Word("return")>> \o (IF stmt.has THEN Expr(stmt.value) ELSE <<>>)
          [] stmt.s = "cmd" -> StageTokens(stmt)
          [] stmt.s = "pipe" ->
               FoldLeft(LAMBDA ts, stage : IF ts = <<>> THEN StageTokens(stage)
                                           ELSE ts \o <<Op("|")>> \o StageTokens(stage), <<>>, stmt.stages)
               \o (IF stmt.named THEN <<Op("->"), Dollar(stmt.into)>> ELSE <<>>)
          [] stmt.s = "for" -> <<Word("for"), Word(stmt.name), Word("in")>> \o Expr(stmt.source)
          [] stmt.s = "def" -> <<Word("def"), Word(stmt.name)>> \o Names(stmt.params)
          [] stmt.s = "repeat" -> <<Word("repeat")>> \o Expr(stmt.count)
          [] stmt.s \in {"if", "while"} -> <<Word(stmt.s)>> \o Expr(stmt.cond)
          [] OTHER -> <<Word(stmt.s)>>
      body == BlockLines(stmt.body, from + 1)
      next == from + 1 + Len(body)
      chained == IF Len(stmt.otherwise) # 1 THEN FALSE
                 ELSE stmt.otherwise[1].s = "if" /\ stmt.otherwise[1].line = next
      below == Lines(stmt.otherwise[1], next)
  IN
  CASE stmt.line # from -> <<>>
    [] stmt.line = from /\ stmt.s \in {"for", "def", "repeat", "while"} ->
         <<head>> \o body \o <<<<Word("end")>>>>
    [] stmt.line = from /\ stmt.s = "if" ->
         IF ~stmt.has THEN <<head>> \o body \o <<<<Word("end")>>>>
         ELSE IF chained
         THEN <<head>> \o body \o <<<<Word("elif")>> \o Tail(below[1])>> \o Tail(below)
         ELSE <<head>> \o body \o <<<<Word("else")>>>>
              \o BlockLines(stmt.otherwise, next + 1) \o <<<<Word("end")>>>>
    [] OTHER -> <<head>>

----------------------------------------------------------------------------
(* A pipeline, written out one step a line, each answer under a name.       *)

Held(k) == IF k = 1 THEN "answer1" ELSE IF k = 2 THEN "answer2" ELSE "answer3"
HeldNames == {Held(k) : k \in 1..3}

RECURSIVE InPlaceOfIt(_, _), WrittenOut(_)

InPlaceOfIt(e, name) ==
  CASE e.e \in {"var", "str"} -> IF e.name = "it" THEN [e EXCEPT !.name = name] ELSE e
    [] e.e = "bin" ->
         [e EXCEPT !.left = InPlaceOfIt(@, name), !.right = InPlaceOfIt(@, name)]
    [] e.e \in {"neg", "not"} -> [e EXCEPT !.of = InPlaceOfIt(@, name)]
    [] e.e = "call" -> [e EXCEPT !.args = [i \in DOMAIN @ |-> InPlaceOfIt(@[i], name)]]
    [] OTHER -> e

ArgsOf(stages, k) ==
  LET stage == stages[k]
      inPlace == [i \in DOMAIN stage.args |-> InPlaceOfIt(stage.args[i], Held(k - 1))]
  IN  IF k = 1 THEN stage.args
      ELSE IF inPlace # stage.args THEN inPlace
      ELSE <<[e |-> "var", name |-> Held(k - 1)]>> \o stage.args

StepLine(stmt, k) ==
  LET name == stmt.stages[k].name
      args == ArgsOf(stmt.stages, k)
      let(into) == [s |-> "let", line |-> stmt.line, name |-> into,
                    value |-> [e |-> "call", name |-> name, args |-> args]]
  IN  IF k < Len(stmt.stages) THEN let(Held(k))
      ELSE IF stmt.named THEN let(stmt.into)
      ELSE [s |-> "cmd", line |-> stmt.line, name |-> name, args |-> args]

WrittenOut(body) ==
  FlattenSeq([i \in DOMAIN body |->
    LET stmt == body[i] IN
    CASE stmt.s = "pipe" -> [k \in DOMAIN stmt.stages |-> StepLine(stmt, k)]
      [] stmt.s \in {"for", "def", "repeat", "while"} -> <<[stmt EXCEPT !.body = WrittenOut(@)]>>
      [] stmt.s = "if" ->
           <<[stmt EXCEPT !.body = WrittenOut(@), !.otherwise = WrittenOut(@)]>>
      [] OTHER -> <<stmt>>])
=============================================================================
