----------------------------- MODULE MCCritter -----------------------------
(* Small instances of Critter for TLC: every arrangement of a few lines and *)
(* of a few tokens, and every way a few blocks can follow one another.      *)
EXTENDS Critter, Reading

MCRegistry ==
  [say |-> [guest_safe |-> TRUE, min_args |-> 0, says |-> TRUE],
   alter |-> [guest_safe |-> FALSE, min_args |-> 0, says |-> FALSE]]

A == Dollar("a")
B == Dollar("b")

\* Lines that open, close and fill blocks, in any order.
BlockOf ==
  {<<Word("if"), A>>, <<Word("elif"), B>>, <<Word("else")>>, <<Word("end")>>,
   <<Word("say"), Word("x")>>, <<Word("while"), B>>, <<Word("def"), Word("f"), Word("v")>>}
Arranged == BoundedSeq(BlockOf, 5)

\* The tokens of an expression, in any order.
Pieced ==
  {<<<<Word("let"), Word("x"), Op("=")>> \o expr>> :
     expr \in BoundedSeq({A, Num(1), Op("+"), Op("-"), Op("*"), Op("=="), Word("and"), Word("not")}, 4)}

CallOf(name, args) == <<Op("("), Word(name)>> \o args \o <<Op(")")>>
Ls == CallOf("list", <<Num(4), Num(5)>>)

\* Lines with brackets, signs and pipes.
Bracketing ==
  {<<<<Word("let"), Word("x"), Op("="), Op("("), A, Op("+"), Num(1), Op(")"), Op("*"), B>>>>,
   <<<<Word("let"), Word("x"), Op("="), A, Op("*"), Op("("), B, Op("-"), Num(1), Op(")"), Op("-"), A>>>>,
   <<<<Word("let"), Word("x"), Op("="), A, Op("-"), B, Op("-"), A, Op("*"), B, Op("=="), B>>>>,
   <<<<Word("item"), A, Glued("-"), Num(1)>>>>,
   <<<<Word("say"), A, Op("-"), Num(1)>>>>,
   <<<<Word("let"), Word("x"), Op("=")>> \o CallOf("join", <<A, Op("-")>>)>>,
   <<<<Word("say")>> \o CallOf("count", Ls) \o <<Op("|"), Word("count"), Op("->"), Dollar("n")>>>>,
   <<<<Word("say"), Op("("), A, Op("|"), B, Op(")")>>>>,
   <<<<Word("say"), A, Op("|")>>>>,
   <<<<Word("say"), Op("->")>>>>}

\* Blocks of lines that run, one after another.
Blocks ==
  {<<<<Word("let"), Word("it"), Op("="), Num(3)>>>>,
   <<<<Word("list"), Num(4), Num(5), Op("|"), Word("count"), Op("->"), Dollar("n")>>>>,
   <<<<Word("list"), Num(4), Op("|"), Word("add"), Num(5), Op("|"), Word("say"), Str("it")>>>>,
   <<<<Word("range"), Num(2), Op("|"), Word("last"), Op("|"), Word("say"), Str("who"),
       Op("("), Dollar("it"), Op("+"), Dollar("it"), Op(")")>>>>,
   <<<<Word("say"), Str("it"), Word("x")>>>>,
   <<<<Word("alter"), Num(1)>>>>,
   <<<<Word("list"), Num(1), Op("|"), Word("alter")>>>>,
   <<<<Word("let"), Word("x"), Op("=")>> \o CallOf("alter", <<>>)>>,
   <<<<Word("def"), Word("f"), Word("v")>>,
     <<Word("list"), Dollar("v"), Op("|"), Word("say")>>,
     <<Word("alter"), Dollar("v")>>,
     <<Word("return"), Dollar("v"), Op("*"), Num(2)>>,
     <<Word("end")>>>>,
   <<<<Word("count"), Dollar("it"), Op("|"), Word("f"), Op("->"), Dollar("it")>>>>,
   <<<<Word("def"), Word("g"), Word("v")>>, <<Word("g"), Dollar("v")>>, <<Word("end")>>,
     <<Word("g"), Num(1)>>>>,
   <<<<Word("for"), Word("it"), Word("in")>> \o CallOf("range", <<Num(3)>>),
     <<Word("if"), Dollar("it"), Op("=="), Num(2)>>, <<Word("continue")>>, <<Word("end")>>,
     <<Word("list"), Dollar("it"), Op("|"), Word("say"), Dollar("it"), Word("y")>>,
     <<Word("end")>>>>,
   <<<<Word("while"), Word("true")>>, <<Word("list"), Num(1), Op("|"), Word("say")>>,
     <<Word("break")>>, <<Word("end")>>>>,
   <<<<Word("repeat"), Num(2)>>, <<Word("let"), Word("n"), Op("="), Dollar("n"), Op("+"), Num(1)>>,
     <<Word("end")>>>>,
   <<<<Word("if"), Word("not"), Dollar("n")>>, <<Word("say"), Word("no")>>,
     <<Word("elif"), Dollar("n"), Op(">"), Num(2)>>, <<Word("f"), Dollar("n")>>,
     <<Word("else")>>, <<Word("return"), Dollar("n")>>, <<Word("end")>>>>,
   <<<<Word("break")>>>>}

Programs == {FlattenSeq(blocks) : blocks \in BoundedSeq(Blocks, 3)}

MCScripts == (Arranged \cup Pieced \cup Bracketing \cup Programs) \ {<<>>}

----------------------------------------------------------------------------

\* What was read is what was written: every token of the script is in the
\* tree, in its order and at its line, with each operator binding as its
\* precedence says and to the left, each `elif` in the chain it is written in,
\* and no statement after an `end` inside the block that `end` closed.
TreeIsWhatWasWritten ==
  at = "read" => BlockLines(tree, 1) = [i \in DOMAIN source |-> NormaliseWords(source[i])]
=============================================================================
