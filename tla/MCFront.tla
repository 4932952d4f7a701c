---------------------------- MODULE MCFront ----------------------------
(* TLC instance of the front end: lexer, parser, macro expansion, the typer's
   tables of shapes, and the block heap and the generational collector its
   values live in.  They share no state here, so part names the one a behaviour
   is about and the others keep one initial state. *)
EXTENDS Lexer, Parser, Expand, Shapes, Immix, GenGc

VARIABLE part

frontVars == <<lexVars, parserVars, expandVars, shapeVars, immixVars, genVars, part>>

FrontInit ==
  /\ part \in {"lex", "parse", "expand", "shapes", "block", "gen"}
  /\ ImmixInit /\ GenInit
  /\ IF part = "lex" THEN LexInit
     ELSE ltext = <<>> /\ lx = LexStart /\ lturns = 0
  /\ IF part = "parse" THEN ParseInit
     ELSE ptoks = <<>> /\ pst = ParseStart(<<>>) /\ pitems = <<>> /\ pstage = "items"
  /\ IF part = "expand" THEN ExpandInit
     ELSE ExpandInit /\ build = "bare"
  /\ IF part = "shapes" THEN ShapesInit
     ELSE tprog = [uses |-> <<>>, structs |-> <<>>, ctx |-> <<>>, procs |-> <<>>] /\ ShapesStart

LexPart ==
  part = "lex" /\ LexNext /\ UNCHANGED <<parserVars, expandVars, shapeVars, immixVars, genVars, part>>
ParsePart ==
  part = "parse" /\ ParseNext /\ UNCHANGED <<lexVars, expandVars, shapeVars, immixVars, genVars, part>>
ExpandPart ==
  part = "expand" /\ ExpandNext /\ UNCHANGED <<lexVars, parserVars, shapeVars, immixVars, genVars, part>>
ShapesPart ==
  part = "shapes" /\ ShapesNext /\ UNCHANGED <<lexVars, parserVars, expandVars, immixVars, genVars, part>>
BlockPart ==
  part = "block" /\ ImmixNext /\ UNCHANGED <<lexVars, parserVars, expandVars, shapeVars, genVars, part>>
\* Free cells that nothing refers to and that bear no trace of an earlier object are alike,
\* so an allocation that takes one of them takes the least.
Blank(o) ==
  /\ mark[o] = 0 /\ gen[o] = 0 /\ sc[o] = 0 /\ gref[o] = NoObj
  /\ o \notin heap \cup roots \cup rset \cup condemned \cup Range(gref)
LeastOfBlank == \A o \in heap' \ heap : Blank(o) => \A q \in Objs : Blank(q) => o <= q
GenPart ==
  part = "gen" /\ GenNext /\ LeastOfBlank /\ UNCHANGED <<lexVars, parserVars, expandVars, shapeVars, immixVars, part>>

FrontNext == LexPart \/ ParsePart \/ ExpandPart \/ ShapesPart \/ BlockPart \/ GenPart

FrontSpec == FrontInit /\ [][FrontNext]_frontVars
=============================================================================
