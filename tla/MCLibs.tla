---------------------------- MODULE MCLibs ----------------------------
(* TLC instance of the other libraries under src/lib: the vector, regular
   expressions, segmentation, the normal form and the work-stealing deque. They share no
   state, so part names the one a behaviour is about and the others keep one
   initial state. *)
EXTENDS Rrb, Regex, Segment, Nfd, ChaseLev

VARIABLE part

libsVars == <<rrbVars, regexVars, segVars, nfdVars, dqVars, part>>

LibsInit ==
  /\ part \in {"rrb", "regex", "seg", "nfd", "deque"}
  /\ IF part = "rrb" THEN RrbInit
     ELSE vref = [i \in 1 .. 2 |-> <<>>] /\ vecs = [i \in 1 .. 2 |-> Grown(0)] /\ spoilt = FALSE /\ vsteps = 0
  /\ IF part = "regex" THEN RegexInit
     ELSE ryet = RNull /\ rpat = <<"a">> /\ rxText = [s |-> <<>>, ends |-> {0}] /\ rprog = RNull /\ riter = Iter0 /\ rfound = <<>>
  /\ SegInit
  /\ NfdInit
  /\ IF part = "deque" THEN DqInit
     ELSE DqInit /\ ~delayed

RrbPart == part = "rrb" /\ RrbNext /\ UNCHANGED <<regexVars, segVars, nfdVars, dqVars, part>>
RegexPart == part = "regex" /\ RegexNext /\ UNCHANGED <<rrbVars, segVars, nfdVars, dqVars, part>>
SegPart == part = "seg" /\ SegNext /\ UNCHANGED <<rrbVars, regexVars, nfdVars, dqVars, part>>
NfdPart == part = "nfd" /\ NfdNext /\ UNCHANGED <<rrbVars, regexVars, segVars, dqVars, part>>
DequePart == part = "deque" /\ DqNext /\ UNCHANGED <<rrbVars, regexVars, segVars, nfdVars, part>>

LibsNext == RrbPart \/ RegexPart \/ SegPart \/ NfdPart \/ DequePart

LibsSpec == LibsInit /\ [][LibsNext]_libsVars
=============================================================================
