---------------------------- MODULE MCTrees ----------------------------
(* TLC instance of the trees under src/lib: the hash trie, and the rope and
   the document on the sum tree. They share no
   state, so part names the one a behaviour is about and the others keep one
   initial state. *)
EXTENDS Hamt, Rope, Rdoc

VARIABLE part

treesVars == <<hamtVars, ropeVars, docVars, part>>

TreesInit ==
  /\ part \in {"hamt", "rope", "rdoc"}
  /\ IF part = "hamt" THEN HamtInit
     ELSE hashOf = [k \in HKeys |-> [i \in 1 .. Frags |-> 0]] /\ hroot = Empty /\ href = <<>> /\ hsteps = 0
  /\ IF part = "rope" THEN RopeInit
     ELSE rtext = <<"a">> /\ rp = rope_from_str(rtext) /\ seamed = FALSE /\ rsteps = 0
  /\ IF part = "rdoc" THEN DocInit
     ELSE draw = <<1>> /\ doc = rdoc_from_bytes(draw) /\ dsteps = 0

HamtPart == part = "hamt" /\ HamtNext /\ UNCHANGED <<ropeVars, docVars, part>>
RopePart == part = "rope" /\ RopeNext /\ UNCHANGED <<hamtVars, docVars, part>>
DocPart == part = "rdoc" /\ DocNext /\ UNCHANGED <<hamtVars, ropeVars, part>>

TreesNext == HamtPart \/ RopePart \/ DocPart

TreesSpec == TreesInit /\ [][TreesNext]_treesVars
=============================================================================
