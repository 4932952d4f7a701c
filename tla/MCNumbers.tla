---------------------------- MODULE MCNumbers ----------------------------
(* TLC instance of the numbers and of the value codec: the big integers and
   floats under src/lib, the runtime numeric tower and its wire format. They share no
   state, so part names the one a behaviour is about and the others keep one
   initial state. *)
EXTENDS Bigint, Bigfloat, Tower, Codec

VARIABLE part

numbersVars == <<bigVars, floatVars, towerVars, codecVars, part>>

NumbersInit ==
  /\ part \in {"big", "float", "tower", "codec"}
  /\ IF part = "big" THEN BigInit
     ELSE num = bigint_zero /\ numRef = 0 /\ numAge = 0
  /\ IF part = "float" THEN FloatInit
     ELSE fltCtx = [prec |-> 3, mode |-> "even"] /\ flt = bigfloat_zero(0, 3) /\ fltWant = Exact(0, 1)
  /\ IF part = "tower" THEN TowerInit
     ELSE tw = Canonical(0) /\ twWant = Want(0, {}, FALSE) /\ twAge = 0
  /\ IF part = "codec" THEN CodecInit
     ELSE cv = JNil /\ cvNest = 0

BigPart == part = "big" /\ BigNext /\ UNCHANGED <<floatVars, towerVars, codecVars, part>>
FloatPart == part = "float" /\ FloatNext /\ UNCHANGED <<bigVars, towerVars, codecVars, part>>
TowerPart == part = "tower" /\ TowerNext /\ UNCHANGED <<bigVars, floatVars, codecVars, part>>
CodecPart == part = "codec" /\ CodecNext /\ UNCHANGED <<bigVars, floatVars, towerVars, part>>

NumbersNext == BigPart \/ FloatPart \/ TowerPart \/ CodecPart

NumbersSpec == NumbersInit /\ [][NumbersNext]_numbersVars
=============================================================================
