----------------------------- MODULE ByteStream -----------------------------
(***************************************************************************)
(* What a channel promises its two ends (docs/UNIR_CHANNELS.md, and the    *)
(* comments of src/runtime/chan.c): a byte queue. The writer appends, the  *)
(* reader takes from the front, nothing is lost, repeated or reordered;    *)
(* the reader sees the end of the stream once, after the writer finished   *)
(* and everything it wrote was taken. A sever may lose what is not yet     *)
(* taken.                                                                  *)
(***************************************************************************)
EXTENDS Sequences, SequencesExt

VARIABLES
  buf,      \* bytes written and not taken
  finished, \* the writer completed
  refused,  \* the reader cancelled
  severed,
  ended     \* the reader was told the stream is over

bsVars == <<buf, finished, refused, severed, ended>>

BsInit == buf = << >> /\ ~finished /\ ~refused /\ ~severed /\ ~ended

Put    == ~finished /\ ~refused /\ ~severed /\ IsStrictPrefix(buf, buf') /\ UNCHANGED <<finished, refused, severed, ended>>
Take   == ~refused /\ IsStrictSuffix(buf', buf) /\ UNCHANGED <<finished, refused, severed, ended>>
Finish == ~finished /\ finished' = TRUE /\ UNCHANGED <<buf, refused, severed, ended>>
Refuse == ~refused /\ refused' = TRUE /\ UNCHANGED <<buf, finished, severed, ended>>
Break  == ~severed /\ severed' = TRUE /\ IsPrefix(buf', buf) /\ UNCHANGED <<finished, refused, ended>>
SeeEnd == finished /\ ~refused /\ buf = << >> /\ ended' = TRUE /\ UNCHANGED <<buf, finished, refused, severed>>

BsNext == Put \/ Take \/ Finish \/ Refuse \/ Break \/ SeeEnd

BsSpec == BsInit /\ [][BsNext]_bsVars
=============================================================================
