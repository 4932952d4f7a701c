----------------------------- MODULE MCRuntime -----------------------------
(* TLC instance of the runtime's region heap (RtHeap), of the vat's idle wait *)
(* (EventWait) and of the transcript.  They share no state here, so part     *)
(* names the one a behaviour is about.                                        *)
EXTENDS RtHeap, EventWait, Transcript

VARIABLE part

runtimeVars == <<heapVars, evVars, txVars, part>>

RuntimeInit ==
  /\ part \in {"region", "event", "transcript"}
  /\ HeapInit /\ EvInit /\ TxInit

Region == part = "region" /\ HeapNext /\ UNCHANGED <<evVars, txVars, part>>
Event  == part = "event" /\ EvNext /\ UNCHANGED <<heapVars, txVars, part>>
Output == part = "transcript" /\ TxNext /\ UNCHANGED <<heapVars, evVars, part>>

RuntimeNext == Region \/ Event \/ Output

RuntimeSpec == RuntimeInit /\ [][RuntimeNext]_runtimeVars
=============================================================================
