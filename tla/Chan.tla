-------------------------------- MODULE Chan --------------------------------
(***************************************************************************)
(* A byte channel (src/runtime/chan.c over chan_unir.c): two ends over one *)
(* bounded edge, used by any number of fibers. An end admits one operation *)
(* at a time (its busy word); a backend write or read parks the fiber.     *)
(* Frames are what the edge carries: a write is cut into frames of at most *)
(* MaxFrame bytes, and a read end keeps the unread rest of a frame.        *)
(*                                                                         *)
(* Byte i of the w-th write is <<w, i>>.  The edge is unir's, external.    *)
(***************************************************************************)
EXTENDS Integers, Sequences, SequencesExt, FiniteSets

CONSTANTS
  Fibers,
  EdgeCap,   \* frames of the edge
  MaxFrame,  \* bytes of a frame
  WriteLens, \* lengths of the writes
  ReadLens,  \* N of the reads
  MaxOps,    \* bound: operations begun
  CanSever   \* the edge may be severed

ASSUME ChanAssumption ==
  /\ EdgeCap \in Nat \ {0} /\ MaxFrame \in Nat \ {0} /\ MaxOps \in Nat
  /\ WriteLens \subseteq Nat /\ ReadLens \subseteq Nat \ {0} /\ CanSever \in BOOLEAN

VARIABLES
  busy,    \* the busy word of each end: 0, or 1
  closed,  \* the closed word of each end: 0, or 1
  tail,    \* the read end's unread bytes of the current frame
  ring,    \* frames on the edge
  over,    \* how the edge ended: "open", "complete", "cancel", "severed"
  fib,     \* what each fiber is doing
  ops,
  told     \* history: some read returned the end of the stream

chanVars == <<busy, closed, tail, ring, over, fib, ops, told>>

Out   == [pc |-> "out", end |-> "w", op |-> "none", left |-> << >>, n |-> 0, res |-> "none"]
Ends  == {"w", "r"}

ChanInit ==
  /\ busy = [e \in Ends |-> 0] /\ closed = [e \in Ends |-> 0]
  /\ tail = << >> /\ ring = << >> /\ over = "open"
  /\ fib = [f \in Fibers |-> Out] /\ ops = 0 /\ told = FALSE

\* The end of an operation: chan_release, and its result.
chan_release(f, res) ==
  /\ busy' = [busy EXCEPT ![fib[f].end] = 0]
  /\ fib' = [fib EXCEPT ![f] = [Out EXCEPT !.res = res]]

\* The bytes of write number w.
Bytes(w, n) == [i \in 1 .. n |-> <<w, i>>]

\* chan_claim's compare-and-swap; jacl_chan_close makes the same one.
Claim(f, end, op, left, n) ==
  /\ fib[f].pc = "out" /\ ops < MaxOps
  /\ ops' = ops + 1
  /\ IF busy[end] = 1
     THEN fib' = [fib EXCEPT ![f].res = "busy"] /\ UNCHANGED busy
     ELSE /\ busy' = [busy EXCEPT ![end] = 1]
          /\ fib' = [fib EXCEPT ![f] = [pc |-> "claimed", end |-> end, op |-> op, left |-> left, n |-> n, res |-> "none"]]
  /\ UNCHANGED <<closed, tail, ring, over, told>>

jacl_chan_write(f) == \E n \in WriteLens : Claim(f, "w", "write", Bytes(ops + 1, n), 0)
jacl_chan_read(f)  == \E n \in ReadLens : Claim(f, "r", "read", << >>, n)
jacl_collect(f)    == Claim(f, "r", "collect", << >>, 0)

\* Mutant: `closed` is read before the busy word is taken, so is not looked at again.
MutClaimCheck(f) ==
  /\ fib[f].pc = "claimed" /\ fib[f].op # "close"
  /\ fib' = [fib EXCEPT ![f].pc = "in"]
  /\ UNCHANGED <<busy, closed, tail, ring, over, ops, told>>

\* chan_claim looks at `closed` after taking the busy word.
ClaimCheck(f) ==
  /\ fib[f].pc = "claimed" /\ fib[f].op # "close"
  /\ IF closed[fib[f].end] = 1
     THEN chan_release(f, "closed")
     ELSE fib' = [fib EXCEPT ![f].pc = "in"] /\ UNCHANGED busy
  /\ UNCHANGED <<closed, tail, ring, over, ops, told>>

\* Mutant: the offset is not advanced past a frame that was cut short.
MutWriteTwice(f) ==
  /\ fib[f].pc = "in" /\ fib[f].op = "write" /\ fib[f].left # << >>
  /\ IF over # "open"
     THEN chan_release(f, IF over = "severed" THEN "severed" ELSE "reader closed") /\ UNCHANGED ring
     ELSE LET k == IF Len(fib[f].left) < MaxFrame THEN Len(fib[f].left) ELSE MaxFrame
          IN /\ Len(ring) < EdgeCap
             /\ ring' = Append(ring, SubSeq(fib[f].left, 1, k))
             /\ fib' = [fib EXCEPT ![f].left = SubSeq(@, k, Len(@) - 1)]
             /\ UNCHANGED busy
  /\ UNCHANGED <<closed, tail, over, ops, told>>

\* chan_write_all, one frame: the fiber parks while the edge is full.
chan_be_write(f) ==
  /\ fib[f].pc = "in" /\ fib[f].op = "write" /\ fib[f].left # << >>
  /\ IF over # "open"
     THEN chan_release(f, IF over = "severed" THEN "severed" ELSE "reader closed") /\ UNCHANGED ring
     ELSE LET k == IF Len(fib[f].left) < MaxFrame THEN Len(fib[f].left) ELSE MaxFrame
          IN /\ Len(ring) < EdgeCap
             /\ ring' = Append(ring, SubSeq(fib[f].left, 1, k))
             /\ fib' = [fib EXCEPT ![f].left = SubSeq(@, k + 1, Len(@))]
             /\ UNCHANGED busy
  /\ UNCHANGED <<closed, tail, over, ops, told>>

WriteDone(f) ==
  /\ fib[f].pc = "in" /\ fib[f].op = "write" /\ fib[f].left = << >>
  /\ chan_release(f, "nil")
  /\ UNCHANGED <<closed, tail, ring, over, ops, told>>

\* Mutant: the end is reported as soon as the writer completed.
MutFillEarlyEnd(f) ==
  /\ fib[f].pc = "in" /\ fib[f].op \in {"read", "collect"} /\ tail = << >>
  /\ \/ /\ over # "complete" /\ ring # << >> /\ tail' = Head(ring) /\ ring' = Tail(ring)
        /\ UNCHANGED <<busy, fib, told>>
     \/ /\ over = "severed"
        /\ chan_release(f, "severed") /\ UNCHANGED <<tail, ring, told>>
     \/ /\ over = "complete"
        /\ chan_release(f, "end") /\ told' = TRUE /\ UNCHANGED <<tail, ring>>
  /\ UNCHANGED <<closed, over, ops>>

\* chan_fill: the next frame into the tail; the fiber parks while there is none.
chan_fill(f) ==
  /\ fib[f].pc = "in" /\ fib[f].op \in {"read", "collect"} /\ tail = << >>
  /\ \/ /\ ring # << >> /\ tail' = Head(ring) /\ ring' = Tail(ring)
        /\ UNCHANGED <<busy, fib, told>>
     \/ /\ over = "severed"
        /\ chan_release(f, "severed") /\ UNCHANGED <<tail, ring, told>>
     \/ /\ ring = << >> /\ over = "complete"
        /\ chan_release(f, "end") /\ told' = TRUE /\ UNCHANGED <<tail, ring>>
  /\ UNCHANGED <<closed, over, ops>>

\* jacl_chan_read copies out at most N bytes and keeps the rest.
ReadOut(f) ==
  /\ fib[f].pc = "in" /\ fib[f].op = "read" /\ tail # << >>
  /\ LET k == IF fib[f].n < Len(tail) THEN fib[f].n ELSE Len(tail)
     IN tail' = SubSeq(tail, k + 1, Len(tail))
  /\ chan_release(f, "bytes")
  /\ UNCHANGED <<closed, ring, over, ops, told>>

\* jacl_collect appends the whole tail to its result and fills again.
CollectMore(f) ==
  /\ fib[f].pc = "in" /\ fib[f].op = "collect" /\ tail # << >>
  /\ tail' = << >>
  /\ UNCHANGED <<busy, closed, ring, over, fib, ops, told>>

\* jacl_chan_close: the write end completes the edge, the read end cancels it.
CloseStart(f) == \E end \in Ends : Claim(f, end, "close", << >>, 0)

\* Mutant: the read end's close does not reach the edge.
MutCloseLocal(f) ==
  /\ fib[f].pc = "claimed" /\ fib[f].op = "close"
  /\ closed' = [closed EXCEPT ![fib[f].end] = 1]
  /\ over' = IF over = "open" /\ fib[f].end = "w" THEN "complete" ELSE over
  /\ chan_release(f, "nil")
  /\ UNCHANGED <<tail, ring, ops, told>>

jacl_chan_close(f) ==
  /\ fib[f].pc = "claimed" /\ fib[f].op = "close"
  /\ closed' = [closed EXCEPT ![fib[f].end] = 1]
  /\ over' = IF closed[fib[f].end] = 1 \/ over # "open" THEN over
             ELSE IF fib[f].end = "w" THEN "complete" ELSE "cancel"
  /\ chan_release(f, "nil")
  /\ UNCHANGED <<tail, ring, ops, told>>

\* The peer or the host severs the edge; frames on it may be lost.
Sever ==
  /\ CanSever /\ over = "open"
  /\ over' = "severed" /\ ring' \in {ring, << >>}
  /\ UNCHANGED <<busy, closed, tail, fib, ops, told>>

FiberStep(f) ==
  \/ ClaimCheck(f) \/ chan_be_write(f) \/ WriteDone(f) \/ chan_fill(f) \/ ReadOut(f)
  \/ CollectMore(f) \/ jacl_chan_close(f)

ChanNext ==
  \/ \E f \in Fibers :
       \/ jacl_chan_write(f) \/ jacl_chan_read(f) \/ jacl_collect(f) \/ CloseStart(f)
       \/ ClaimCheck(f) \/ chan_be_write(f) \/ WriteDone(f) \/ chan_fill(f) \/ ReadOut(f)
       \/ CollectMore(f) \/ jacl_chan_close(f)
  \/ Sever

\* Workers are OS threads and re-poll parked fibers: a fiber that can go on does.
ChanSpec == ChanInit /\ [][ChanNext]_chanVars /\ \A f \in Fibers : WF_chanVars(FiberStep(f))

-----------------------------------------------------------------------------
(* Properties *)

\* The channel is the byte queue its documentation promises, whatever the
\* frames, the tail and the interleaving of fibers are (docs/UNIR_CHANNELS.md).
Stream == INSTANCE ByteStream WITH
  buf <- tail \o FlattenSeq(ring), finished <- closed["w"] = 1, refused <- closed["r"] = 1,
  severed <- (over = "severed"), ended <- told
StreamRefined == Stream!BsInit /\ [][Stream!BsNext]_(Stream!bsVars)

\* The busy word is set exactly while one fiber is inside the end, and no
\* fiber is inside a closed end except to find it closed (chan.c:31, :108-124).
OneOperation ==
  \A e \in Ends :
    LET users == {f \in Fibers : fib[f].pc # "out" /\ fib[f].end = e}
    IN /\ Cardinality(users) = busy[e]
       /\ closed[e] = 1 => \A f \in users : fib[f].pc = "claimed"

\* The bytes of one write stay together: another writer is refused, never
\* interleaved (chan.c:31, :128-138).
WritesWhole ==
  LET s == tail \o FlattenSeq(ring)
  IN \A i \in 1 .. Len(s) - 1 :
       s[i + 1] = <<s[i][1], s[i][2] + 1>> \/ (s[i + 1][1] > s[i][1] /\ s[i + 1][2] = 1)

\* Closing one end frees whoever is parked in the other: a reader sees the end
\* of the stream, a writer an error (chan.c:252-253).
CloseReleases ==
  /\ closed["w"] = 1 ~> \A f \in Fibers : fib[f].pc = "out" \/ fib[f].end = "w"
  /\ closed["r"] = 1 ~> \A f \in Fibers : fib[f].pc = "out" \/ fib[f].end = "r"

\* An end serves one call at a time and every write arrives whole (chan.c).
ChannelSound == OneOperation /\ WritesWhole
=============================================================================
