------------------------------ MODULE LiveVideo ------------------------------
(***************************************************************************)
(* The bounded video store, BoundedVideoService (live/video.py): a buffer   *)
(* of frames per episode under limits of its own, and one limit for the     *)
(* bytes of all of them.  The oldest frames make room.  Its condition's     *)
(* lock makes every operation one step.                                     *)
(*                                                                         *)
(* Abstracted: a frame set is its index; its bytes are given by its index.  *)
(***************************************************************************)
EXTENDS Naturals, Sequences, FiniteSets, FiniteSetsExt, SequencesExt

CONSTANTS FrameBytes,     \* FrameBytes[i]: the encoded size of frame i
          MaxFrameSets,   \* maximum_frame_sets
          MaxBytes,       \* maximum_bytes, of one episode
          MaxTotalBytes   \* maximum_total_bytes, of all episodes

ASSUME VideoAssumption ==
  /\ {MaxFrameSets, MaxBytes, MaxTotalBytes} \subseteq Nat \ {0}
  /\ DOMAIN FrameBytes \subseteq Nat /\ FrameBytes \in [DOMAIN FrameBytes -> Nat]

NoVideo == [buffers |-> <<>>, total |-> 0, order |-> <<>>]
NewBuffer == [frames |-> <<>>, appended |-> 0, dropped |-> 0, closed |-> FALSE]

\* A sequence without the elements that are gone.
Without(seq, gone) ==
  LET kept[n \in 0 .. Len(seq)] ==
        IF n = 0 THEN <<>>
        ELSE IF seq[n] \in gone THEN kept[n - 1] ELSE Append(kept[n - 1], seq[n])
  IN kept[Len(seq)]

\* The frames of a buffer are different ones, so that their bytes are those of a set.
Bytes(frames) == SumFunctionOnSet(FrameBytes, Range(frames))
Held(v, episodes) ==
  SumFunctionOnSet([e \in DOMAIN v.buffers |-> Bytes(v.buffers[e].frames)], episodes)

VideoStarted(v, e) ==
  [v EXCEPT !.buffers = [x \in DOMAIN @ \cup {e} |-> IF x = e THEN NewBuffer ELSE @[x]]]

\* _discard_left, n times
DropLeft(v, e, n) ==
  LET b == v.buffers[e]
      left == [b EXCEPT !.frames = SubSeq(b.frames, n + 1, Len(b.frames)), !.dropped = @ + n]
  IN [v EXCEPT !.buffers[e] = left, !.total = @ - Bytes(SubSeq(b.frames, 1, n))]

\* How many of its oldest frames an episode gives up for frame i.
Excess(frames, i) ==
  CHOOSE d \in 0 .. Len(frames) :
    LET Enough(n) == LET kept == SubSeq(frames, n + 1, Len(frames)) IN
          \/ kept = <<>>
          \/ /\ Len(kept) < MaxFrameSets
             /\ Bytes(kept) + FrameBytes[i] <= MaxBytes
    IN Enough(d) /\ \A n \in 0 .. d - 1 : ~Enough(n)

DropOwn(v, e, i) == DropLeft(v, e, Excess(v.buffers[e].frames, i))

\* One turn of _discard_oldest_global: an entry whose frame is gone is skipped.
Popped(v) ==
  LET entry == Head(v.order)
      rest == [v EXCEPT !.order = Tail(@)]
  IN IF /\ entry[1] \in DOMAIN v.buffers
        /\ v.buffers[entry[1]].frames # <<>>
        /\ Head(v.buffers[entry[1]].frames) = entry[2]
     THEN DropLeft(rest, entry[1], 1) ELSE rest

\* ... until frame i fits.
DropGlobal(v, i) ==
  LET popped[n \in 0 .. Len(v.order)] == IF n = 0 THEN v ELSE Popped(popped[n - 1])
      Fits(n) == popped[n].total + FrameBytes[i] <= MaxTotalBytes
  IN popped[Min({n \in 0 .. Len(v.order) : Fits(n)} \cup {Len(v.order)})]

WithRoom(v, e, i) == DropGlobal(DropOwn(v, e, i), i)

\* append raises for a closed episode, an index that does not increase, a frame
\* beyond the limits, and when its accounting leaves no room.
Accepts(v, e, i) ==
  /\ ~v.buffers[e].closed
  /\ v.buffers[e].frames # <<>> => Last(v.buffers[e].frames) < i
  /\ FrameBytes[i] <= MaxBytes /\ FrameBytes[i] <= MaxTotalBytes
  /\ WithRoom(v, e, i).total + FrameBytes[i] <= MaxTotalBytes

VideoAppended(v, e, i) ==
  LET w == WithRoom(v, e, i)
      b == w.buffers[e]
      longer == [b EXCEPT !.frames = Append(@, i), !.appended = @ + 1]
  IN [w EXCEPT !.buffers[e] = longer, !.total = @ + FrameBytes[i],
               !.order = Append(@, <<e, i>>)]

VideoFinished(v, e) ==
  IF e \in DOMAIN v.buffers THEN [v EXCEPT !.buffers[e].closed = TRUE] ELSE v

\* discard_episode, for the episodes gone
VideoDiscarded(v, gone) ==
  [buffers |-> [e \in DOMAIN v.buffers \ gone |-> v.buffers[e]],
   total |-> v.total - Held(v, gone \cap DOMAIN v.buffers),
   order |-> Without(v.order, gone \X DOMAIN FrameBytes)]
=============================================================================
