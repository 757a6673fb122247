--------------------------- MODULE LossAccounting ---------------------------
(***************************************************************************)
(* Loss accounting of quic_simple_client_bin.cc: the frame-range lists of  *)
(* a "multibytes=" request (append_frame_order, get_subrange), the splice  *)
(* of a response into the segment body (fill_segment_body), and the       *)
(* translation of the transport's lost frames into the hole list of the   *)
(* next request (generate_loss_information).  The actions are the code     *)
(* around them: the required unreliable request of a segment (main, 1319- *)
(* 1353) and one iteration of the hole-fill loop (fill_holes, 427-458).    *)
(*                                                                         *)
(* A range list is a sequence of <<first, last>> byte offsets (inclusive, *)
(* absolute in the video file); the string form and its parsing are left  *)
(* out.  Bytes are integers: Byte(p) is the true byte at segment offset p, *)
(* Junk stands for a byte the transport did not deliver.  The transport    *)
(* reports frames in stream order, every byte of the response covered,    *)
(* received or lost; a response shorter than the request gets the         *)
(* synthetic tail frame of spec section 4.6.                               *)
(***************************************************************************)
EXTENDS Integers, Sequences

CONSTANTS
  SegmentStart,   \* adaptationSet[..].segments[i].start
  SegmentSize,    \* segments[i].size, the length of segment_body
  MaxFrameLen     \* largest stream frame the transport reports

VARIABLES
  segment_body,   \* segment_body
  hole_range,     \* hole_range
  loss_size,      \* loss_size
  loss_stage,     \* "request", "holes" (fill_holes may run) or "done"
  overrun         \* the loss walk stepped past the last frame range

loss_vars == <<segment_body, hole_range, loss_size, loss_stage, overrun>>

Byte(p) == p + 1
Junk == 0

Smaller(a, b) == IF a < b THEN a ELSE b

\* get_subrange: the first count ranges; more than there are is exit(1)
GetSubrange(ranges, count) ==
  IF count <= Len(ranges) THEN SubSeq(ranges, 1, count) ELSE <<>>
SubrangeExits(ranges, count) == count > Len(ranges)

----------------------------------------------------------------------------
\* append_frame_order: where each range of the request lands in the body
RECURSIVE FrameOrderFrom(_, _, _)
FrameOrderFrom(ranges, offset, idx) ==
  IF ranges = <<>> THEN <<>>
  ELSE LET st  == Head(ranges)[1] - offset
           len == Head(ranges)[2] - Head(ranges)[1] + 1
       IN  <<[to_st |-> st, to_len |-> len, from_st |-> idx, from_len |-> len]>>
             \o FrameOrderFrom(Tail(ranges), offset, idx + len)

AppendFrameOrder(ranges, offset) == FrameOrderFrom(ranges, offset, 0)

\* std::string::replace(pos, len, str, subpos, sublen): the substring is cut
\* at the end of str
Replace(body, pos, len, str, subpos, sublen) ==
  SubSeq(body, 1, pos)
    \o SubSeq(str, subpos + 1, Smaller(subpos + sublen, Len(str)))
    \o SubSeq(body, pos + len + 1, Len(body))

RECURSIVE FillSegmentBody(_, _, _)
FillSegmentBody(body, response, fo) ==
  IF fo = <<>> THEN body
  ELSE FillSegmentBody(Replace(body, Head(fo).to_st, Head(fo).to_len, response,
                               Head(fo).from_st, Head(fo).from_len),
                       response, Tail(fo))

----------------------------------------------------------------------------
(* generate_loss_information.  A timing is [offset, length, was_lost], the *)
(* std::map in key order.                                                  *)

RECURSIVE SplitLoss(_, _, _, _, _)

\* mutant: every piece of the loss starts at loss_pos
SplitLossFromLossPos(fo, i, loss_pos, rem_loss, offset) ==
  IF rem_loss <= 0 \/ i > Len(fo) THEN [holes |-> <<>>, overrun |-> i > Len(fo) /\ rem_loss > 0]
  ELSE LET f      == fo[i]
           actual == Smaller(rem_loss, f.from_st + f.from_len - loss_pos)
           out    == offset + f.to_st + loss_pos - f.from_st
       IN  [holes |-> <<<<out, out + actual - 1>>>>, overrun |-> FALSE]

\* mutant: the hole is placed at the start of the range, not at the
\* loss's offset inside it
SplitLossAtRangeStart(fo, i, loss_pos, rem_loss, offset) ==
  IF rem_loss <= 0 \/ i > Len(fo) THEN [holes |-> <<>>, overrun |-> i > Len(fo) /\ rem_loss > 0]
  ELSE LET f      == fo[i]
           start  == IF loss_pos > f.from_st THEN loss_pos ELSE f.from_st
           actual == Smaller(rem_loss, f.from_st + f.from_len - start)
           out    == offset + f.to_st
       IN  [holes |-> <<<<out, out + actual - 1>>>>
                        \o SplitLoss(fo, i + 1, loss_pos, rem_loss - actual, offset).holes,
            overrun |-> FALSE]

\* the inner while loop from frame range i on: one hole per range the loss
\* reaches; a loss past the last range dereferences frames_order.end()
SplitLoss(fo, i, loss_pos, rem_loss, offset) ==
  IF rem_loss <= 0 THEN [holes |-> <<>>, overrun |-> FALSE]
  ELSE IF i > Len(fo) THEN [holes |-> <<>>, overrun |-> TRUE]
  ELSE LET f      == fo[i]
           start  == IF loss_pos > f.from_st THEN loss_pos ELSE f.from_st
           actual == Smaller(rem_loss, f.from_st + f.from_len - start)
           out    == offset + f.to_st + start - f.from_st
           rest   == SplitLoss(fo, i + 1, loss_pos, rem_loss - actual, offset)
       IN  [rest EXCEPT !.holes = <<<<out, out + actual - 1>>>> \o @]

\* the first range of the request that contains loss_pos, 0 if none
ContainingRange(fo, loss_pos) ==
  LET c == {i \in DOMAIN fo : fo[i].from_st <= loss_pos
                              /\ loss_pos < fo[i].from_st + fo[i].from_len}
  IN  IF c = {} THEN 0 ELSE CHOOSE i \in c : \A j \in c : i <= j

RECURSIVE LossWalk(_, _, _, _)
LossWalk(timings, first, offset, fo) ==
  IF timings = <<>> THEN [holes |-> <<>>, size |-> 0, overrun |-> FALSE]
  ELSE LET t    == Head(timings)
           rest == LossWalk(Tail(timings), first, offset, fo)
           i    == ContainingRange(fo, t.offset - first)
           s    == SplitLoss(fo, i, t.offset - first, t.length, offset)
       IN  IF ~t.was_lost THEN rest
           ELSE [holes   |-> (IF i = 0 THEN <<>> ELSE s.holes) \o rest.holes,
                 size    |-> t.length + rest.size,
                 overrun |-> (i # 0 /\ s.overrun) \/ rest.overrun]

GenerateLossInformation(timings, offset, fo) ==
  LossWalk(timings, Head(timings).offset, offset, fo)

----------------------------------------------------------------------------
(* What the transport returns: the frames over the first `len' bytes of    *)
(* the request, each received or lost.                                     *)

RECURSIVE Chunkings(_)
Chunkings(n) ==
  IF n = 0 THEN {<<>>}
  ELSE UNION {{<<[length |-> l, was_lost |-> b]>> \o c : c \in Chunkings(n - l)} :
                l \in 1 .. Smaller(MaxFrameLen, n), b \in BOOLEAN}

RECURSIVE Place(_, _)
Place(chunks, at) ==
  IF chunks = <<>> THEN <<>>
  ELSE <<[offset |-> at, length |-> Head(chunks).length,
          was_lost |-> Head(chunks).was_lost]>> \o Place(Tail(chunks), at + Head(chunks).length)

\* every delivery of a request for `size' bytes: a prefix of the response
Deliveries(size) == UNION {{Place(c, 0) : c \in Chunkings(r)} : r \in 0 .. size}

RECURSIVE ReceivedSize(_)
ReceivedSize(timings) ==
  IF timings = <<>> THEN 0
  ELSE (IF Head(timings).was_lost THEN 0 ELSE Head(timings).length)
         + ReceivedSize(Tail(timings))

BodyLength(timings) ==
  IF timings = <<>> THEN 0 ELSE timings[Len(timings)].offset + timings[Len(timings)].length

\* the absolute file offsets the request's bytes come from, in order: the
\* server's OnResponseBackendComplete appends body.substr(st, en - st) for
\* each multibytes= range st-last, en = last + 1, in the order requested
RECURSIVE RangeBytes(_)
RangeBytes(ranges) ==
  IF ranges = <<>> THEN <<>>
  ELSE [k \in 1 .. Head(ranges)[2] - Head(ranges)[1] + 1 |-> Head(ranges)[1] + k - 1]
         \o RangeBytes(Tail(ranges))

\* the response body: the true bytes of received frames, Junk elsewhere
ResponseBody(ranges, timings) ==
  [k \in 1 .. BodyLength(timings) |->
     IF \E t \in {timings[j] : j \in DOMAIN timings} :
          t.was_lost /\ t.offset < k /\ k <= t.offset + t.length
     THEN Junk ELSE Byte(RangeBytes(ranges)[k] - SegmentStart)]

\* mutant: the short response is not padded
ResizeNever(s, n) == s

\* response_body.resize(n): padded with '\0'
Resize(s, n) == IF Len(s) >= n THEN s ELSE s \o [k \in 1 .. n - Len(s) |-> Junk]

\* the synthetic tail frame for the bytes never delivered; its key is past
\* every frame's, so the emplace always inserts it
WithTail(timings, size) ==
  LET pre == BodyLength(timings)
  IN  IF size - pre > 0
      THEN timings \o <<[offset |-> pre, length |-> size - pre, was_lost |-> TRUE]>>
      ELSE timings

----------------------------------------------------------------------------
(* The accounting after a request over `ranges' of `size' bytes delivered  *)
(* `timings': holes and loss size if anything is missing, else cleared.   *)
Account(ranges, size, timings) ==
  LET info == GenerateLossInformation(WithTail(timings, size), SegmentStart,
                                      AppendFrameOrder(ranges, SegmentStart))
  IN  IF size - ReceivedSize(timings) > 0
      THEN /\ hole_range' = info.holes
           /\ loss_size' = info.size
           /\ overrun' = info.overrun
      ELSE /\ hole_range' = <<>>
           /\ loss_size' = 0
           /\ UNCHANGED overrun

\* main 1319-1353: the required unreliable response is padded to
\* required_reliable_size (`full') if short, spliced, and its losses
\* become the hole list
ReceiveRequired(ranges, size, full) ==
  /\ loss_stage = "request"
  /\ \E timings \in Deliveries(size) :
       LET resp == ResponseBody(ranges, timings)
       IN  /\ segment_body' = FillSegmentBody(segment_body,
                                IF Len(resp) < size THEN Resize(resp, full) ELSE resp,
                                AppendFrameOrder(ranges, SegmentStart))
           /\ Account(ranges, size, timings)
  /\ loss_stage' = "holes"

\* fill_holes 401-458: one deadline request for the holes, padded to
\* loss_size, spliced, and the losses of this round become the new holes
FillRound ==
  /\ loss_stage = "holes"
  /\ hole_range # <<>>
  /\ \E timings \in Deliveries(loss_size) :
       /\ segment_body' = FillSegmentBody(segment_body,
                             Resize(ResponseBody(hole_range, timings), loss_size),
                             AppendFrameOrder(hole_range, SegmentStart))
       /\ Account(hole_range, loss_size, timings)
  /\ UNCHANGED loss_stage

\* fill_holes 401 and 466: the loop ends (holes drained, or the remaining
\* pause is spent) and hole_range is cleared
EndFill ==
  /\ loss_stage = "holes"
  /\ hole_range' = <<>>
  /\ loss_stage' = "done"
  /\ UNCHANGED <<segment_body, loss_size, overrun>>

=============================================================================
