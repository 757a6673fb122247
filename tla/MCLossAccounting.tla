-------------------------- MODULE MCLossAccounting --------------------------
(***************************************************************************)
(* LossAccounting for one segment of 8 bytes at file offset 100 whose      *)
(* unreliable frames are the ranges 102-103, 105 and 107; the BPP plan     *)
(* asks for the first two or all three (get_subrange).  The transport     *)
(* reports frames of one or two bytes, each received or lost, and may cut *)
(* the response short.  Hole-fill rounds are bounded by MaxRounds, the    *)
(* remaining pause of fill_holes, which may also end the loop earlier.    *)
(***************************************************************************)
EXTENDS LossAccounting, FiniteSets, TLC

CONSTANTS
  UnrelFrames,      \* the segment's unreliable_frames
  RequiredCounts,   \* values of ssim_q.required_frames
  MaxRounds         \* hole-fill rounds the remaining pause allows

VARIABLES
  required,         \* required_unreliable_frames
  rounds            \* hole-fill rounds so far

vars == <<loss_vars, required, rounds>>

MCUnrelFrames == <<<<102, 103>>, <<105, 105>>, <<107, 107>>>>

\* segment offsets of a range list
Positions(ranges) ==
  UNION {{p - SegmentStart : p \in ranges[i][1] .. ranges[i][2]} : i \in DOMAIN ranges}

RequestSize(ranges) == Len(RangeBytes(ranges))

\* offsets whose byte is not the true one
Missing == {p \in 0 .. SegmentSize - 1 : segment_body[p + 1] # Byte(p)}

Init ==
  /\ \E c \in RequiredCounts : required = GetSubrange(UnrelFrames, c)
  /\ segment_body = [k \in 1 .. SegmentSize |->
                       IF k - 1 \in Positions(UnrelFrames) THEN Junk ELSE Byte(k - 1)]
  /\ hole_range = <<>>
  /\ loss_size = 0
  /\ loss_stage = "request"
  /\ overrun = FALSE
  /\ rounds = 0

Next ==
  \/ /\ ReceiveRequired(required, RequestSize(required), SegmentSize)
     /\ UNCHANGED <<required, rounds>>
  \/ /\ rounds < MaxRounds
     /\ FillRound
     /\ rounds' = rounds + 1
     /\ UNCHANGED required
  \/ /\ EndFill
     /\ UNCHANGED <<required, rounds>>
  \/ /\ loss_stage = "done"
     /\ UNCHANGED vars

Spec == Init /\ [][Next]_vars

----------------------------------------------------------------------------
TypeOK ==
  /\ segment_body \in [1 .. SegmentSize -> Nat]
  /\ loss_size \in Nat
  /\ loss_stage \in {"request", "holes", "done"}
  /\ rounds \in 0 .. MaxRounds

\* After the required unreliable request and after every hole-fill round,
\* hole_range names exactly the bytes of the request that are still wrong
\* in segment_body, loss_size is their number, and the walk of
\* generate_loss_information never stepped past the last frame range
\* (quic_simple_client_bin.cc 364-385): the lost frames, mapped through
\* append_frame_order and split at range boundaries, are the holes.
HolesAreMissing ==
  loss_stage = "holes" =>
    /\ Positions(hole_range) = Missing \cap Positions(required)
    /\ loss_size = Cardinality(Missing \cap Positions(required))
    /\ ~overrun

\* The splice of every response (fill_segment_body with the frame order
\* of its range list) writes only the bytes the request asked for and
\* never damages a byte that was already right: the model implements
\* BodyRepair with the set of wrong bytes as `missing'.
Repair == INSTANCE BodyRepair WITH
  Initial <- Positions(UnrelFrames),
  wanted  <- Positions(required),
  missing <- Missing,
  phase   <- loss_stage

RepairRefined == Repair!RepairSpec

=============================================================================
