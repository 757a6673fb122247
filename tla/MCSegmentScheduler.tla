------------------------- MODULE MCSegmentScheduler -------------------------
(***************************************************************************)
(* SegmentScheduler for TLC.  Bitrates and average SSIMs are those of      *)
(* MCBolaAbr (alpha = -4, vp = 1, gp = 16).  The manifest has three        *)
(* unreliable frame ranges per segment; its sizes are small so that a      *)
(* request takes a few time units.                                         *)
(***************************************************************************)
EXTENDS SegmentScheduler, TLC

MCBitrates == <<8, 16, 32>>
MCAvgSsim == <<8, 12, 16>>

E(size, rel, q, frames) ==
  [size |-> size, reliable_size |-> rel, quality |-> q,
   required_frames |-> frames]

\* three unreliable frame ranges per quality; each quality has a one-range
\* and a full entry.  Quality 1 has a one-byte reliable part, so that a
\* retry at quality 1 outlasts a buffer of one time unit
MCSchedMap ==
  (2 :> E(2, 1, 0, 1)) @@ (8 :> E(4, 1, 0, 3)) @@ (10 :> E(4, 1, 1, 1))
  @@ (12 :> E(8, 1, 1, 3)) @@ (15 :> E(8, 4, 2, 1)) @@ (18 :> E(16, 4, 2, 3))

MCSsimMaps == {MCSchedMap}

\* an all-zero stack slot, and one whose required_frames exceeds the ranges
MCUninitSsim == {E(0, 0, 0, 0), E(0, 0, 0, 5)}

----------------------------------------------------------------------------
TypeOK ==
  /\ buffer_level \in Int
  /\ last_quality \in Qualities \cup {-1}
  /\ segment \in 1 .. NumSegments
  /\ retry \in 0 .. MaxRetries
  /\ stage \in Stages
  /\ seg_map \in SsimMaps
  /\ bpp_ssim \in {0} \cup DOMAIN seg_map
  /\ dl.received + dl.lost <= dl.bytes
  /\ dl.policy \in {"none", "bpp", "deadline"}
  /\ fill.used \in Nat
  /\ exit_code \in {0, 1, -4}

\* Every run of the loop ends: each segment is eventually committed, through
\* any number of abandoned attempts, hole fills and optional fetches, unless
\* the process exits.  Retries end because BPPShouldAbandon only cancels for
\* a strictly lower quality or keeps what it has.
AllSegmentsPlayed == <>(stage = "end")
\* The optional frames are fetched only once every required byte is in:
\* the slack test before the optional fetch (1357) passes only if the hole
\* fill before it (the slack test at 1343, fill_holes' loop condition on
\* its remaining pause and the caller's SetBuffer at 1345) ended because
\* the holes were drained, never because the budget ran out.
OptionalOnlyAfterRepair ==
  [][(stage' = "optional" /\ stage # "optional") =>
       \/ stage = "rel"
       \/ stage = "unrel" /\ dl.received >= plan.unrel
       \/ stage = "holes" /\ dl.received >= fill.loss_size]_vars

\* A hole-fill or optional request cut by its deadline is the last request
\* of the segment: the deadline rule cancels once buffer_occ - time <=
\* kSafetyMargin (quic_client_base.cc 222, 371), the stream then takes any
\* time to close, and fill_holes (456-458) takes the whole measured time off
\* remaining_pause, so neither its loop condition nor the caller's slack
\* test before the optional fetch (1357) lets another request start,
\* however late the cancelled stream closes.
CancelEndsFill ==
  [][(stage \in {"holes", "optional"} /\ ~dl.running /\ dl.policy = "deadline"
        /\ ~Finished(dl))
       => stage' \notin {"holes", "optional"}]_vars

(***************************************************************************)
(* The abandonment rule as spec section 4.5 states it: remaining_buffer =  *)
(* buffer_occ - elapsed, a signed quantity, and BolaE scores the entries   *)
(* of the current quality by their remaining cost (spec section 4.2.2:     *)
(* the reliable part subtracted on the unreliable half, then the bytes     *)
(* downloaded, floored at 1).                                              *)
(***************************************************************************)
SpecInProgressMap(m, p) ==
  [k \in DOMAIN m |->
     IF m[k].quality = p.quality
     THEN LET part == IF p.reliable THEN m[k].size
                      ELSE m[k].size - m[k].reliable_size
          IN  [m[k] EXCEPT !.size = IF p.received >= part THEN 1
                                    ELSE part - p.received]
     ELSE m[k]]

SpecBolaEInProgress(level, tp, m, p) ==
  ChooseSsim(level, 1, SpecInProgressMap(m, p),
             <<ibr_safety[1] * tp[1], ibr_safety[2] * tp[2]>>)

\* the check of a request after the chunk of this Tick, before its outcome
BppChecked == dl.running /\ dl.policy = "bpp" /\ ~Finished(dl') /\ dl'.elapsed = dl.elapsed + 1
Checked(r) == [r EXCEPT !.running = TRUE, !.kept = FALSE, !.ret_ssim = dl.ret_ssim]

\* BPPShouldAbandon once BolaE is consulted, with a signed remaining buffer
ConsultsBolaE(r, rb) ==
  /\ r.elapsed > kGraceTime /\ r.received < r.size
  /\ r.tp # 0
  /\ ~((r.size - r.received) * 8 < r.tp * rb)
  /\ r.quality > 0

\* A BPP download keeps running only while the rule of spec section 4.5,
\* with remaining_buffer = buffer_occ - elapsed, does not cancel it: a
\* download that has run past the buffer (the player is rebuffering) is
\* re-evaluated like any other (BPPShouldAbandon, quic_client_base.cc 237).
BppRuleAsSpecified ==
  [][(BppChecked /\ dl'.running) =>
       LET r  == Checked(dl')
           rb == r.occ - r.elapsed
           s  == BolaEInProgress(rb, <<r.tp * 9, 10>>, seg_map, r)
       IN  ConsultsBolaE(r, rb) => seg_map[s].quality >= r.quality]_vars

\* Whenever BPP consults BolaE during a download, the entry it gets back is
\* the one BolaE picks when the entries of the current quality are valued
\* by their remaining cost, as spec section 4.2.2 says (bola.cc 208-237).
BppScoresRemainingCost ==
  [][(BppChecked /\ ConsultsBolaE(dl', RemainingBuffer(dl'.occ, dl'.elapsed))) =>
       dl'.ret_ssim = SpecBolaEInProgress(RemainingBuffer(dl'.occ, dl'.elapsed),
                                          <<dl'.tp * 9, 10>>, seg_map, dl')]_vars

\* The loop over a well-formed manifest never stops the process: none of
\* the fatal conditions of spec section 4.7 arises from the BPP plan of a
\* segment (get_subrange's exit(1), quic_simple_client_bin.cc 490).
NoFatalExit == exit_code = 0
=============================================================================
