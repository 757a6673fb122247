----------------------------- MODULE BolaAbandon -----------------------------
(***************************************************************************)
(* The BOLA abandonment rule of quic_client_base.cc that the loop reaches  *)
(* with --abr=bola and the bola_enhanced feature: EnhancedBolaShouldAbandon *)
(* (lines 294-323), run by WaitForEvents every >= 50 ms while a request is  *)
(* in flight, and the constants it shares with BPPShouldAbandon.  It calls  *)
(* the vector form of BolaE (bola.cc 170-201) in progress, which builds one *)
(* ssim map entry per quality from the segment's sizes.                    *)
(*                                                                         *)
(* bola_shouldAbandon (plain BOLA, lines 191-221) is not reached: plain    *)
(* BOLA exits at its first decision and segment 1 is fetched at quality 0, *)
(* for which the rule returns before BolaE.                                *)
(***************************************************************************)
EXTENDS BolaAbr

\* quic_client_base.cc 186-189, in time units
kAbandonMultiplier == <<18, 10>>             \* ABANDON_MULTIPLIER = 1.8
kGraceTime == 500 \div TimeUnit              \* GRACE_TIME_THRESHOLD
kBandwidthSafetyFactor == <<9, 10>>

ASSUME \A p, q \in Qualities : p # q => Util(p) # Util(q)

\* bola.h 23: the progress BolaE gets from the monitor; quality -1 matches
\* no entry, so InProgressMap adjusts nothing
kInProgress == [in_progress |-> TRUE, quality |-> -1, ssim |-> 0, size |-> 0,
                downloaded |-> 0, reliable |-> TRUE]

\* bola.cc 175-195: the entry of quality q is keyed by utilities_[q] and
\* sized sizes_bits[q] / 8.  Its reliable_size is left unset by the code and
\* is only read for the in-progress quality, which kInProgress never names.
FillSsimMap(sizes) ==
  [k \in {Util(q) : q \in Qualities} |->
     LET q == CHOOSE p \in Qualities : Util(p) = k
     IN  [size |-> sizes[q], reliable_size |-> 0, quality |-> q,
          required_frames |-> 100]]

\* BolaE(level, tp, sizes_bits, pause, 0, kInProgress): the quality of the
\* entry the map form returns (bola.cc 198-200)
BolaEVector(level, tp, sizes) ==
  LET m == FillSsimMap(sizes)
  IN  m[BolaEInProgress(level, tp, m, kInProgress)].quality

\* the qualities a build can return for a negative level: BolaEVector is
\* the negative safe size saturated to 0 (ARM64), every size above it; the
\* x86-64 conversion wraps it to 2^64 + v, every size fits and the walk
\* keeps the score-best entry (bola.cc 370-374)
BolaEVectorOutcomes(level, tp, sizes) ==
  LET m == FillSsimMap(sizes)
  IN  {BolaEVector(level, tp, sizes)}
        \cup (IF level >= 0 THEN {}
              ELSE {m[QualityFromBufferLevel(level + placeholder, m, last_quality)].quality})

\* QualityFromBufferLevel compares scores (A - level) / S pairwise, with
\* |A| <= vp * (Util(NQ - 1) + favor_ssim_penalty + |gp|) and S <= 8 * the
\* largest size; two scores cross at one level at most, below 2 * |A| * S.
\* From FarLevel on the choice is fixed and the safe size is capped at
\* B - D, so a wrapped level is evaluated there (TLC stops at 2^31).
FarLevel(sizes) ==
  LET a == vp * (Util(NQ - 1) + favor_ssim_penalty + Max2(gp, -gp))
      s == 8 * (CHOOSE x \in {sizes[q] : q \in Qualities} : \A y \in {sizes[q] : q \in Qualities} : y <= x)
  IN  2 * a * s + B + Max2(placeholder, -placeholder)

\* dc->buffer_occ - time (quic_client_base.cc 315): buffer_occ takes
\* GetBuffer()'s int, but DownloadConfig is declared outside this tree; a
\* signed field gives a negative level, an unsigned one wraps (2^32 ms here,
\* a 64-bit one as far above every threshold)
UInt32Range == 4 * ((2^30) \div TimeUnit)
AbandonLevels(occ, time) ==
  IF occ >= time THEN {occ - time} ELSE {occ - time, occ - time + UInt32Range}

(***************************************************************************)
(* One poll of EnhancedBolaShouldAbandon.  received and time (elapsed time *)
(* units) are the stream's, tp is measuredBandwidthInKbps, the rounded     *)
(* mean of the samples received * 8 / time of this request.  dc holds the  *)
(* DownloadConfig fields read: size, quality, buffer_occ, the segment's    *)
(* sizes at every quality, and the ret__quality written (ret_quality).    *)
(* The rule needs at least MIN_LENGTH_TO_AVERAGE samples; a poll with      *)
(* fewer is one that does not abandon.  The result is the set of outcomes  *)
(* the build can produce (AbandonLevels, BolaEVectorOutcomes).             *)
(***************************************************************************)
\* Mutant: the download is abandoned whenever BolaE is consulted, without
\* comparing the bytes left with the recommended quality's segment
EnhancedBolaShouldAbandonNoSizeTest(received, time, dc, tp) ==
  IF \/ ~(time > kGraceTime /\ received < dc.size)
     \/ dc.size * 8 * kAbandonMultiplier[2] < D * kAbandonMultiplier[1] * tp
     \/ dc.quality = 0
  THEN {[abandon |-> FALSE, ret_quality |-> dc.ret_quality]}
  ELSE {[abandon |-> TRUE, ret_quality |-> rq] :
          rq \in UNION {BolaEVectorOutcomes(lvl, <<tp * kBandwidthSafetyFactor[1],
                                                 kBandwidthSafetyFactor[2]>>, dc.sizes) :
                        lvl \in {Min2(l, FarLevel(dc.sizes)) :
                                  l \in AbandonLevels(dc.buffer_occ, time)}}}

EnhancedBolaShouldAbandon(received, time, dc, tp) ==
  IF \/ ~(time > kGraceTime /\ received < dc.size)
     \* estimatedTimeOfDownload = size * 8 / tp < segment_duration * 1.8
     \/ dc.size * 8 * kAbandonMultiplier[2] < D * kAbandonMultiplier[1] * tp
     \/ dc.quality = 0
  THEN {[abandon |-> FALSE, ret_quality |-> dc.ret_quality]}
  ELSE {[abandon |-> dc.size - received > dc.sizes[rq], ret_quality |-> rq] :
          rq \in UNION {BolaEVectorOutcomes(lvl, <<tp * kBandwidthSafetyFactor[1],
                                                 kBandwidthSafetyFactor[2]>>, dc.sizes) :
                        lvl \in {Min2(l, FarLevel(dc.sizes)) :
                                  l \in AbandonLevels(dc.buffer_occ, time)}}}
=============================================================================
