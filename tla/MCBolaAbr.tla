----------------------------- MODULE MCBolaAbr -----------------------------
(***************************************************************************)
(* BolaAbr as the segment loop of quic_simple_client_bin.cc drives it when *)
(* no download is abandoned: segment 1 at quality 0 without a decision,    *)
(* then per segment one Dispatcher::GetQuality and the SetBuffer calls     *)
(* that take the download's wall-clock time out of the buffer.  With the   *)
(* bola_enhanced feature a poll of either half can abandon the download    *)
(* (EnhancedBolaShouldAbandon); the segment is then retried at the quality *)
(* the rule returned, without a decision.                                  *)
(***************************************************************************)
EXTENDS BolaAbandon, TLC

CONSTANTS
  NumSegments,      \* num_segments: segments 1 .. NumSegments - 1 are played
  DownloadTimes,    \* wall-clock time of one segment download, time units
  PollTimes,        \* elapsed time of a request when a poll abandons it
  Bandwidths,       \* measuredBandwidthInKbps a poll can compute
  SegSizes,         \* segments[i].size in bytes at each quality
  RelSizes          \* segments[i].rel_size in bytes at each quality

VARIABLES
  segment,          \* the loop index i
  phase,            \* "decide" before GetQuality, "download" after it
  ssim,             \* the key GetQuality returned (0.0 before the first)
  seg_map,          \* ssim_map[i - 1] of the last decision
  tput,             \* the throughput AddThroughput reported to it
  quality,          \* q, the quality of the attempt
  retry             \* retry, attempts of the segment abandoned so far

vars == <<bola_vars, segment, phase, ssim, seg_map, tput, quality, retry>>

NoMap == [k \in {} |-> 0]

Init ==
  /\ BolaInit
  /\ segment = 1
  /\ phase = "download"
  /\ ssim = 0
  /\ seg_map = NoMap
  /\ tput = 0
  /\ quality = 0
  /\ retry = 0

\* quic_simple_client_bin.cc 1159-1168: GetQuality with the segment's map,
\* q = ssim_map[i - 1].at(ssim).quality
Decide ==
  /\ phase = "decide"
  /\ \E tp \in Throughputs, m \in SsimMaps :
       /\ GetQuality(tp, m, ssim)
       /\ seg_map' = m
       /\ tput' = tp
       /\ quality' = IF exit_code' = 0 THEN m[ssim'].quality ELSE quality
  /\ phase' = "download"
  /\ UNCHANGED <<segment, retry>>

\* quic_simple_client_bin.cc 1258 and 1305: both halves of the segment are
\* downloaded and their time is taken out of the buffer; the segment commits
Download ==
  /\ phase = "download"
  /\ exit_code = 0
  /\ segment < NumSegments
  /\ \E t \in DownloadTimes : SetBuffer(buffer_level - t)
  /\ segment' = segment + 1
  /\ phase' = "decide"
  /\ retry' = 0
  /\ UNCHANGED <<ssim, seg_map, tput, quality>>

\* bytes requested by the reliable and the unreliable half at quality q
Requested(half, q) ==
  IF half = "reliable" THEN RelSizes[q + 1] ELSE SegSizes[q + 1] - RelSizes[q + 1]

(***************************************************************************)
(* quic_simple_client_bin.cc 1233-1267 and 1281-1316: a poll of the        *)
(* reliable half, or of the unreliable half after the reliable one took    *)
(* trel, abandons the request.  The DownloadConfig has size = the whole    *)
(* segment for the reliable half and unrel_size for the other, buffer_occ  *)
(* = GetBuffer() when it was sent.  The elapsed time leaves the buffer and *)
(* the segment is retried at ret__quality (bola_quality) with ret__pause,  *)
(* which BolaE in progress leaves 0; a retry skips GetQuality.             *)
(***************************************************************************)
Abandon ==
  /\ phase = "download"
  /\ exit_code = 0
  /\ segment < NumSegments
  /\ \E half \in {"reliable", "unreliable"}, trel \in DownloadTimes,
        time \in PollTimes, tp \in Bandwidths :
       LET occ == IF half = "reliable" THEN buffer_level ELSE buffer_level - trel
           received == (tp * time) \div 8
           dc == [size |-> IF half = "reliable" THEN SegSizes[quality + 1]
                           ELSE Requested(half, quality),
                  quality |-> quality, buffer_occ |-> occ, ret_quality |-> 0,
                  sizes |-> [q \in Qualities |-> SegSizes[q + 1]]]
       IN  /\ received < Requested(half, quality)
           /\ \E r \in EnhancedBolaShouldAbandon(received, time, dc, tp) :
                /\ r.abandon
                /\ quality' = r.ret_quality
           /\ SetBuffer(occ - time)
  /\ retry' = retry + 1
  /\ UNCHANGED <<segment, phase, ssim, seg_map, tput>>

\* the loop ends after segment NumSegments - 1, or the process exited
Done ==
  /\ segment = NumSegments \/ exit_code # 0
  /\ UNCHANGED vars

Next == Decide \/ Download \/ Abandon \/ Done

Spec == Init /\ [][Next]_vars

TypeOK ==
  /\ buffer_level \in Int
  /\ last_quality \in {-1} \cup Qualities
  /\ placeholder \in Nat
  /\ ibr_safety \in (Nat \ {0}) \X (Nat \ {0})
  /\ pause \in Nat
  /\ exit_code \in {0, 1, -4}
  /\ segment \in 1 .. NumSegments
  /\ phase \in {"decide", "download"}
  /\ ssim \in Nat
  /\ quality \in Qualities
  /\ retry \in Nat

\* A BolaE decision leaves room for the next segment: the overrun rule of
\* BolaE and PostUpdate together keep buffer_level_ <= buffer_size_ - D, so
\* committing the segment never overfills the playback buffer.
BufferNeverOverfull == buffer_level <= B - D

\* A pause (from shrinking the placeholder or from the overrun rule) never
\* drains the buffer below kBufferLow, even when the insufficient-buffer
\* rule moved the decision to an entry whose zero-score level is lower.
PauseKeepsLowWatermark ==
  [][phase = "decide" /\ phase' = "download" /\ pause' > 0
       => buffer_level' >= Min2(kBufferLow, B - D)]_vars

\* Every abandonment retries the segment at a strictly lower quality, so a
\* segment is retried at most NQ - 1 times: the recommended quality's whole
\* segment must be smaller than the bytes the abandoned request still
\* lacks, on the reliable half (sized as the whole segment) and on the
\* unreliable half alike (quic_client_base.cc 315-318).
RetriesBounded == quality + retry <= NQ - 1

\* A decision step of the loop that did not stop the process
Decision == phase = "decide" /\ phase' = "download" /\ exit_code' = 0

\* Spec section 8, insufficient-buffer rule: when some entry of the
\* segment's ssim map fits the safe download size, the entry BolaE returns
\* (bola.cc 365-381, which only walks below the score-best key) fits too.
IbrRespected ==
  [][Decision /\ last_quality # -1 =>
       LET safe == SafeDownloadSizeBytes(Min2(PreUpdate, B - D), tput',
                                         ibr_safety)
       IN  (\E k \in DOMAIN seg_map' : seg_map'[k].size <= safe)
             => seg_map'[ssim'].size <= safe]_vars

\* Spec section 4.2.1 and 6: plain BOLA (--abr=bola without bola_enhanced)
\* decides from the bitrates alone; exit code 1 is reserved for bad
\* arguments, a 404 and manifest errors.  The loop passes it an empty ssim
\* map (quic_simple_client_bin.cc 1165).
NoExitOnDecision == exit_code # 1

(***************************************************************************)
(* Model values.  Time unit 500 ms: D = 4 s, B = 20 s.  Bitrates 8/16/32   *)
(* bits per time unit make full segments of 8/16/32 bytes; the average    *)
(* SSIMs 8/12/16 give alpha = -4, vp = 1, gp = 16, zero-score levels 24,  *)
(* 28, 32 for the averages and below kBufferLow = 20 for keys under 4.     *)
(***************************************************************************)
MCBitrates == <<8, 16, 32>>
MCAvgSsim == <<8, 12, 16>>
MCThroughputs == {2, 12, 24, 40}
MCDownloadTimes == {1, 6, 12}
MCPollTimes == {2, 4}
MCBandwidths == {0, 4, 16}
\* whole segments of Rate(q) * D / 8 bytes, a quarter of them reliable
MCSegSizes == <<8, 16, 32>>
MCRelSizes == <<2, 4, 8>>

E(size, rel, q, frames) ==
  [size |-> size, reliable_size |-> rel, quality |-> q,
   required_frames |-> frames]

\* keys rise with quality; partial downloads of a quality score lower
MCMapOrdered ==
  (2 :> E(5, 2, 0, 1)) @@ (8 :> E(8, 2, 0, 3)) @@ (10 :> E(12, 4, 1, 1))
  @@ (12 :> E(16, 4, 1, 3)) @@ (15 :> E(26, 8, 2, 1)) @@ (18 :> E(32, 8, 2, 3))

\* a partial quality-1 download scores below the full quality-0 one
MCMapInterleaved ==
  (3 :> E(10, 4, 1, 1)) @@ (6 :> E(7, 2, 0, 2)) @@ (8 :> E(8, 2, 0, 3))
  @@ (13 :> E(16, 4, 1, 3)) @@ (14 :> E(24, 8, 2, 1)) @@ (16 :> E(32, 8, 2, 3))

MCSsimMaps == {MCMapOrdered, MCMapInterleaved}

\* no partial quality-0 entry; the partial quality-1 entry is the lowest key
\* yet bigger than the full quality-0 one
MCMapSkewed ==
  (10 :> E(10, 4, 1, 1)) @@ (11 :> E(8, 2, 0, 3)) @@ (13 :> E(16, 4, 1, 3))
  @@ (16 :> E(32, 8, 2, 3))

MCIbrSsimMaps == {MCMapOrdered, MCMapSkewed}
MCIbrThroughputs == {6, 24}

\* what the loop passes for --abr=bola without the bola_enhanced feature
MCPlainBolaMaps == {NoMap}
=============================================================================
