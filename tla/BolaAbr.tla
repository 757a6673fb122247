------------------------------ MODULE BolaAbr ------------------------------
(***************************************************************************)
(* The BOLA-E adaptive-bitrate controller of src/net/tools/quic/bola.cc,   *)
(* driven through Dispatcher::GetQuality / SetBuffer (abr.cc).             *)
(*                                                                         *)
(* State: the virtual playback buffer, the last chosen quality, the        *)
(* placeholder buffer, the insufficient-buffer-rule safety factor and the  *)
(* pause returned to the segment loop.                                     *)
(*                                                                         *)
(* Units.  Time is counted in model time units of TimeUnit milliseconds;   *)
(* the code's millisecond constants are divided by TimeUnit.  Throughput   *)
(* and bitrates are in bits per time unit, sizes in bytes (the code's      *)
(* kbps = bits/ms, scaled).  Utilities (average SSIMs and SSIM-map keys)   *)
(* are scaled integers; BOLA is invariant under shifting all utilities by  *)
(* a constant, so only their differences matter.  Doubles are replaced by  *)
(* exact rationals where the code divides (scores, the safety factor).     *)
(***************************************************************************)
EXTENDS Integers, Sequences, FiniteSets

CONSTANTS
  TimeUnit,         \* milliseconds per model time unit
  SegmentDuration,  \* segment_duration_, in time units
  BufferSize,       \* buffer_size_ (--abr_buf), in time units
  Bitrates,         \* bitrates_, ascending, bits per time unit
  AvgSsim,          \* average_ssim_ = utilities_, one per quality
  Throughputs,      \* values the throughput estimator may report
  SsimMaps          \* the per-segment ssim maps the manifest may give

VARIABLES
  buffer_level,     \* BolaAbr::buffer_level_
  last_quality,     \* BolaAbr::last_quality_ (-1 = uninitialised)
  placeholder,      \* BolaAbr::placeholder_
  ibr_safety,       \* BolaAbr::ibr_safety_factor_ as <<num, den>>
  pause,            \* BolaAbr::pause, the pause of the last decision
  exit_code         \* argument of exit() once the process stopped, else 0

bola_vars == <<buffer_level, last_quality, placeholder, ibr_safety, pause,
               exit_code>>

D == SegmentDuration
B == BufferSize
NQ == Len(Bitrates)
Qualities == 0 .. NQ - 1
Rate(q) == Bitrates[q + 1]
Util(q) == AvgSsim[q + 1]

\* static constexpr members of BolaAbr (bola.h), in time units
kBufferLow == 10000 \div TimeUnit
kMinThreshold == 2000 \div TimeUnit
kSafetyFactor == <<9, 10>>
kIbrSafetyFactor == <<1, 2>>
\* PreUpdate exits with -4 on a rebuffer of more than 100 s
kMaxRebuffer == 100000 \div TimeUnit

Entry == [size : Nat \ {0}, reliable_size : Nat, quality : Qualities,
          required_frames : Nat]

ASSUME /\ TimeUnit \in Nat \ {0}
       /\ D \in Nat \ {0} /\ B \in Nat /\ B > D
       /\ NQ >= 2
       /\ \A q \in 1 .. NQ - 1 : Rate(q - 1) < Rate(q)
       /\ Throughputs \subseteq Nat \ {0}
       /\ \A m \in SsimMaps : /\ DOMAIN m \subseteq Nat \ {0}
                              /\ \A k \in DOMAIN m : m[k] \in Entry

Min2(a, b) == IF a < b THEN a ELSE b
Max2(a, b) == IF a > b THEN a ELSE b
LessQ(r, s) == r[1] * s[2] < s[1] * r[2]     \* r < s for <<num, den>>, den > 0

(***************************************************************************)
(* The constructor: alpha, buffer_target, vp_ and gp_ (bola.cc 56-70).      *)
(* The model's constants are chosen so that every division is exact.       *)
(***************************************************************************)
alpha == (Rate(0) * Util(1) - Rate(1) * Util(0)) \div (Rate(1) - Rate(0))
buffer_target ==
  LET minimum_target == kBufferLow + kMinThreshold * NQ
  IN  Max2(B - D, minimum_target)
vp == (buffer_target - kBufferLow) \div (Util(NQ - 1) + alpha)
gp == (Util(NQ - 1) * kBufferLow + alpha * buffer_target)
        \div (buffer_target - kBufferLow)

ASSUME /\ (Rate(0) * Util(1) - Rate(1) * Util(0)) % (Rate(1) - Rate(0)) = 0
       /\ (buffer_target - kBufferLow) % (Util(NQ - 1) + alpha) = 0
       /\ (Util(NQ - 1) * kBufferLow + alpha * buffer_target)
            % (buffer_target - kBufferLow) = 0

BufferLevelForZeroScore(utility) == vp * (utility + gp)

MinBufferLevelForQuality(quality) ==
  IF quality = 0 THEN 0
  ELSE LET a == (Rate(quality - 1) * Util(quality)
                   - Rate(quality) * Util(quality - 1))
                  \div (Rate(quality) - Rate(quality - 1))
       IN  vp * (gp - a)

\* Score(buffer_level, size_bits, util) as the fraction <<num, den>>
Score(level, size_bits, util) == <<vp * (util + gp) - level, size_bits>>

(***************************************************************************)
(* QualityFromBufferLevel (bola.cc 453-481): the lowest-keyed entry of      *)
(* maximal score, qualities below favor_quality penalised; best_ssim = 0   *)
(* doubles as "nothing chosen yet".                                        *)
(***************************************************************************)
favor_ssim_penalty == (Util(NQ - 1) - Util(0)) \div (NQ - 1)

\* the score of key k: qualities below favor_quality lose favor_ssim_penalty
EntryScore(level, m, favor, k) ==
  Score(level, m[k].size * 8,
        IF m[k].quality < favor THEN k - favor_ssim_penalty ELSE k)

\* The scan in ascending key order replaces its best only on a strictly
\* higher score: it ends on the lowest key whose score no key exceeds.
QualityFromBufferLevel(level, m, favor) ==
  IF DOMAIN m = {} THEN 0
  ELSE CHOOSE k \in DOMAIN m :
         \A j \in DOMAIN m :
           IF j < k THEN LessQ(EntryScore(level, m, favor, j),
                               EntryScore(level, m, favor, k))
           ELSE ~LessQ(EntryScore(level, m, favor, k),
                       EntryScore(level, m, favor, j))

\* QualityFromThroughput(throughput, empty_sizes) (bola.cc 483-499)
QualityFromThroughput(tp) ==
  IF \E i \in 1 .. NQ - 1 : Rate(i) * tp[2] > tp[1]
  THEN (CHOOSE i \in 1 .. NQ - 1 : /\ Rate(i) * tp[2] > tp[1]
                                   /\ \A j \in 1 .. i - 1 :
                                        Rate(j) * tp[2] <= tp[1]) - 1
  ELSE NQ - 1

\* SafeDownloadSizeBits(level, tp) / 8, truncated to size_t
SafeDownloadSizeBytes(level, tp, factor) ==
  (tp * factor[1] * level) \div (8 * factor[2])

(***************************************************************************)
(* The insufficient-buffer walk (bola.cc 371-381): from the chosen key s0  *)
(* downwards, the walk moves to every entry strictly smaller than all it   *)
(* has passed (the records), and stops at the first record within the safe *)
(* size, or at the lowest record once the map is exhausted.                *)
(***************************************************************************)
IbrRecords(m, s0) ==
  {k \in DOMAIN m : /\ k <= s0
                    /\ \A j \in DOMAIN m : k < j /\ j <= s0 => m[k].size < m[j].size}

IbrWalk(m, safe, s0) ==
  LET recs == IbrRecords(m, s0)
      fits == {k \in recs : m[k].size <= safe}
  IN  IF fits # {} THEN CHOOSE k \in fits : \A j \in fits : j <= k
      ELSE CHOOSE k \in recs : \A j \in recs : k <= j

\* ssim_map entries BolaE scores while a download is in progress.  The loop
\* of bola.cc 213-235 iterates "for (auto ssim_entry : ssim_map_copy)" and
\* so edits copies of the pairs: ssim_map_copy keeps every size of the map.
InProgressMap(m, progress) == m

(***************************************************************************)
(* The decision part of BolaE (bola.cc 293-381) once initialised: the      *)
(* entry it returns for buffer level bl and throughput tp.                 *)
(***************************************************************************)
ChooseSsim(bl, tp, m, factor) ==
  LET s0 == QualityFromBufferLevel(bl + placeholder, m, last_quality)
      safe == SafeDownloadSizeBytes(Min2(bl, B - D), tp, factor)
  IN  IbrWalk(m, safe, s0)

\* BolaE(..., progress) with progress.in_progress: no state is updated.
\* The throughput is a fraction <<num, den>>; it only enters the safe size,
\* so it is folded into the safety factor.
BolaEInProgress(level, tp, m, progress) ==
  ChooseSsim(level, 1, InProgressMap(m, progress),
             <<ibr_safety[1] * tp[1], ibr_safety[2] * tp[2]>>)

\* The initialisation branch of BolaE (bola.cc 247-275)
ibr_safety_factor_target ==
  LET t == <<D, B - D>>
  IN  IF LessQ(t, kIbrSafetyFactor) THEN kIbrSafetyFactor
      ELSE IF LessQ(kSafetyFactor, t) THEN kSafetyFactor ELSE t

InitialQuality(tp) == QualityFromThroughput(<<9 * tp, 10>>)

\* the highest key of quality q: the reverse search of bola.cc 268-272
HighestSsimOf(m, q) ==
  CHOOSE k \in DOMAIN m : /\ m[k].quality = q
                          /\ \A j \in DOMAIN m : m[j].quality = q => j <= k

\* ibr_safety_factor_ *= kSafetyFactor, floored at the target (385-388)
NextIbrSafety(f) ==
  LET g == <<f[1] * kSafetyFactor[1], f[2] * kSafetyFactor[2]>>
  IN  IF LessQ(g, ibr_safety_factor_target) THEN ibr_safety_factor_target
      ELSE g

(***************************************************************************)
(* Dispatcher::GetQuality(BolaAbr&) (abr.cc 47-58): PreUpdate, BolaE for   *)
(* a new download with the segment's ssim map, PostUpdate.  The returned   *)
(* key is stored in chosen.                                                *)
(***************************************************************************)
PreUpdate == (IF buffer_level < 0 THEN 0 ELSE buffer_level) + D

\* PreUpdate: a rebuffer of more than 100 s stops the process (exit(-4))
GetQualityRebufferExit ==
  /\ exit_code = 0
  /\ buffer_level < -kMaxRebuffer
  /\ exit_code' = -4
  /\ UNCHANGED <<buffer_level, last_quality, placeholder, ibr_safety, pause>>

\* The first decision: placeholder and last quality from the throughput,
\* then the highest key of that quality, or exit(1) if the map has none.
GetQualityInit(tp, m, chosen) ==
  LET q == InitialQuality(tp)
      found == \E k \in DOMAIN m : m[k].quality = q
  IN  /\ exit_code = 0
      /\ last_quality = -1
      /\ buffer_level >= -kMaxRebuffer
      /\ buffer_level' = PreUpdate
      /\ last_quality' = q
      /\ placeholder' = MinBufferLevelForQuality(q)
      /\ ibr_safety' = <<1, 1>>
      /\ IF found
         THEN /\ chosen' = HighestSsimOf(m, q)
              /\ pause' = 0
              /\ UNCHANGED exit_code
         ELSE /\ exit_code' = 1
              /\ UNCHANGED <<chosen, pause>>

\* Mutant: the kBufferLow safety clamp of bola.cc 400-407 left out
ZeroScoreLevelUnclamped(s) == BufferLevelForZeroScore(s)

\* level = BufferLevelForZeroScore(ssim), raised to kBufferLow (bola.cc 399-407)
ZeroScoreLevel(s) == Max2(BufferLevelForZeroScore(s), kBufferLow)

\* Mutant: the overrun grows the placeholder but not the pause
PlaceholderUpdateNoOverrunPause(bl, level) ==
  LET ph1 == IF bl + placeholder > level THEN level - bl ELSE placeholder
      pause1 == IF ph1 < 0 THEN -ph1 ELSE 0
      ph2 == IF ph1 < 0 THEN 0 ELSE ph1
      overrun == bl - pause1 + D - B
  IN  IF overrun > 0 THEN [placeholder |-> ph2 + overrun, pause |-> pause1]
      ELSE [placeholder |-> ph2, pause |-> pause1]

\* Mutant: a placeholder driven below zero is not reset to 0 (bola.cc 414)
PlaceholderUpdateNoReset(bl, level) ==
  LET ph1 == IF bl + placeholder > level THEN level - bl ELSE placeholder
      pause1 == IF ph1 < 0 THEN -ph1 ELSE 0
      overrun == bl - pause1 + D - B
  IN  IF overrun > 0 THEN [placeholder |-> ph1 + overrun, pause |-> pause1 + overrun]
      ELSE [placeholder |-> ph1, pause |-> pause1]

(***************************************************************************)
(* The state update of BolaE for a new download (bola.cc 408-422): shrink  *)
(* the placeholder so that bl + placeholder <= level, pay what it cannot   *)
(* absorb as pause, then move an overrun of the buffer into both.          *)
(***************************************************************************)
PlaceholderUpdate(bl, level) ==
  LET ph1 == IF bl + placeholder > level THEN level - bl ELSE placeholder
      pause1 == IF ph1 < 0 THEN -ph1 ELSE 0
      ph2 == IF ph1 < 0 THEN 0 ELSE ph1
      overrun == bl - pause1 + D - B
  IN  IF overrun > 0
      THEN [placeholder |-> ph2 + overrun, pause |-> pause1 + overrun]
      ELSE [placeholder |-> ph2, pause |-> pause1]

GetQualityBolaE(tp, m, chosen) ==
  LET bl == PreUpdate
      s == ChooseSsim(bl, tp, m, ibr_safety)
      upd == PlaceholderUpdate(bl, ZeroScoreLevel(s))
  IN  /\ exit_code = 0
      /\ last_quality # -1
      /\ buffer_level >= -kMaxRebuffer
      /\ DOMAIN m # {}
      /\ chosen' = s
      /\ last_quality' = m[s].quality
      /\ ibr_safety' = NextIbrSafety(ibr_safety)
      /\ placeholder' = upd.placeholder
      /\ pause' = upd.pause
      \* PostUpdate: the pause is taken out of the buffer
      /\ buffer_level' = IF upd.pause > 0 THEN bl - upd.pause ELSE bl
      /\ UNCHANGED exit_code

GetQuality(tp, m, chosen) ==
  \/ GetQualityRebufferExit /\ UNCHANGED chosen
  \/ GetQualityInit(tp, m, chosen)
  \/ GetQualityBolaE(tp, m, chosen)

\* BolaAbr::SetBuffer(lvl) (bola.cc 103-105)
SetBuffer(lvl) ==
  /\ buffer_level' = lvl
  /\ UNCHANGED <<last_quality, placeholder, ibr_safety, pause, exit_code>>

BolaInit ==
  /\ buffer_level = 0
  /\ last_quality = -1
  /\ placeholder = 0
  /\ ibr_safety = <<1, 1>>
  /\ pause = 0
  /\ exit_code = 0
=============================================================================
