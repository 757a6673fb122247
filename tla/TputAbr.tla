------------------------------- MODULE TputAbr -------------------------------
(***************************************************************************)
(* ThroughputAbr of src/net/tools/quic/tput.cc as driven by                 *)
(* Dispatcher::GetQuality(ThroughputAbr&) (abr.cc 60-71): PreUpdate, then  *)
(* GetQuality on the estimate, then PostUpdate.  Time is in units of the   *)
(* model, bitrates and throughput in bits per unit; the estimate is an     *)
(* integer, its 0.9 safety factor an exact fraction.                       *)
(***************************************************************************)
EXTENDS Integers, Sequences

CONSTANTS
  SegmentDuration,   \* segment_duration_
  BufferSize,        \* buffer_size_
  Bitrates,          \* bitrates_, ascending
  Smoothings         \* values --smooth can give TransportSLST's alpha

ASSUME SegmentDuration > 0 /\ BufferSize > SegmentDuration
ASSUME \A i \in 1 .. Len(Bitrates) - 1 : Bitrates[i] < Bitrates[i + 1]

VARIABLES
  buffer_level,      \* buffer_level_ (integer valued: SetBuffer takes an int)
  startup,           \* startup
  pause,             \* pause
  alpha,             \* TransportSLST::alpha, a fraction <<num, den>>
  throughput         \* TransportSLST::throughput, a fraction <<num, den>>

tput_vars == <<buffer_level, startup, pause, alpha, throughput>>

D == SegmentDuration
B == BufferSize
NQ == Len(Bitrates)
Rate(q) == Bitrates[q + 1]

kSafetyFactor == <<9, 10>>

\* a fraction in lowest terms, so that equal estimates are equal states
Lowest(f) ==
  LET g == CHOOSE g \in 1 .. f[2] : /\ f[1] % g = 0 /\ f[2] % g = 0
                                    /\ \A h \in g + 1 .. f[2] : ~(f[1] % h = 0 /\ f[2] % h = 0)
  IN  <<f[1] \div g, f[2] \div g>>

\* TransportSLST::AddThroughput (quic_simple_client_bin.cc 237-248) for a
\* download whose size * 8 / time is `current': an exponential smoothing
\* from the 0.0 the member starts at
AddThroughput(current) ==
  LET a == alpha
  IN  throughput' = Lowest(<<a[1] * throughput[1] * current[2]
                               + (a[2] - a[1]) * current[1] * throughput[2],
                             a[2] * throughput[2] * current[2]>>)

\* mutant: a bitrate equal to the throughput is already too high
QualityFromThroughputAtLeast(tp) ==
  LET above == {i \in 1 .. NQ - 1 : Rate(i) * tp[2] >= tp[1]}
  IN  IF above = {} THEN NQ - 1 ELSE (CHOOSE i \in above : \A j \in above : i <= j) - 1

\* the first quality whose successor's bitrate exceeds the throughput
\* (a fraction <<num, den>>), else the highest
QualityFromThroughput(tp) ==
  LET above == {i \in 1 .. NQ - 1 : Rate(i) * tp[2] > tp[1]}
  IN  IF above = {} THEN NQ - 1 ELSE (CHOOSE i \in above : \A j \in above : i <= j) - 1

\* PreUpdate: a negative (rebuffering) level restarts at 0, plus the segment
PreUpdateLevel(bl) == (IF bl < 0 THEN 0 ELSE bl) + D

\* mutant: the pause is computed from the level before PreUpdate
TputPauseBeforePreUpdate(bl) ==
  LET old == bl - D IN IF old + D > B THEN old + D - B ELSE 0

\* mutant: the pause is taken whether or not the buffer overflows
TputPauseAlways(bl) == bl + D - B

\* GetQuality: pause down to a buffer with room for the next segment
TputPause(bl) == IF bl + D > B THEN bl + D - B ELSE 0

\* ThroughputAbr::GetQuality on the level after PreUpdate: the quality for
\* the estimate tp and the pause (the log line is left out)
ThroughputAbrGetQuality(tp, bl) ==
  [quality |-> QualityFromThroughput(<<tp[1] * kSafetyFactor[1], tp[2] * kSafetyFactor[2]>>),
   pause   |-> TputPause(bl)]

\* PostUpdate: the pause comes out of the buffer
PostUpdateLevel(bl, p) == IF p > 0 THEN bl - p ELSE bl

\* Dispatcher::GetQuality(ThroughputAbr&): AddThroughput on the last
\* download, PreUpdate, GetQuality on the new estimate, PostUpdate; the
\* quality returned is `quality'
GetQuality(current, quality) ==
  LET bl == PreUpdateLevel(buffer_level)
      r  == ThroughputAbrGetQuality(throughput', bl)
  IN  /\ AddThroughput(current)
      /\ quality = r.quality
      /\ pause' = r.pause
      /\ buffer_level' = PostUpdateLevel(bl, r.pause)
      /\ startup' = FALSE
      /\ UNCHANGED alpha

SetBuffer(lvl) ==
  /\ buffer_level' = lvl
  /\ UNCHANGED <<startup, pause, alpha, throughput>>

\* the constructor; `pause' is left uninitialised there and is first read
\* after a GetQuality, so its initial value is never seen
TputInit ==
  /\ buffer_level = 0
  /\ startup = TRUE
  /\ pause = 0
  /\ alpha \in Smoothings
  /\ throughput = <<0, 1>>

=============================================================================
