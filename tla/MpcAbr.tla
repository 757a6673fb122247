------------------------------ MODULE MpcAbr ------------------------------
(***************************************************************************)
(* MpcAbr of src/net/tools/quic/mpc.cc as driven by                         *)
(* Dispatcher::GetQuality(MpcAbr&) (abr.cc), together with the throughput  *)
(* it is given, the harmonic mean of TransportHarmonic                      *)
(* (quic_simple_client_bin.cc).                                            *)
(*                                                                         *)
(* Time is counted in units of the model (SegmentDuration, BufferSize and  *)
(* download times are integers of that unit); bitrates and throughputs    *)
(* are bits per unit.  The doubles of the code that are not integer       *)
(* valued (throughput estimate, errors) are exact fractions <<num, den>>. *)
(***************************************************************************)
EXTENDS Integers, Sequences

CONSTANTS
  SegmentDuration,   \* segment_duration_
  BufferSize,        \* buffer_size_
  Bitrates,          \* bitrates_, ascending
  SearchDepth,       \* kSearchDepth
  ErrorWindow,       \* kErrorWindow
  ThroughputWindow   \* TransportHarmonic::kThroughputWindow

ASSUME SegmentDuration > 0 /\ BufferSize > SegmentDuration
ASSUME SearchDepth \in Nat \ {0} /\ ErrorWindow \in Nat \ {0}
ASSUME ThroughputWindow \in Nat \ {0}

VARIABLES
  buffer_level,         \* buffer_level_ (integer valued: SetBuffer takes an int)
  last_quality,         \* last_quality_
  estimate_throughput,  \* estimate_throughput_, a fraction
  past_errors,          \* past_errors_, a sequence of fractions
  pause,                \* pause
  throughputs           \* TransportHarmonic::throughputs, observed throughputs

mpc_vars == <<buffer_level, last_quality, estimate_throughput, past_errors,
              pause, throughputs>>

D == SegmentDuration
B == BufferSize
NQ == Len(Bitrates)
Qualities == 0 .. NQ - 1
Rate(q) == Bitrates[q + 1]

----------------------------------------------------------------------------
(* Exact fractions. *)

RECURSIVE GCD(_, _)
GCD(a, b) == IF b = 0 THEN a ELSE GCD(b, a % b)

Frac(n, d) == LET g == GCD(IF n < 0 THEN -n ELSE n, d)
              IN  IF n = 0 THEN <<0, 1>> ELSE <<n \div g, d \div g>>
FLess(x, y) == x[1] * y[2] < y[1] * x[2]
FAbsDiff(x, y) == LET n == x[1] * y[2] - y[1] * x[2]
                  IN  Frac(IF n < 0 THEN -n ELSE n, x[2] * y[2])
FDiv(x, y) == Frac(x[1] * y[2], x[2] * y[1])

----------------------------------------------------------------------------
(* TransportHarmonic: a window of the last kThroughputWindow observations, *)
(* reported as their harmonic mean n / sum(1/tp).                          *)

\* mutant: the deque is trimmed only once it is over the window
PushWindowLate(s, x, w) == (IF Len(s) > w THEN Tail(s) ELSE s) \o <<x>>

PushWindow(s, x, w) == (IF Len(s) >= w THEN Tail(s) ELSE s) \o <<x>>

RECURSIVE SumReciprocals(_)
SumReciprocals(s) ==
  IF s = <<>> THEN <<0, 1>>
  ELSE LET r == SumReciprocals(Tail(s))
       IN  Frac(r[1] * Head(s)[1] + r[2] * Head(s)[2], r[2] * Head(s)[1])

HarmonicMean(s) ==
  IF s = <<>> THEN <<0, 1>>
  ELSE LET r == SumReciprocals(s) IN Frac(Len(s) * r[2], r[1])

----------------------------------------------------------------------------
(* PreUpdate: the relative error of the last estimate against the observed *)
(* throughput enters a window of kErrorWindow; estimate_error_ is its max. *)

ErrorOf(estimate, observed) == FDiv(FAbsDiff(estimate, observed), observed)

\* mutant: the oldest error is never dropped
ErrorWindowPushNoPop(errs, e) == errs \o <<e>>

ErrorWindowPush(errs, e) ==
  LET pushed == errs \o <<e>>
  IN  IF Len(pushed) > ErrorWindow THEN Tail(pushed) ELSE pushed

RECURSIVE MaxError(_)
MaxError(errs) ==
  IF errs = <<>> THEN <<0, 1>>
  ELSE LET m == MaxError(Tail(errs))
       IN  IF FLess(m, Head(errs)) THEN Head(errs) ELSE m

----------------------------------------------------------------------------
(* Search.  With tp_e = a / b every duration of the search is scaled by a  *)
(* (a download of quality q takes Rate(q) * D * b scaled units), so that   *)
(* the search runs on integers; a positive scale keeps every comparison.   *)

SearchContext(tp_e) ==
  [a |-> tp_e[1], b |-> tp_e[2]]

Evaluate(ctx, prev_quality, quality, rebuffer) ==
  Rate(quality) * ctx.a
    - (IF Rate(quality) >= Rate(prev_quality)
       THEN Rate(quality) - Rate(prev_quality)
       ELSE Rate(prev_quality) - Rate(quality)) * ctx.a
    - 3 * rebuffer

\* One step of the plan: clamp, download, rebuffer, add the segment.
SearchStep(ctx, buffer, quality) ==
  LET clamped == IF buffer + D * ctx.a > B * ctx.a THEN (B - D) * ctx.a ELSE buffer
      after   == clamped - Rate(quality) * D * ctx.b
  IN  [rebuffer |-> IF after < 0 THEN -after ELSE 0,
       buffer   |-> (IF after < 0 THEN 0 ELSE after) + D * ctx.a]

\* The running maximum of the loops of GetQuality and Search.
Better(q, v, best) == q = 0 \/ v > best

RECURSIVE SearchPrevQuality(_, _, _, _, _), Search(_, _, _, _, _),
          SearchLoop(_, _, _, _, _, _)
\* mutant: the next level is searched from the previous quality
SearchPrevQuality(ctx, depth, buffer, prev_quality, quality) ==
  LET st    == SearchStep(ctx, buffer, quality)
      value == Evaluate(ctx, prev_quality, quality, st.rebuffer)
  IN  IF depth - 1 > 0
      THEN value + SearchLoop(ctx, depth - 1, st.buffer, prev_quality, 0, 0)
      ELSE value

Search(ctx, depth, buffer, prev_quality, quality) ==
  LET st    == SearchStep(ctx, buffer, quality)
      value == Evaluate(ctx, prev_quality, quality, st.rebuffer)
  IN  IF depth - 1 > 0
      THEN value + SearchLoop(ctx, depth - 1, st.buffer, quality, 0, 0)
      ELSE value

SearchLoop(ctx, depth, buffer, prev_quality, q, best) ==
  IF q = NQ THEN best
  ELSE LET v == Search(ctx, depth, buffer, prev_quality, q)
       IN  SearchLoop(ctx, depth, buffer, prev_quality, q + 1,
                      IF Better(q, v, best) THEN v ELSE best)

\* The root loop of GetQuality: the first quality of best value.
RECURSIVE RootLoop(_, _, _, _, _)
RootLoop(ctx, buffer, q, best, quality) ==
  IF q = NQ THEN quality
  ELSE LET v == Search(ctx, SearchDepth, buffer, last_quality, q)
       IN  IF Better(q, v, best)
           THEN RootLoop(ctx, buffer, q + 1, v, q)
           ELSE RootLoop(ctx, buffer, q + 1, best, quality)

\* tp_e = throughput / (1 + estimate_error_)
PredictedThroughput(tp, errs) ==
  LET e == MaxError(errs) IN FDiv(tp, Frac(e[2] + e[1], e[2]))

----------------------------------------------------------------------------
(* Dispatcher::GetQuality(MpcAbr&) (abr.cc 73-84): AddThroughput,         *)
(* PreUpdate, GetQuality, PostUpdate, one step.  The download just        *)
(* finished gives two samples: `observed', the throughput                  *)
(* TransportHarmonic pushes into its window (GetSegmentSize() over         *)
(* GetTime()), and `err_observed', the one PreUpdate compares the estimate *)
(* with: 8 * (reliable + unreliable bytes) over the unreliable half's time *)
(* GetTime(true) (mpc.cc 140).                                             *)

\* PreUpdate: a negative (rebuffering) level restarts at 0, plus the segment
PreUpdateLevel(level) == (IF level < 0 THEN 0 ELSE level) + D

\* GetQuality: pause down to a buffer with room for the next segment
MpcPause(bl) == IF bl + D > B THEN bl + D - B ELSE 0

\* PostUpdate: the pause is taken out of the buffer
PostUpdateLevel(bl, p) == IF p > 0 THEN bl - p ELSE bl

GetQuality(observed, err_observed) ==
  LET tp     == HarmonicMean(PushWindow(throughputs, observed, ThroughputWindow))
      errs   == ErrorWindowPush(past_errors, ErrorOf(estimate_throughput, err_observed))
      bl     == PreUpdateLevel(buffer_level)
      tp_e   == PredictedThroughput(tp, errs)
      ctx    == SearchContext(tp_e)
      p      == MpcPause(bl)
  IN  /\ throughputs' = PushWindow(throughputs, observed, ThroughputWindow)
      /\ past_errors' = errs
      /\ last_quality' = RootLoop(ctx, bl * ctx.a, 0, 0, 0)
      /\ estimate_throughput' = tp
      /\ pause' = p
      /\ buffer_level' = PostUpdateLevel(bl, p)

SetBuffer(lvl) ==
  /\ buffer_level' = lvl
  /\ UNCHANGED <<last_quality, estimate_throughput, past_errors, pause, throughputs>>

MpcInit ==
  /\ buffer_level = 0
  /\ last_quality = 0
  /\ estimate_throughput = <<0, 1>>
  /\ past_errors = <<>>
  /\ pause = 0
  /\ throughputs = <<>>

=============================================================================
