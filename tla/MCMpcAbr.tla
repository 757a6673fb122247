------------------------------ MODULE MCMpcAbr ------------------------------
(***************************************************************************)
(* MpcAbr as the segment loop of quic_simple_client_bin.cc drives it: MPC *)
(* never abandons a download (WaitForEvents has no rule for "mpc"), so a   *)
(* segment is a decision followed by its download.  Segment 1 is fetched   *)
(* at quality 0 without a decision.  A download of quality q at observed   *)
(* throughput o takes Rate(q) * D / o time units, of which the unreliable  *)
(* half takes 1 / k for a k of UnrelDivisors; PreUpdate's sample, both    *)
(* halves' bytes over the unreliable half's time, is then k * o.           *)
(***************************************************************************)
EXTENDS MpcAbr, TLC

CONSTANTS
  NumSegments,      \* num_segments: segments 1 .. NumSegments - 1 are played
  Observations,     \* throughputs a download can observe, bits per time unit
  UnrelDivisors     \* k: the unreliable half takes 1 / k of the download

ASSUME \A q \in Qualities, o \in Observations : (Rate(q) * D) % o = 0

VARIABLES
  segment,          \* the loop index i
  phase,            \* "decide" before GetQuality, "download" after it
  observed,         \* throughput of the last download
  err_observed,     \* the throughput PreUpdate computes for it
  obs_history,      \* every observation pushed so far
  err_history       \* every error PreUpdate computed so far

MCBitrates == <<8, 16, 32>>

vars == <<mpc_vars, segment, phase, observed, err_observed, obs_history, err_history>>

DownloadTime(q, o) == (Rate(q) * D) \div o

Init ==
  /\ MpcInit
  /\ segment = 1
  /\ phase = "download"
  /\ observed = 0
  /\ err_observed = 0
  /\ obs_history = <<>>
  /\ err_history = <<>>

\* quic_simple_client_bin.cc 1165-1167: q = abr.GetQuality(retry, {})
Decide ==
  /\ phase = "decide"
  /\ GetQuality(<<observed, 1>>, <<err_observed, 1>>)
  /\ obs_history' = Append(obs_history, <<observed, 1>>)
  /\ err_history' = Append(err_history, ErrorOf(estimate_throughput, <<err_observed, 1>>))
  /\ phase' = "download"
  /\ UNCHANGED <<segment, observed, err_observed>>

\* quic_simple_client_bin.cc 1233-1310: the segment at quality q is
\* downloaded and its time taken out of the buffer
Download ==
  /\ phase = "download"
  /\ segment < NumSegments
  /\ \E o \in Observations, k \in UnrelDivisors :
       /\ SetBuffer(buffer_level - DownloadTime(last_quality, o))
       /\ observed' = o
       /\ err_observed' = k * o
  /\ segment' = segment + 1
  /\ phase' = "decide"
  /\ UNCHANGED <<obs_history, err_history>>

\* the loop ends after segment NumSegments - 1
Done ==
  /\ segment = NumSegments
  /\ UNCHANGED vars

Next == Decide \/ Download \/ Done

Spec == Init /\ [][Next]_vars

----------------------------------------------------------------------------
Fraction(x) == x[1] \in Nat /\ x[2] \in Nat \ {0}

TypeOK ==
  /\ buffer_level \in Int
  /\ last_quality \in Qualities
  /\ Fraction(estimate_throughput)
  /\ past_errors \in Seq(Nat \X (Nat \ {0}))
  /\ Len(past_errors) <= ErrorWindow
  /\ pause \in Nat
  /\ throughputs \in Seq(Nat \X (Nat \ {0}))
  /\ Len(throughputs) <= ThroughputWindow
  /\ segment \in 1 .. NumSegments
  /\ phase \in {"decide", "download"}

LastN(s, n) == IF Len(s) <= n THEN s ELSE SubSeq(s, Len(s) - n + 1, Len(s))

\* After every decision the two estimators see exactly the last windows of
\* the history: estimate_throughput_ is the harmonic mean of the last
\* kThroughputWindow observations (TransportHarmonic's deque) and
\* estimate_error_ is the largest of the last kErrorWindow errors
\* (past_errors_ with its push_back / pop_front in PreUpdate).
EstimatorWindows ==
  /\ estimate_throughput = HarmonicMean(LastN(obs_history, ThroughputWindow))
  /\ past_errors = LastN(err_history, ErrorWindow)

(* Reference for Search: the value of a whole plan of SearchDepth qualities, *)
(* step by step, and the best plan starting with a given quality.           *)
RECURSIVE PlanValue(_, _, _, _)
PlanValue(ctx, buffer, prev, plan) ==
  IF plan = <<>> THEN 0
  ELSE LET st == SearchStep(ctx, buffer, Head(plan))
       IN  Evaluate(ctx, prev, Head(plan), st.rebuffer)
             + PlanValue(ctx, st.buffer, Head(plan), Tail(plan))

Plans(q) == { <<q>> \o s : s \in [1 .. SearchDepth - 1 -> Qualities] }

BestPlanValue(ctx, buffer, prev, q) ==
  LET vals == { PlanValue(ctx, buffer, prev, p) : p \in Plans(q) }
  IN  CHOOSE v \in vals : \A w \in vals : w <= v

\* Every quality MPC picks starts a plan of the highest total value over the
\* search horizon, and is the lowest such quality: the depth-first Search
\* with its running maximum (mpc.cc 107-135) and the root loop of
\* GetQuality (mpc.cc 59-65) agree with an exhaustive search.
SearchOptimal ==
  [][phase = "decide" =>
      LET ctx == SearchContext(PredictedThroughput(estimate_throughput', past_errors'))
          bl  == (buffer_level' + pause') * ctx.a
          val == [q \in Qualities |-> BestPlanValue(ctx, bl, last_quality, q)]
      IN  /\ \A q \in Qualities : val[q] <= val[last_quality']
          /\ \A q \in 0 .. last_quality' - 1 : val[q] < val[last_quality']]_vars

=============================================================================
