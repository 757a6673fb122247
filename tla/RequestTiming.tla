---------------------------- MODULE RequestTiming ----------------------------
(***************************************************************************)
(* The timing epilogue of QuicSpdyClientBase::SendRequestAndWaitForResponse *)
(* (quic_spdy_client_base.cc 210-282): each request appends a              *)
(* SubSegmentTiming to segment_timing[unrel], and once the stream ends it   *)
(* is filled from the response's frame timings and the wall-clock duration  *)
(* time_rough.  With --fine (FLAGS_fine, false by default) the sample time  *)
(* is the span of the frames' arrival times, else it is time_rough.        *)
(*                                                                         *)
(* Frame arrival times qt are in microseconds (QuicTime), durations in     *)
(* milliseconds.  A frame is [qt, length, was_lost]; the frames of a       *)
(* response are one of Responses.  SubSegmentTiming is declared outside    *)
(* this tree: its throughput_ and time_ fields may be integer or floating, *)
(* so a division by a zero time_ either traps (SIGFPE) or stores infinity *)
(* (NaN for 0 / 0).                                                        *)
(***************************************************************************)
EXTENDS Integers, Sequences

CONSTANTS
  Fine,          \* FLAGS_fine, passed to SetFine by the Transport constructor
  Responses,     \* the frame sequences a response can arrive as
  RoughTimes,    \* wall-clock durations of a request in ms, 0 included
  MaxRequests,   \* bound on the requests of a run
  InfTp,         \* the floating-point infinity x / 0.0 stores for x > 0
  NaNTp          \* the NaN 0.0 / 0.0 stores

VARIABLES
  segment_timing,  \* [BOOLEAN -> Seq(SubSegmentTiming)], by unrel
  status,          \* "running", or how the process ended
  requests         \* requests sent so far (bounded by MaxRequests)

vars == <<segment_timing, status, requests>>

\* the frames' non-lost bytes (lines 254-255)
ReceivedBytes(frames) ==
  LET RECURSIVE R(_)
      R(i) == IF i = 0 THEN 0
              ELSE (IF frames[i].was_lost THEN 0 ELSE frames[i].length) + R(i - 1)
  IN  R(Len(frames))

\* (latest - earliest).ToMilliseconds() over the frames' qt (lines 251-263)
FrameSpan(frames) ==
  LET qts == {frames[i].qt : i \in DOMAIN frames}
      hi == CHOOSE t \in qts : \A u \in qts : u <= t
      lo == CHOOSE t \in qts : \A u \in qts : t <= u
  IN  IF frames = <<>> THEN 0 ELSE (hi - lo) \div 1000

\* latest_response_body_.size(): the body runs to the end of the last frame,
\* lost frames included (they are filled in by the stream)
BodySize(frames) ==
  LET RECURSIVE B(_)
      B(i) == IF i = 0 THEN 0 ELSE frames[i].length + B(i - 1)
  IN  B(Len(frames))

\* the SubSegmentTiming filled in at lines 258-281, its throughput field
\* still holding the bits the branch taken divides by time_
Sample(frames, time_rough, fine) ==
  LET received == ReceivedBytes(frames)
      span == FrameSpan(frames)
      time == IF fine THEN (IF span = 0 THEN 1 ELSE span) ELSE time_rough
      bits == IF fine THEN received * 8 ELSE BodySize(frames) * 8
  IN  [received_size |-> received, time |-> time,
       time_rough |-> IF time_rough = 0 THEN 1 ELSE time_rough,
       segment_size |-> BodySize(frames), throughput |-> bits]

\* the stored sample: throughput_ = bits / time_, or the outcomes of a
\* division by zero
Outcomes(s) ==
  IF s.time # 0
  THEN {[status |-> "running",
         sample |-> [s EXCEPT !.throughput = @ \div s.time]]}
  ELSE LET quotient == IF s.throughput = 0 THEN NaNTp ELSE InfTp
       IN  {[status |-> "sigfpe", sample |-> [s EXCEPT !.throughput = quotient]],
            [status |-> "running", sample |-> [s EXCEPT !.throughput = quotient]]}

Init ==
  /\ segment_timing = [u \in BOOLEAN |-> <<>>]
  /\ status = "running"
  /\ requests = 0

\* SendRequestAndWaitForResponse(headers, body, fin, unrel, dc) once the
\* stream has ended: no frame timings end the process with exit(-3) unless
\* the request was abandoned (dc->ret__kept false).  A cancel comes at a
\* check at least 1 ms in: the deadline rule needs buffer_occ > kSafetyMargin
\* to start, the BPP and BOLA rules wait out their timers
SendRequestAndWaitForResponse ==
  /\ status = "running"
  /\ requests < MaxRequests
  /\ \E unrel \in BOOLEAN, kept \in BOOLEAN, frames \in Responses,
        time_rough \in RoughTimes :
       /\ kept \/ time_rough >= 1
       /\ IF frames = <<>> /\ kept
          THEN \* the process ends; the zeroed sample is never read
               /\ status' = "exit_no_timings"
               /\ UNCHANGED segment_timing
          ELSE \E o \in Outcomes(Sample(frames, time_rough, Fine)) :
                 /\ status' = o.status
                 /\ segment_timing' = [segment_timing EXCEPT ![unrel] = Append(@, o.sample)]
  /\ requests' = requests + 1

\* ResetAllTimings (lines 74-77)
ResetAllTimings ==
  /\ status = "running"
  /\ segment_timing' = [u \in BOOLEAN |-> <<>>]
  /\ UNCHANGED <<status, requests>>

\* the process has exited (exit(-3)) or trapped
Ended == status # "running" /\ UNCHANGED vars

Next == SendRequestAndWaitForResponse \/ ResetAllTimings \/ Ended

Spec == Init /\ [][Next]_vars

\* Spec section 5, ordering: the estimator tolerates zero-duration samples
\* by flooring time to 1 ms.  The code floors time_rough_ and, with --fine,
\* time_; without --fine it stores the unfloored time_rough as time_ and
\* divides by it (quic_spdy_client_base.cc 269-276).
SampleTimeFloored ==
  \A u \in BOOLEAN : \A i \in DOMAIN segment_timing[u] :
    segment_timing[u][i].time >= 1

(***************************************************************************)
(* Model values: responses of up to two frames arriving within 0.4 ms or   *)
(* 1.6 ms of each other, the second possibly lost, and the empty response  *)
(* of a request abandoned before its first frame.                         *)
(***************************************************************************)
MCFrames == [qt : {0, 400, 1600}, length : {1, 2}, was_lost : BOOLEAN]
MCResponses == {<<>>} \cup {<<f>> : f \in MCFrames}
                 \cup {<<f, g>> : f \in MCFrames \cap [qt : {0}, length : {1, 2}, was_lost : {FALSE}],
                                  g \in MCFrames}
=============================================================================
