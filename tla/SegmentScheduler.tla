--------------------------- MODULE SegmentScheduler ---------------------------
(***************************************************************************)
(* The segment loop of quic_simple_client_bin.cc under --abr=bpp, with the *)
(* transport's event loop and abandonment monitor of quic_client_base.cc   *)
(* (WaitForEvents, BPPShouldAbandon, DeadlineRequest) and the hole-fill    *)
(* loop fill_holes.  The ABR is BolaAbr; SetBuffer is its only writer of   *)
(* the virtual buffer besides GetQuality.                                  *)
(*                                                                         *)
(* A request is a record: the DownloadConfig fields the monitor reads      *)
(* (policy, reliable, size, buffer_occ, quality) and writes (kept,         *)
(* ret__ssim), and the transport's progress (bytes requested, received    *)
(* and lost so far, elapsed time units at the last check, and the wait    *)
(* after a cancel).  One Tick is one iteration of WaitForEvents: the event *)
(* loop delivers or loses a chunk, then the request ends if the stream is  *)
(* done, or the abandonment rule of its policy runs.  A cancel resets the  *)
(* stream and runs the event loop until it has closed, so the time the     *)
(* caller measures afterwards (time_rough, GetRealTime) exceeds the time   *)
(* of the check by a wait from CloseWaits.  The other actions are the      *)
(* loop's code between two blocking requests.                              *)
(***************************************************************************)
EXTENDS BolaAbandon

CONSTANTS
  NumSegments,    \* num_segments: segments 1 .. NumSegments - 1 are played
  Deliveries,     \* bytes the event loop can deliver in one time unit
  Estimates,      \* values BPPMovingAverage::GetThroughput may report, 0 included
  UninitSsim,     \* values the uninitialised ssim_q can hold at segment 1
  CloseWaits,     \* time units the stream takes to close after a cancel
  MaxRetries      \* bound on retries of one segment (never reached)

ASSUME /\ NumSegments \in Nat \ {0, 1}
       /\ Deliveries \subseteq Nat \ {0} /\ Estimates \subseteq Nat
       /\ UninitSsim \subseteq [size : Nat, reliable_size : Nat, quality : Int,
                                 required_frames : Nat]
       /\ MaxRetries \in Nat
       /\ CloseWaits \subseteq Nat

VARIABLES
  ssim,           \* ssim, the key GetQuality returned
  segment,        \* the loop index i
  retry,          \* retry
  stage,          \* where the loop is blocked or about to continue
  seg_map,        \* ssim_map[i - 1], fixed for the retries of a segment
  ssim_q,         \* ssim_q, the entry of the attempt
  bpp_ssim,       \* bpp_ssim, the entry the abandonment rule chose
  plan,           \* the attempt's unreliable request sizes
  dl,             \* the request in flight (DownloadConfig and stream)
  fill            \* fill_holes' locals: loss_size, remaining_pause, used_time

sched_vars == <<ssim, segment, retry, stage, seg_map, ssim_q, bpp_ssim, plan,
                dl, fill>>
vars == <<bola_vars, sched_vars>>

Stages == {"choose", "rel", "unrel", "holes", "optional", "end"}

\* quic_client_base.cc constants, in time units
kSafetyMargin == 2000 \div TimeUnit          \* quic::kSafetyMargin
\* 2^32 milliseconds in time units: the range of the uint32_t remaining_buffer

(***************************************************************************)
(* The manifest of a segment at quality q, read off its ssim map: the      *)
(* reliable frames, the number of unreliable frame ranges and their bytes. *)
(***************************************************************************)
KeysOf(m, q) == {k \in DOMAIN m : m[k].quality = q}
RelSize(m, q) == m[CHOOSE k \in KeysOf(m, q) : TRUE].reliable_size
NumRanges(m, q) ==
  m[CHOOSE k \in KeysOf(m, q) :
      \A j \in KeysOf(m, q) : m[j].required_frames <= m[k].required_frames
   ].required_frames
UnrelSize(m, q) ==
  (CHOOSE s \in {m[k].size : k \in KeysOf(m, q)} :
      \A k \in KeysOf(m, q) : m[k].size <= s) - RelSize(m, q)

\* the buffer slack fill_holes and the optional fetch test against the margin
Slack(bl) == bl + D - (B - D)

Request(policy, reliable, size, bytes, occ, quality) ==
  [policy |-> policy, reliable |-> reliable, size |-> size, bytes |-> bytes,
   occ |-> occ, quality |-> quality, received |-> 0, lost |-> 0,
   elapsed |-> 0, wait |-> 0, tp |-> 0, kept |-> FALSE, ret_ssim |-> 0,
   running |-> TRUE]

NoRequest == [Request("none", TRUE, 0, 0, 0, 0) EXCEPT !.running = FALSE]

----------------------------------------------------------------------------
(***************************************************************************)
(* WaitForEvents (quic_client_base.cc 326-447) for the three policies the  *)
(* BPP loop uses: "bpp" for the reliable and required unreliable halves,  *)
(* "deadline" for the requests of fill_holes.                              *)
(***************************************************************************)

\* mutant: the chunk is not cut at the end of the request
ProgressUncapped(r, d, lose) ==
  [r EXCEPT !.received = @ + (IF lose THEN 0 ELSE d),
            !.lost = @ + (IF lose THEN d ELSE 0),
            !.elapsed = @ + 1]

\* the event loop moves one chunk: received, or on the unreliable stream lost
Progress(r, d, lose) ==
  LET n == Min2(d, r.bytes - r.received - r.lost)
  IN  [r EXCEPT !.received = @ + (IF lose THEN 0 ELSE n),
                !.lost = @ + (IF lose THEN n ELSE 0),
                !.elapsed = @ + 1]

\* session()->num_active_requests() == 0: the stream has ended
Finished(r) == r.received + r.lost = r.bytes

\* uint32_t remaining_buffer = dc->buffer_occ - time
RemainingBuffer(occ, t) == IF occ - t >= 0 THEN occ - t ELSE occ - t + UInt32Range

\* BPPShouldAbandon (quic_client_base.cc 227-257) after AddMeasurement, with
\* the estimate r.tp; the returned record ends the request on a cancel
BPPShouldAbandon(r) ==
  LET rb == RemainingBuffer(r.occ, r.elapsed)
      s  == BolaEInProgress(rb, <<r.tp * kBandwidthSafetyFactor[1],
                                  kBandwidthSafetyFactor[2]>>, seg_map, r)
      rq == seg_map[s].quality
  IN  IF \/ ~(r.elapsed > kGraceTime /\ r.received < r.size)
         \/ r.tp = 0
         \/ (r.size - r.received) * 8 < r.tp * rb
         \/ r.quality = 0
      THEN r
      ELSE IF rq < r.quality
      THEN [r EXCEPT !.ret_ssim = s, !.running = FALSE]
      ELSE IF ~r.reliable /\ rq = r.quality /\ r.received >= seg_map[s].size
      THEN [r EXCEPT !.ret_ssim = s, !.kept = TRUE, !.running = FALSE]
      ELSE [r EXCEPT !.ret_ssim = s]

\* the "deadline" branch of WaitForEvents: kept once anything arrived,
\* cancelled once target_time = remaining_time - kSafetyMargin <= 0
DeadlineRequest(r) ==
  [r EXCEPT !.kept = r.kept \/ r.received > 0,
            !.running = r.occ - r.elapsed - kSafetyMargin > 0]

\* the request after its rule ran: on a cancel (quic_client_base.cc 390-395)
\* the loop waits for the stream to close
AfterCheck(r) ==
  IF r.running THEN {r} ELSE {[r EXCEPT !.wait = w] : w \in CloseWaits}

\* the time the caller takes out of the buffer: time_rough of the request
\* (quic_spdy_client_base.cc 241), read back by GetRealTime
Charged(r) == r.elapsed + r.wait

Tick ==
  /\ dl.running
  /\ \E d \in Deliveries, lose \in IF dl.reliable THEN {FALSE} ELSE BOOLEAN :
       LET r == Progress(dl, d, lose)
       IN  \/ /\ Finished(r)
              /\ dl' = [r EXCEPT !.kept = TRUE, !.running = FALSE]
           \/ /\ ~Finished(r) /\ r.policy = "bpp"
              /\ \E tp \in Estimates :
                   dl' \in AfterCheck(BPPShouldAbandon([r EXCEPT !.tp = tp]))
           \/ /\ ~Finished(r) /\ r.policy = "deadline"
              /\ dl' \in AfterCheck(DeadlineRequest(r))
  /\ UNCHANGED <<bola_vars, ssim, segment, retry, stage, seg_map, ssim_q,
                 bpp_ssim, plan, fill>>

----------------------------------------------------------------------------
(***************************************************************************)
(* The loop body between two blocking requests.  Every helper below       *)
(* assigns all of segment, retry, stage, ssim_q, bpp_ssim, plan, dl, fill. *)
(***************************************************************************)

NoFill == [loss_size |-> 0, rp |-> 0, used |-> 0]

\* 1207-1256: the BPP request sizes of entry e at quality q, then the
\* reliable request with dc->size = ssim_q.size and buffer_occ = bl
StartAttempt(m, e, q, bl) ==
  LET required_unreliable_size == e.size - e.reliable_size
      partial == e.required_frames < NumRanges(m, q)
  IN  /\ ssim_q' = e
      /\ plan' = [q |-> q, frames |-> e.required_frames,
                  unrel |-> required_unreliable_size,
                  optional |-> partial,
                  optional_size |-> IF partial
                                    THEN UnrelSize(m, q) - required_unreliable_size
                                    ELSE 0]
      /\ dl' = Request("bpp", TRUE, e.size, RelSize(m, q), bl, q)
      /\ stage' = "rel"
      /\ UNCHANGED <<segment, retry, bpp_ssim, fill>>

\* 1260-1267 and 1309-1316: bpp_ssim = dc.ret__ssim; retry += 1; --i
Retry ==
  /\ retry < MaxRetries
  /\ retry' = retry + 1
  /\ bpp_ssim' = dl.ret_ssim
  /\ stage' = "choose"
  /\ dl' = NoRequest
  /\ UNCHANGED <<segment, ssim_q, plan, fill>>

\* 1282-1304: the required unreliable request, buffer_occ = bl
StartUnreliable(bl) ==
  /\ stage' = "unrel"
  /\ dl' = Request("bpp", FALSE, plan.unrel, plan.unrel, bl, plan.q)
  /\ UNCHANGED <<segment, retry, ssim_q, bpp_ssim, plan, fill>>

\* fill_holes 400-421: a deadline request for loss_size bytes, with
\* buffer_occ = remaining_pause
StartFill(st, loss_size, rp, used) ==
  /\ stage' = st
  /\ fill' = [loss_size |-> loss_size, rp |-> rp, used |-> used]
  /\ dl' = Request("deadline", FALSE, loss_size, loss_size, rp, 0)
  /\ UNCHANGED <<segment, retry, ssim_q, bpp_ssim, plan>>

\* 1374-1404: the segment is written out; retry = 0; ++i
Commit ==
  /\ segment' = segment + 1
  /\ retry' = 0
  /\ stage' = IF segment + 1 = NumSegments THEN "end" ELSE "choose"
  /\ dl' = NoRequest
  /\ fill' = NoFill
  /\ UNCHANGED <<ssim_q, bpp_ssim, plan>>

\* 1356-1371: fill_holes over the optional frames if the slack allows it
OptionalOrCommit(bl) ==
  IF plan.optional /\ Slack(bl) > kSafetyMargin
  THEN StartFill("optional", plan.optional_size, Slack(bl), 0)
  ELSE Commit

\* 1134-1136 and 1207-1256 for i == 1: q = 0 and ssim_q is read before any
\* assignment; get_subrange exits if it asks for more ranges than exist
DecideFirst ==
  /\ stage = "choose" /\ segment = 1
  /\ \E m \in SsimMaps, e \in UninitSsim :
       /\ seg_map' = m
       /\ IF e.required_frames > NumRanges(m, 0)
          THEN /\ exit_code' = 1
               /\ stage' = "end"
               /\ ssim_q' = e
               /\ UNCHANGED <<segment, retry, bpp_ssim, plan, dl, fill>>
          ELSE /\ StartAttempt(m, e, 0, buffer_level)
               /\ UNCHANGED exit_code
  /\ UNCHANGED <<buffer_level, last_quality, placeholder, ibr_safety, pause, ssim>>

\* mutant: the retry repeats the abandoned entry
DecideRetryRepeat ==
  /\ stage = "choose" /\ segment > 1 /\ retry > 0
  /\ StartAttempt(seg_map, ssim_q, ssim_q.quality, buffer_level)
  /\ UNCHANGED <<bola_vars, ssim, seg_map>>

\* 1137-1153: a retry takes the entry the abandonment rule chose
DecideRetry ==
  /\ stage = "choose" /\ segment > 1 /\ retry > 0
  /\ StartAttempt(seg_map, seg_map[bpp_ssim], seg_map[bpp_ssim].quality,
                  buffer_level)
  /\ UNCHANGED <<bola_vars, ssim, seg_map>>

\* 1158-1168: ssim = abr.GetQuality(retry, ssim_map[i - 1]); a process exit
\* inside GetQuality ends the loop
DecideFresh ==
  /\ stage = "choose" /\ segment > 1 /\ retry = 0
  /\ \E tp \in Throughputs, m \in SsimMaps :
       /\ GetQuality(tp, m, ssim)
       /\ seg_map' = m
       /\ IF exit_code' # 0
          THEN /\ stage' = "end"
               /\ UNCHANGED <<segment, retry, ssim_q, bpp_ssim, plan, dl, fill>>
          ELSE StartAttempt(m, m[ssim'], m[ssim'].quality, buffer_level')

\* 1257-1280: the reliable time leaves the buffer; retry, or go on with the
\* required unreliable frames, else the optional ones
AfterReliable ==
  /\ stage = "rel" /\ ~dl.running
  /\ LET bl == buffer_level - Charged(dl)
     IN  /\ SetBuffer(bl)
         /\ IF ~dl.kept THEN Retry
            ELSE IF plan.frames > 0 THEN StartUnreliable(bl)
            ELSE OptionalOrCommit(bl)
  /\ UNCHANGED <<ssim, seg_map>>

\* 1306-1354: the unreliable time leaves the buffer; retry, or turn the
\* lost bytes into holes and fill them if the slack allows it
AfterUnreliable ==
  /\ stage = "unrel" /\ ~dl.running
  /\ LET bl == buffer_level - Charged(dl)
         have_loss == plan.unrel - dl.received
     IN  /\ SetBuffer(bl)
         /\ IF ~dl.kept THEN Retry
            ELSE IF have_loss > 0 /\ Slack(bl) > kSafetyMargin
            THEN StartFill("holes", have_loss, Slack(bl), 0)
            ELSE OptionalOrCommit(bl)
  /\ UNCHANGED <<ssim, seg_map>>

\* mutant: the optional fetch tests the buffer read before the hole fill
AfterFillStaleBuffer ==
  /\ stage \in {"holes", "optional"} /\ ~dl.running
  /\ LET have_loss == fill.loss_size - dl.received
         used == fill.used + Charged(dl)
         rp == fill.rp - Charged(dl)
     IN  IF have_loss > 0 /\ rp > kSafetyMargin
         THEN /\ StartFill(stage, have_loss, rp, used)
              /\ UNCHANGED bola_vars
         ELSE /\ SetBuffer(buffer_level - used)
              /\ IF stage = "holes"
                 THEN OptionalOrCommit(buffer_level)
                 ELSE Commit
  /\ UNCHANGED <<ssim, seg_map>>

\* mutant: remaining_pause is not decremented by the request's time
AfterFillNoPauseDecrement ==
  /\ stage \in {"holes", "optional"} /\ ~dl.running
  /\ LET have_loss == fill.loss_size - dl.received
         used == fill.used + Charged(dl)
         rp == fill.rp
     IN  IF have_loss > 0 /\ rp > kSafetyMargin
         THEN /\ StartFill(stage, have_loss, rp, used)
              /\ UNCHANGED bola_vars
         ELSE /\ SetBuffer(buffer_level - used)
              /\ IF stage = "holes"
                 THEN OptionalOrCommit(buffer_level - used)
                 ELSE Commit
  /\ UNCHANGED <<ssim, seg_map>>

\* fill_holes 422-465 after a deadline request, and its loop condition; on
\* return the caller takes used_time out of the buffer (1345, 1368)
AfterFill ==
  /\ stage \in {"holes", "optional"} /\ ~dl.running
  /\ LET have_loss == fill.loss_size - dl.received
         used == fill.used + Charged(dl)
         rp == fill.rp - Charged(dl)
     IN  IF have_loss > 0 /\ rp > kSafetyMargin
         THEN /\ StartFill(stage, have_loss, rp, used)
              /\ UNCHANGED bola_vars
         ELSE /\ SetBuffer(buffer_level - used)
              /\ IF stage = "holes"
                 THEN OptionalOrCommit(buffer_level - used)
                 ELSE Commit
  /\ UNCHANGED <<ssim, seg_map>>

\* the loop has ended (i == num_segments) or the process exited
Done ==
  /\ stage = "end"
  /\ UNCHANGED vars

SchedulerInit ==
  /\ BolaInit
  /\ ssim = 0
  /\ segment = 1
  /\ retry = 0
  /\ stage = "choose"
  /\ seg_map = CHOOSE m \in SsimMaps : TRUE
  /\ ssim_q = CHOOSE e \in UninitSsim : TRUE
  /\ bpp_ssim = 0
  /\ plan = [q |-> 0, frames |-> 0, unrel |-> 0, optional |-> FALSE,
             optional_size |-> 0]
  /\ dl = NoRequest
  /\ fill = NoFill

Next ==
  \/ DecideFirst \/ DecideRetry \/ DecideFresh
  \/ Tick
  \/ AfterReliable \/ AfterUnreliable \/ AfterFill
  \/ Done

LoopStep ==
  DecideFirst \/ DecideRetry \/ DecideFresh
    \/ AfterReliable \/ AfterUnreliable \/ AfterFill

(***************************************************************************)
(* Fairness.  The loop is one thread that is never blocked but in          *)
(* WaitForEvents, so its steps are weakly fair; the transport makes        *)
(* progress every time unit while a request runs.  Both weak fairness      *)
(* conditions are written with the enabling condition of the action in    *)
(* place of ENABLED: a decision can always be taken at stage "choose", a   *)
(* returned request can always be handled unless it asks for a retry past  *)
(* MaxRetries, and a running request can always make a Tick.               *)
(***************************************************************************)
LoopEnabled ==
  \/ stage = "choose"
  \/ stage \in {"rel", "unrel"} /\ ~dl.running /\ (dl.kept \/ retry < MaxRetries)
  \/ stage \in {"holes", "optional"} /\ ~dl.running

LoopFairness == []<>(~LoopEnabled) \/ []<><<LoopStep>>_vars
TickFairness == []<>(~dl.running) \/ []<><<Tick>>_vars

Spec == SchedulerInit /\ [][Next]_vars /\ LoopFairness /\ TickFairness

=============================================================================
