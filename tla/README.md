# TLA+ models of the VOXEL adaptive-bitrate client

This directory holds TLA+ models of the client control loop in `src/`. It also holds
the TLC configurations that check them, and `PROJECT.json`. That file lists, in
machine-readable form:
- the components;
- the runs and their properties;
- the mutants;
- the map from every TLA+ definition to the source lines it models;
- the findings;
- the hazards.

## 1. The system

The client streams a DASH video over a QUIC connection, segment by segment. A
connection stream can be flagged unreliable. Everything runs on one thread. The only
points where the loop suspends are:
- `usleep(pause)` before a segment;
- the transport event loop in `QuicClientBase::WaitForEvents`, which polls an
  abandonment rule at most every 50 ms.

| Part | Source | State | Operations |
|------|--------|-------|------------|
| BOLA / BolaE ABR | `bola.cc`, `bola.h`, `abr.cc` | `buffer_level_`, `last_quality_`, `placeholder_`, `ibr_safety_factor_`, `pause` | constructor, `GetQuality` (PreUpdate, BolaE, PostUpdate), `SetBuffer`, `BolaE` in progress (abandonment) |
| MPC ABR | `mpc.cc` | `buffer_level_`, `last_quality_`, `estimate_throughput_`, `past_errors_` | `GetQuality` (depth-5 `Search`), `PreUpdate` (error window), `PostUpdate`, `SetBuffer` |
| Throughput ABR | `tput.cc`, with the `TransportSLST` estimator of `quic_simple_client_bin.cc` | `buffer_level_`, `startup`, `pause`, the estimator's `alpha` and `throughput` | `GetQuality`, `PreUpdate`, `PostUpdate`, `SetBuffer`, `AddThroughput` |
| Throughput estimators | `abr.cc` `MovingAverage`, `bola.cc` `BPPMovingAverage`, the `Transport*` classes of `quic_simple_client_bin.cc` | floating-point EWMAs | `AddMeasurement`, `GetThroughput` |
| Abandonment monitor | `quic_client_base.cc` 186-447 | `bola_throughput`, `bpp_moving_average_`, `target_time`, the `DownloadConfig` return fields | `bola_shouldAbandon`, `BPPShouldAbandon`, `DeadlineRequest`, `WaitForEvents` |
| Segment scheduler | `quic_simple_client_bin.cc` 1125-1423, `fill_holes` 397-471 | segment index `i`, `retry`, `q`, `ssim_q`, `hole_range`, `segment_body` | choose quality; reliable request; required unreliable request; loss accounting; hole fill; optional fetch; commit |
| Loss accounting | `quic_simple_client_bin.cc` 310-500, with its callers at 401-470 and 1318-1353 | `segment_body`, `hole_range`, `loss_size` | `append_frame_order`, `fill_segment_body`, `generate_loss_information`, `get_subrange`, and the splice and hole update after each unreliable response |
| Request bookkeeping | `quic_spdy_client_base.cc` | `segment_timing`, `latest_frame_timings_` | `SendRequestAndWaitForResponse`, `GetSumThroughput`, `GetSumTime`, `ResetAllTimings` |
| Manifest parsing | `main` 822-1013 of `quic_simple_client_bin.cc`, globals at 141-142 | `adaptationSet` (kbps -> base URL and segments), `current_repr_bw`, `avg_ssims`, `ssim_map`, `segment_duration`, `bitrates` | the `xml_reader.Read()` loop over `Representation`, `BaseURL`, `Initialization`, `SegmentList` and `SegmentURL`; then the bitrates, the quality-index hack, the `no_drop` reshape and the reversal of `avg_ssims` |
| Connection | `quic_client_base.cc` 46-141, 510-533; `main` 733-751 | `session_`, `num_sent_client_hellos_`, `num_stateless_rejects_received_`, `connected_or_attempting_connect_`, `connection_error_` | `Initialize`, `Connect`, `StartConnect` with `UpdateStats`, `GetNumSentClientHellos`; main's handling of a failed `Connect` |

### How the parts interact

First `main` reads the MPD into the adaptation set, the per-segment SSIM maps and `avg_ssims`; the ABRs are built from these (`BolaAbr` from `avg_ssims` at line 1064).
Before the loop, `main` calls `Connect`. A session whose handshake ends in a stateless reject is replaced by a new one (`StartConnect`) while at most `kMaxClientHellos` client hellos have been sent over all sessions; any other failure ends `Connect`. If `Connect` fails, `main` prints the session's error and returns 1 (0 for a tolerated version mismatch).

For each segment, the loop does the following in order:
1. It asks the ABR for a decision: `Dispatcher::GetQuality`, which runs PreUpdate,
   BolaE and PostUpdate.
2. It sleeps for the pause.
3. It downloads the reliable half. The abandonment monitor runs during the download
   and may call BolaE in progress. The loop then takes the download's time out of the
   virtual buffer with `SetBuffer(GetBuffer() - time)`.
4. It downloads the required unreliable half in the same way.
5. It turns losses into a hole list. If the buffer slack allows, it refills the holes
   with deadline-bounded requests.
6. It fetches the optional frames, if the slack still allows.
7. It commits the segment.

An abandoned request makes the loop retry the same segment (`--i; continue`). The
retry uses the quality (BOLA) or SSIM entry (BPP) that the abandonment rule picked,
and does not call the ABR again.

## 2. Hard behaviours (the hazards of `PROJECT.json`)

- **Numeric edges.**
  - `BPPShouldAbandon` stores `buffer_occ - time` in a `uint32_t`. Past the buffer,
    the value wraps and BPP stops abandoning.
  - The kBufferLow clamp matters after the insufficient-buffer rule picks a low-SSIM
    entry.
  - `generate_loss_information` can step its iterator past the end.
  - `QualityFromThroughput` keeps a bitrate equal to the safe throughput.
- **Stale state.** The in-progress BolaE "adjusts" a copy of each map entry, so
  abandonment scores full sizes instead of remaining cost.
- **Protocol sequences.**
  - Plain `--abr=bola` hands BolaE an empty map and exits at segment 2.
  - Under BPP, segment 1 uses an uninitialised `ssim_q`.
- **Retries and deadlines.**
  - Nothing bounds the number of retries except the falling quality. Under BOLA-E the quality falls only because the bytes still missing must exceed the recommended quality's whole segment.
  - A hole-fill request is cancelled at the first check past its deadline and then waits for its stream to close; the whole time is charged, so the slack it leaves is at most kSafetyMargin and usually less.
- **Resource bound.** The buffer at capacity: BOLA's overrun rule, and the order of PreUpdate and the pause in `ThroughputAbr`.
- **Unreliable delivery and partial responses.** A lost frame can straddle two frame ranges. A short response gets a padded body and one synthetic tail frame. Each hole-fill round can lose bytes again.
- **Connect.** The loop bound counts the current session's hellos before `UpdateStats` folds them in; reconnects after stateless rejects must stop; the TOO_MANY_REJECTS verdict goes to `connection_error_`, which `main` never reads.
- **Manifest order.** `avg_ssims` is collected in document order and reversed, while the bitrates are sorted; SSIM keys of all representations of a segment share one map, so an equal key is overwritten, and `no_drop` sends every quality without a frames entry to key 0.0. Two representations with the same kbps share one adaptation-set entry; `segment_duration` truncates to whole seconds.
- **Sequencing.** The optional frames must not be fetched while required bytes are missing. The startup error of MPC must leave its window.

## 3. Modules

| Module | Models | State / actions |
|--------|--------|-----------------|
| `BolaAbr` | `BolaAbr` of `bola.cc`, as driven by `Dispatcher::GetQuality(BolaAbr&)` | Variables: `buffer_level`, `last_quality`, `placeholder`, `ibr_safety` (the factor as an exact fraction), `pause` and `exit_code` (the argument of `exit()` once the process has stopped). Actions: `GetQualityInit`, `GetQualityBolaE`, `GetQualityRebufferExit` and `SetBuffer`. `BolaEInProgress` is the in-progress call as an operator: it changes no state. |
| `BolaAbandon` | `EnhancedBolaShouldAbandon` of `quic_client_base.cc` 294-323, the vector form of `BolaE` (`bola.cc` 170-201) and the monitor's constants | EXTENDS `BolaAbr`. Operators only: `FillSsimMap` (one entry per quality, keyed by its average SSIM), `BolaEVector` and `EnhancedBolaShouldAbandon(received, time, dc, tp)`, which returns the set of outcomes (whether to abandon, and the `ret__quality`) a build can produce. A poll later than the buffer lasts makes the level `buffer_occ - time` negative. `AbandonLevels` offers it both negative and wrapped, because `DownloadConfig`'s field type is declared outside `src/`. `BolaEVectorOutcomes` offers both results of the undefined `size_t` conversion of a negative safe size: saturated to 0, or wrapped above every size. A wrapped level is evaluated at `FarLevel`, from which `QualityFromBufferLevel`'s choice no longer changes, because 2^32 ms overflows TLC's integers. Under the `bola_decisions` bounds, negative-level abandonments happen, and every outcome gives the same `ret__quality`. |
| `MCBolaAbr` | the `--abr=bola` loop with `bola_enhanced` | Segment 1 is fetched at quality 0 without a decision. Then `Decide` and `Download` alternate until `NumSegments`. `Abandon` is a poll of the reliable or the unreliable half that abandons: the elapsed time leaves the buffer and the segment is retried at the returned quality, without `GetQuality`. |
| `MpcAbr` | `MpcAbr` of `mpc.cc` and `TransportHarmonic` | Variables: `buffer_level`, `last_quality`, `estimate_throughput`, `past_errors`, `pause`, `throughputs`. `GetQuality(observed, err_observed)` is a whole `Dispatcher::GetQuality` call (the harmonic window's sample, and PreUpdate's own sample: both halves' bytes over `GetTime(true)`): AddThroughput, PreUpdate, the depth-5 `Search` as RECURSIVE operators, the pause and PostUpdate. |
| `MCMpcAbr` | the loop for `--abr=mpc` | `Decide` and `Download`. A download observes a throughput from `Observations`, and PreUpdate's sample is that times a k from `UnrelDivisors`. It also records the history that the properties compare against. |
| `SegmentScheduler` | the `--abr=bpp` loop of `quic_simple_client_bin.cc` 1132-1404, `fill_holes`, and `WaitForEvents` / `BPPShouldAbandon` / `DeadlineRequest` | EXTENDS `BolaAbandon`; see below. |
| `MCSegmentScheduler` | constants and properties for TLC | A six-entry SSIM map: three qualities, each with a one-range entry and a full entry. |
| `TputAbr` | `ThroughputAbr` of `tput.cc` with `TransportSLST`, as driven by `Dispatcher::GetQuality(ThroughputAbr&)` | Variables: `buffer_level`, `startup`, `pause`, `alpha` (`--smooth`) and `throughput`, both exact fractions. `GetQuality(current, q)` is one whole dispatcher call: `AddThroughput`, `PreUpdate`, `QualityFromThroughput` at 0.9 of the estimate, the pause, `PostUpdate`. `SetBuffer` and `TputInit` (the constructor). |
| `Connection` | `QuicClientBase::Connect` and `StartConnect` | `connect_pc` is the position in `Connect`. `StartConnect` is the loop test, `UpdateStats` of the old session and a new session with its first hello. `HandshakeEvent` is the environment: another hello, established, a stateless reject, or a failure from `FailureErrors`. `AfterHandshake` is the break test, `ConnectReturn` the TOO_MANY_REJECTS epilogue. |
| `MCTputAbr` | `main` for `--abr=tput` | `Connecting` runs `Connect`; `AfterConnect` is main's check (exit with the session's error, or go on). Then `Decide` and `Download`, as in `MCMpcAbr`. No abandonment rule exists for `tput`, and a retry would be fatal. |
| `RequestTiming` | the timing epilogue of `SendRequestAndWaitForResponse` (`quic_spdy_client_base.cc` 238-281) and `ResetAllTimings` | Variables: `segment_timing` (the reliable and unreliable sample lists), `status` (running, `exit(-3)`, or a SIGFPE), `requests`. `SendRequestAndWaitForResponse` is one request once its stream ended. A response is a sequence of frames `[qt, length, was_lost]`, and `time_rough` comes from `RoughTimes`, 0 included. `Sample` fills the `SubSegmentTiming` with or without `--fine`. `Outcomes` is its division: a zero `time_` traps or stores infinity (NaN for 0 / 0), because the field types are declared outside `src/`. A request is abandoned (not kept) only at a check at least 1 ms in. |
| `ManifestParse` | `main`'s manifest loop and the steps after it (`quic_simple_client_bin.cc` 822-1013) | Variables: `manifest` (a sequence of parsed elements) and `pos`, `adaptation_set` (kbps -> base URL and segment count), `current_repr_bw`, `avg_ssims`, `ssim_map`, `segment_duration`, `bitrates`, `status` (parsing, done, or `exit(1)`) and the history `repr_avg`. One action per element kind: `Representation` (`bandwidth / 1000`, `insert` keeps an existing key), `BaseURL`, `Initialization`, `SegmentList` (integer division), `SegmentURL` (`AddSsims` into the segment's map, growing `ssim_map` by one or `exit(1)`). `EndOfManifest` is everything after `Read()` returns false: the ascending bitrates, `ToQualityIndices`, `NoDropReshape` with `NoDrop`, and `Reversed(avg_ssims)`. |
| `LossAccounting` | the loss accounting of `quic_simple_client_bin.cc` 310-500 and the code around it at 401-470 and 1318-1353 | Variables: `segment_body`, `hole_range`, `loss_size`, `loss_stage`, and `overrun` (the loss walk dereferenced `frames_order.end()`). Operators: `AppendFrameOrder`, `FillSegmentBody`, `GenerateLossInformation` (RECURSIVE `LossWalk` and `SplitLoss`), `GetSubrange`, and `RangeBytes`, the body the server stream's `OnResponseBackendComplete` concatenates for a range list. Actions: `ReceiveRequired` (the required unreliable response: resize, splice, tail frame and loss walk), `FillRound` (one round of `fill_holes`), `EndFill`. |
| `BodyRepair` | what loss accounting promises | Variables: `wanted` (the bytes requested), `missing` (the bytes still wrong) and `phase`. Each delivery may repair any bytes, never breaks one, and a refill happens only while wanted bytes are missing. |
| `MCLossAccounting` | constants, environment and properties | A segment of 8 bytes at file offset 100, whose unreliable ranges are 102-103, 105 and 107. The required request is the first 2 or all 3 ranges (`GetSubrange`). It instantiates `BodyRepair` with `missing` as the set of wrong bytes of the body. |

### `SegmentScheduler`

**Variables**
- The loop's locals: `segment` (i), `retry`, `ssim`, `ssim_q`, `bpp_ssim`, and `seg_map` (`ssim_map[i-1]`).
- `stage`: where the loop is.
- `plan`: the unreliable request sizes of the attempt.
- `dl`: the request in flight. It holds the `DownloadConfig` fields, plus the stream's received and lost bytes, its elapsed time at the last check, and `wait`, the time its stream took to close after a cancel.
- `fill`: the locals of `fill_holes`.

**Actions**
- `Tick` is one iteration of `WaitForEvents`:
  - the event loop delivers, or on the unreliable stream loses, up to one chunk from `Deliveries` in one time unit;
  - a finished stream is kept;
  - otherwise the policy's rule runs. `BPPShouldAbandon` uses an estimate from `Estimates` (0 included, which returns early) and includes the `uint32_t` remaining buffer. `DeadlineRequest` uses `target_time = remaining_time - kSafetyMargin`;
  - on a cancel, `AfterCheck` adds a close wait from `CloseWaits` (`quic_client_base.cc` 393-395). The loop charges `Charged(dl)`, the check time plus the wait, which is what `time_rough` and `GetRealTime` measure.
- Each loop action is the code between two blocking requests, as a whole:
  - `DecideFirst`: i == 1. `ssim_q` is whatever `UninitSsim` holds.
  - `DecideRetry`: the entry the rule returned.
  - `DecideFresh`: `GetQuality` of `BolaAbr`.
  - `AfterReliable` and `AfterUnreliable`: `SetBuffer`, then retry, or continue with the next request.
  - `AfterFill`: one round of the `fill_holes` loop. On exit it takes the caller's `SetBuffer(GetBuffer() - used_time)`, then does the optional fetch or the commit.

### Units and abstraction

- **Time.** Time is counted in units of 500 ms, so the code's millisecond constants are divided by `TimeUnit`:
  - `GRACE_TIME_THRESHOLD` is 1;
  - `kSafetyMargin` is 4. Its definition is not in `src/`, so the 2 s comes from the spec;
  - with a 4 s segment and a 20 s buffer, D = 8 and B = 40, kBufferLow = 20 and kMinThreshold = 4.
- **Sizes.** Bitrates and throughput are in bits per time unit, and sizes are in bytes. The factor 8 between them is kept.
- **Utilities.** Average SSIMs and SSIM keys are integers.
  - BOLA does not change when a constant is added to every utility: alpha and gp shift, and vp and every score stay the same.
  - The constants are chosen so that alpha, vp and gp are integers. ASSUME clauses check that the divisions are exact.
- **Exact fractions.** These are pairs `<<num, den>>`:
  - BOLA's scores and IBR safety factor;
  - MPC's estimate and errors.
- **Throughput estimates.** The estimate of a `MovingAverage` / `BPPMovingAverage` is a nondeterministic member of `Throughputs` / `Estimates`.
- **Transport.** Transport progress is a nondeterministic chunk per time unit. The elapsed time of a request is exactly what `GetRealTime` returns to the loop.
- **Response bodies.** A response body is the requested bytes in request order, with `Junk` where a frame was lost. The transport's frame timings cover the body, received or lost. The sequencer that produces the body is not under `src/`; spec example 4 implies that the body includes the gaps.
- **Range lists.** A range list is a sequence of `<<first, last>>` offsets, and the string form is left out.
- **TransportSLST.** A download's `size * 8 / time` is the observed throughput. The average starts from the member's 0.0.
- **Uninitialised `ssim_q`.** The read of the uninitialised `ssim_q` is a choice over `UninitSsim`: an all-zero slot, and one with too many frames.

## 4. Runs

| Run | Expect | What it shows |
|-----|--------|---------------|
| `bola_decisions` | pass | `BufferNeverOverfull`: after every decision `buffer_level <= B - D`. `PauseKeepsLowWatermark`: a pause never leaves less than kBufferLow. `RetriesBounded`: `quality + retry <= NQ - 1`, so every abandonment retries at a strictly lower quality; this rests on the comparison of the bytes still missing with the recommended quality's whole segment, on both halves. |
| `bola_ibr` | violation | `IbrRespected` (spec §8) fails. The IBR walk looks only below the score-best key. |
| `bola_plain` | violation | `NoExitOnDecision` fails. Plain BOLA receives an empty map and `exit(1)`s at segment 2. |
| `mpc_decisions` | pass | `EstimatorWindows`: the harmonic window and the error window hold exactly the last five samples. `SearchOptimal`: every choice is the lowest quality that starts a best plan, compared against an exhaustive search over all plans. PreUpdate's error sample is both halves' bytes over the unreliable half's time (`mpc.cc` 140), not the harmonic window's sample, so the error is not 0 even on a steady link; `EstimatorWindows` is what makes the constructor's startup error of 1.0 leave the window after five more decisions. |
| `bpp_scheduler` | pass | `AllSegmentsPlayed`: every run of the loop ends, through any number of abandonments, retries, hole fills and optional fetches. `OptionalOnlyAfterRepair`: the optional fetch starts only after the required bytes are in. This holds because a hole fill stopped by its budget also fails the slack test at 1357. `CancelEndsFill`: a fill request cut by its deadline is the last request of the segment, however long its stream takes to close, because `fill_holes` takes the whole measured time off `remaining_pause`. |
| `bpp_wrap` | violation | `BppRuleAsSpecified` fails. A quality-2 download is abandoned with one unit of buffer left, and its retry at quality 1 outlasts the buffer. `remaining_buffer` then wraps, and BPP never re-evaluates the download. |
| `bpp_inprogress` | violation | `BppScoresRemainingCost` fails. The in-progress BolaE adjusts copies of the entries, so it scores full sizes. |
| `bpp_uninit` | violation | `NoFatalExit` fails. Segment 1 reads the uninitialised `ssim_q`, and a stack value with too many frames reaches `get_subrange`'s `exit(1)`. |
| `loss_accounting` | pass | `HolesAreMissing`: in every state where holes may be filled, the hole list covers exactly the wanted bytes that are still wrong in the body. `loss_size` is their number, and the walk never ran past the last range. `RepairRefined`: `LossAccounting` implements `BodyRepair` under the mapping from the body to the set of wrong bytes (a PROPERTY over the instance's `RepairSpec`). |
| `tput_decisions` | pass | `SustainableQuality`: every decision is the highest quality whose bitrate is at most 0.9 of the smoothed estimate (spec §4.4); the reference is a set maximum, not the code's scan. `BufferWithinCapacity`: while a segment downloads, the buffer, which already counts it, stays within 0 .. B - D. `SessionBudget`: `Connect` starts at most `kMaxClientHellos` + 1 sessions, however the handshakes end. `AllSegmentsPlayed`: the process ends (after the loop, or at main's exit for a failed `Connect`) under weak fairness. |
| `manifest_order` | violation | `ParsedAsSpecified` (spec §3 and §8) fails. An MPD listing 2 kbps before 4 kbps ends with `avg_ssims` = <<96, 90>> for bitrates <<2, 4>>: line 1013 reverses the document order, which is right only for an MPD listed highest first. In the same MPD a shared SSIM key (82) lets the 4 kbps entry overwrite the 2 kbps one, and the `no_drop` map has one entry for two bitrates. The same MPDs listed highest first satisfy both. |
| `timing_zero` | violation | `SampleTimeFloored` (spec §5, ordering) fails. Without `--fine`, which is the default, a kept one-frame request that ends within the millisecond it started stores `time_ = 0` (line 272) and divides the body's bits by it: the code floors only `time_rough_` to 1 ms. |

Each property of a passing run has a mutant in `PROJECT.json`: a plausible bug in one mapped definition, which TLC finds. Examples:
- `fill_holes` without the decrement of `remaining_pause`;
- a retry that repeats the abandoned entry;
- the error window never popping;
- the next search level started from the previous quality instead of the one just evaluated;
- a loss piece placed at the start of its range instead of at its offset;
- the throughput scan with `>=` for `>`;
- the pause computed before PreUpdate;
- the hello count that ignores the current session.

Two properties were withdrawn because they held only through a simplification of the model:
- `FillKeepsSafetyMargin` (every exit from `fill_holes` leaves kSafetyMargin of slack). It held only because time advanced in whole units and a cancel took no time to close. With the close wait modelled, a cancelled fill can end with 3 units of slack against a margin of 4, below the minimum residual of spec §9 (line 217).
- `SteadyLinkErrorClears` (on a steady link the MPC error clears). It held only because PreUpdate and the harmonic window were fed one sample.

An earlier run, `tput_rejects`, showed that `main` prints the session's stateless-reject error where spec §4.7 names QUIC_CRYPTO_TOO_MANY_REJECTS. It was retired for `manifest_order` under the limit of twelve runs: it changes only the printed error name, not the exit code. `Connection` still models the split.

An earlier run compared MPC's search with spec §4.3's formula, which clamps the buffer after the download instead of before it. It was retired: the code's clamp matches the pause PostUpdate takes, so the difference says nothing about the code.

### Bounds

**BOLA**
- 5 segments.
- Throughputs of 2, 12, 24 and 40.
- Download times of 1, 6 and 12 units.
- Two SSIM maps.

Abandonment polls come at 2 or 4 units (past the 500 ms grace) with a measured bandwidth of 0, 4 or 16 bits per unit; segments are 8, 16 and 32 bytes, a quarter of them reliable. At 16 the safe size can hold the whole current segment, so BolaE in progress may recommend the current quality and only the size test stops the abandonment. These bounds also reach rebuffering, the overrun rule, the placeholder pause, the kBufferLow clamp, the IBR walk and favouring of the last quality.

**Request timing**
- Three requests.
- Rough times of 0, 1 and 3 ms.
- Responses of up to two frames, arriving 0.4 or 1.6 ms apart, plus the empty response of an abandoned request.

A first request already reaches the zero-duration sample. These bounds also reach the frame span that `--fine` floors to 1 ms.

**MPC**
- 6 decisions.
- Observations of 4 and 32; PreUpdate's sample is the observation or twice it (the unreliable half took all or half of the time).

With these bounds, both windows fill and then slide.

**BPP**
- 5 segments, chunks of 2 or 4 bytes, estimates of 0, 4 or 32.
- A cancelled stream closes at once or one time unit later.
- The map's sizes make requests last 1–8 time units.

These bounds reach:
- abandonment with a retry of the segment;
- the kept-cancel;
- losses and hole fills, including second fill rounds;
- the optional fetch, and slack too small to fill.

**Loss accounting**
- Frames of 1 or 2 bytes, each lost or received.
- Every prefix of the request delivered.
- Up to two fill rounds (`MaxRounds`).

These bounds reach losses that straddle two ranges, short responses with a tail frame, and second rounds that lose bytes again. Three ranges with gaps between them make a wrong offset land on a byte outside the request.

**Throughput**
- 6 decisions.
- `--smooth` of 0 or 1/2.
- Observations of 10, 20 and 60, against bitrates 9, 18 and 36.

At 20, 0.9 of the estimate equals bitrate 18 exactly, so the `>` boundary of the scan is reached. A download at 10 observes a rebuffer, and a run of fast downloads fills the buffer to the pause.

**Manifest**
- Two representations, of 2 and 4 kbps, each with 4 s segments, an initialisation segment and two media segments, listed in either order.
- A media segment offers a reliable-only entry (0 frames) and one with 40 frames. The 4 kbps second segment has three variants: distinct keys, only a reliable entry at the 2 kbps key 82, or both at once.
- `no_drop` is on.

Both orders reach the reversal. The shared key reaches the overwrite, and a reshaped map with a missing quality. Two representations are enough: the reversal is wrong for every order except the descending one.

**Connect**: `kMaxClientHellos` is 3 (its value lives in `QuicCryptoClientStream`, outside `src/`), a handshake sends at most 2 hellos, and it fails with QUIC_INVALID_VERSION or QUIC_HANDSHAKE_TIMEOUT. With 2 hellos per session the count passes 3 after two rejected sessions, and with 1 only after four, so both the early and the late end of the reconnect loop are reached; `--version_mismatch_ok` is on, so both exit codes are reached.

The wrap run uses chunks of 1 byte and an estimate of 64. The smaller chunks let a download outlast one unit of buffer. The larger estimate makes the rule keep a download it can finish in time.

### Fairness

The loop is one thread. It blocks only inside `WaitForEvents`, so:
- its steps are weakly fair;
- the transport delivers or loses a chunk every time unit while a request runs, which is weak fairness of `Tick`.

Both conditions are written as `[]<>~P \/ []<><<A>>_vars`, where P is the action's enabling condition; this avoids TLC evaluating ENABLED over the BolaE operators. A separate run with 3 segments checked, as an invariant over all 2725 reachable states, that these conditions equal `ENABLED`. `MCTputAbr` states the same fairness as `WF_vars` of `Connecting`, `AfterConnect`, `Decide` and `Download`. For `Connecting` it means the handshake ends: the server answers or the handshake timeout closes the connection. Its actions are cheap, so TLC evaluates ENABLED directly. `MaxRetries` is a bound of the model, not of the code, and it is never reached (no segment is retried twice under these bounds). The property `AllSegmentsPlayed` therefore does not depend on it.

## 5. Plan

The remaining work, most important first:
1. A composition of `LossAccounting` with the scheduler's fill rounds and their time budget.
2. The sums over `segment_timing` (`GetSumThroughput`, `GetSumTime`) feeding `TransportBola`, once `MovingAverage` has an exact form.

The commented-out max_quality filter of `QualityFromBufferLevel` (`bola.cc` 465-467) was shown reachable by an earlier run, `bola_osc`. That run is retired. The models keep the code's unfiltered choice, and the hazard is listed without a property.

## 6. Not modelled

- **Throughput estimators.** `MovingAverage` and `BPPMovingAverage` use floating-point EWMAs with `pow`. The BOLA and BPP models take the estimate from a small set. `TransportHarmonic` and `TransportSLST` are modelled exactly.
- **Transport stack.** QUIC itself, TLS and the HTTP framing. Of the server stream only the body built for a `multibytes=` range list is modelled (`RangeBytes` in `LossAccounting`, from `OnResponseBackendComplete` 257-276); its headers, 404 and OPTIONS replies, push resources and single-range branch are not.
- **String processing.** The XML reader, `stod`/`stoi` and the byte-range strings of a segment (`media_range`, the frame-range lists and their sizes) are abstracted: `ManifestParse` consumes already parsed elements, with SSIMs as integers in hundredths. The command line and `feature_map` are constants. The scheduler models take the parsed maps as constants rather than composing with `ManifestParse`. Its bounds use distinct kbps and whole-second segments; the duplicate-kbps and truncated-duration hazards are modelled by the actions but no run states what such an MPD should give, because the spec does not say.
- **Output and logging.** The file output and the logging. The segment body is assembled in `LossAccounting`, for one segment and separately from the scheduler's time budget.
- **Resend queue.** `ResendSavedData` and `ClearDataToResend` act on `data_to_resend_on_connect_`, which is always empty here: `main` sends no request before `Connect` returns.
- **Crypto handshake.** The handshake is an environment choice per round; its messages are not modelled.
- **Plain BOLA abandonment.** `BolaRequest` / `bola_shouldAbandon` are unreachable: plain BOLA exits at its first decision (`bola_plain`) and segment 1 is fetched at quality 0, for which the rule returns early.
- **Idle diagnostic.** The `[idle]` diagnostic in `WaitForEvents`.
