------------------------------ MODULE MCTputAbr ------------------------------
(***************************************************************************)
(* ThroughputAbr as the segment loop of quic_simple_client_bin.cc drives   *)
(* it with --abr=tput: TransportSLST is the estimator, no abandonment rule *)
(* runs (WaitForEvents has none for "tput") and a retry is fatal, so a     *)
(* segment is a decision followed by its download.  Segment 1 is fetched   *)
(* at quality 0 without a decision.  A download of quality q at observed   *)
(* throughput o takes Rate(q) * D / o time units, and o is the size * 8 /  *)
(* time that the next AddThroughput computes.                              *)
(*                                                                         *)
(* main runs the loop only once Connect has returned a connected session;  *)
(* a failed Connect ends the process (quic_simple_client_bin.cc 737-749).  *)
(***************************************************************************)
EXTENDS TputAbr, Connection, TLC

CONSTANTS
  NumSegments,      \* num_segments: segments 1 .. NumSegments - 1 are played
  Observations,     \* throughputs a download can observe, bits per time unit
  VersionMismatchOk \* FLAGS_version_mismatch_ok

ASSUME \A q \in 0 .. Len(Bitrates) - 1, o \in Observations : (Rate(q) * D) % o = 0

VARIABLES
  segment,          \* the loop index i
  phase,            \* "connect", then "decide" before GetQuality and
                    \* "download" after it, or "exit"
  quality,          \* q
  observed,         \* throughput of the last download
  exit_code,        \* main's return value once phase = "exit"
  reported_error,   \* the error main prints for a failed Connect
  sessions_started  \* sessions Connect has created (history)

MCBitrates == <<9, 18, 36>>
MCSmoothings == {<<0, 1>>, <<1, 2>>}

MCFailureErrors == {"QUIC_INVALID_VERSION", "QUIC_HANDSHAKE_TIMEOUT"}

loop_vars == <<segment, quality, observed>>
main_vars == <<exit_code, reported_error, sessions_started>>
vars == <<tput_vars, conn_vars, loop_vars, phase, main_vars>>

Qualities == 0 .. NQ - 1

DownloadTime(q, o) == (Rate(q) * D) \div o

\* quic_simple_client_bin.cc 1117-1136: the loop starts at segment 1, whose
\* quality is fixed to 0
Init ==
  /\ TputInit
  /\ ConnInit
  /\ segment = 1
  /\ phase = "connect"
  /\ quality = 0
  /\ observed = 0
  /\ exit_code = 0
  /\ reported_error = NoError
  /\ sessions_started = 0

\* a step of Connect
Connecting ==
  /\ phase = "connect"
  /\ ConnectNext
  /\ sessions_started' = IF StartConnect THEN sessions_started + 1 ELSE sessions_started
  /\ UNCHANGED <<tput_vars, loop_vars, phase, exit_code, reported_error>>

\* quic_simple_client_bin.cc 737-751: a failed Connect prints the session's
\* error and returns 1, or 0 for a tolerated version mismatch
AfterConnect ==
  /\ phase = "connect"
  /\ connect_pc = "returned"
  /\ IF Connected
     THEN /\ phase' = "download"
          /\ UNCHANGED <<exit_code, reported_error>>
     ELSE /\ phase' = "exit"
          /\ reported_error' = session.error
          /\ exit_code' =
               IF VersionMismatchOk /\ session.error = "QUIC_INVALID_VERSION" THEN 0 ELSE 1
  /\ UNCHANGED <<tput_vars, conn_vars, loop_vars, sessions_started>>

\* quic_simple_client_bin.cc 1165-1169: q = (int) abr.GetQuality(retry, {})
\* and pause = abr.GetPause()
Decide ==
  /\ phase = "decide"
  /\ \E q \in Qualities : GetQuality(<<observed, 1>>, q) /\ quality' = q
  /\ phase' = "download"
  /\ UNCHANGED <<segment, observed, conn_vars, main_vars>>

\* mutant: the download is retried as after an abandonment (--i; continue)
DownloadRetry ==
  /\ phase = "download"
  /\ segment < NumSegments
  /\ \E o \in Observations :
       /\ SetBuffer(buffer_level - DownloadTime(quality, o))
       /\ observed' = o
  /\ segment' = segment
  /\ phase' = "decide"
  /\ UNCHANGED <<quality, conn_vars, main_vars>>

\* quic_simple_client_bin.cc 1233-1310: the segment at quality q is
\* downloaded and its time taken out of the buffer
Download ==
  /\ phase = "download"
  /\ segment < NumSegments
  /\ \E o \in Observations :
       /\ SetBuffer(buffer_level - DownloadTime(quality, o))
       /\ observed' = o
  /\ segment' = segment + 1
  /\ phase' = "decide"
  /\ UNCHANGED <<quality, conn_vars, main_vars>>

\* the loop ends after segment NumSegments - 1
Done ==
  /\ segment = NumSegments \/ phase = "exit"
  /\ UNCHANGED vars

Next == Connecting \/ AfterConnect \/ Decide \/ Download \/ Done

\* the client is a single thread that always takes its next step, and a
\* handshake ends: the server answers, or the handshake timeout closes it
Fairness ==
  /\ WF_vars(Connecting) /\ WF_vars(AfterConnect)
  /\ WF_vars(Decide) /\ WF_vars(Download)

Spec == Init /\ [][Next]_vars /\ Fairness

----------------------------------------------------------------------------
Fraction(x) == x[1] \in Nat /\ x[2] \in Nat \ {0}

TypeOK ==
  /\ buffer_level \in Int
  /\ startup \in BOOLEAN
  /\ pause \in Nat
  /\ alpha \in Smoothings
  /\ Fraction(throughput)
  /\ segment \in 1 .. NumSegments
  /\ phase \in {"connect", "decide", "download", "exit"}
  /\ connect_pc \in {"init", "loop", "handshake", "after", "returned"}
  /\ session.hellos \in 0 .. MaxSessionHellos
  /\ num_sent_client_hellos \in Nat
  /\ exit_code \in {0, 1}
  /\ quality \in Qualities
  /\ observed \in Observations \cup {0}

\* the quality of spec section 4.4 for an estimate tp: the highest i with
\* R[i] <= kSafetyFactor * tp, and 0 if there is none
SpecQuality(tp) ==
  LET ok == {i \in Qualities : Rate(i) * tp[2] * 10 <= 9 * tp[1]}
  IN  IF ok = {} THEN 0 ELSE CHOOSE i \in ok : \A j \in ok : j <= i

\* Every decision picks the highest quality whose bitrate the estimate,
\* after the safety factor, sustains: the early-exit scan of
\* QualityFromThroughput (tput.cc 82-90) over the smoothed estimate that
\* AddThroughput has just produced agrees with spec section 4.4.
SustainableQuality ==
  [][phase = "decide" => quality' = SpecQuality(throughput')]_vars

\* While a segment downloads, the buffer (which already counts it) has room
\* for it: PreUpdate's reset and increment, the pause GetQuality derives
\* from the updated level and PostUpdate's subtraction keep the level in
\* 0 .. B - D whatever the downloads before took.
BufferWithinCapacity ==
  phase = "download" => buffer_level \in 0 .. B - D

\* Every run of the client ends: Connect gives up or connects, and then
\* tput never abandons or retries, so each segment is decided and
\* downloaded once.
AllSegmentsPlayed == <>(segment = NumSegments \/ phase = "exit")

\* Connect creates at most kMaxClientHellos + 1 sessions, however the
\* handshakes go: GetNumSentClientHellos counts the current session's hellos
\* before UpdateStats folds them in at the next StartConnect, and every
\* session sends at least one.
SessionBudget == sessions_started <= kMaxClientHellos + 1

=============================================================================
