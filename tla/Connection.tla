------------------------------ MODULE Connection ------------------------------
(***************************************************************************)
(* QuicClientBase::Connect (quic_client_base.cc 83-112): sessions are      *)
(* started until one is connected, the handshake of one fails for another  *)
(* reason than a stateless reject, or more than kMaxClientHellos client    *)
(* hellos have been sent over all sessions.  The handshake itself is the   *)
(* environment: each round it sends another hello (after a REJ), or ends   *)
(* established, statelessly rejected or failed.                            *)
(*                                                                         *)
(* ResendSavedData runs on an empty queue: main sends no request before    *)
(* Connect returns, so data_to_resend_on_connect_ is left out.             *)
(***************************************************************************)
EXTENDS Integers

CONSTANTS
  kMaxClientHellos,   \* QuicCryptoClientStream::kMaxClientHellos
  MaxSessionHellos,   \* hellos one handshake can send before it ends
  FailureErrors       \* errors a handshake can fail with, other than a reject

NoError == "QUIC_NO_ERROR"
StatelessReject == "QUIC_CRYPTO_HANDSHAKE_STATELESS_REJECT"
TooManyRejects == "QUIC_CRYPTO_TOO_MANY_REJECTS"

ASSUME MaxSessionHellos >= 1
ASSUME {NoError, StatelessReject, TooManyRejects} \cap FailureErrors = {}

VARIABLES
  num_sent_client_hellos,           \* num_sent_client_hellos_
  num_stateless_rejects_received,   \* num_stateless_rejects_received_
  connected_or_attempting_connect,  \* connected_or_attempting_connect_
  connection_error,                 \* connection_error_
  session,                          \* session_: [hellos, state, error]
  connect_pc                        \* where Connect is: "init", "loop", "handshake", "after", "returned"

conn_vars == <<num_sent_client_hellos, num_stateless_rejects_received,
               connected_or_attempting_connect, connection_error, session, connect_pc>>

\* the session's connection is open: during the handshake and once established
Connected == session.state \in {"handshaking", "established"}

EncryptionBeingEstablished == session.state = "handshaking"

\* mutant: the current session's hellos are only counted once UpdateStats
\* has folded them in
GetNumSentClientHellosStale == num_sent_client_hellos

\* hellos of all sessions; the current one is counted only while attempting
GetNumSentClientHellos ==
  num_sent_client_hellos
    + (IF connected_or_attempting_connect THEN session.hellos ELSE 0)

\* the constructor and Initialize (quic_client_base.cc 46-58)
ConnInit ==
  /\ num_sent_client_hellos = 0
  /\ num_stateless_rejects_received = 0
  /\ connected_or_attempting_connect = FALSE
  /\ connection_error = NoError
  /\ session = [hellos |-> 0, state |-> "none", error |-> NoError]
  /\ connect_pc = "init"

\* main calls Connect (quic_simple_client_bin.cc 737)
CallConnect ==
  /\ connect_pc = "init"
  /\ connect_pc' = "loop"
  /\ UNCHANGED <<num_sent_client_hellos, num_stateless_rejects_received,
                 connected_or_attempting_connect, connection_error, session>>

\* the loop test and StartConnect (quic_client_base.cc 86-88, 114-141):
\* the old session's stats are folded in (UpdateStats) and a new session
\* sends its first client hello
StartConnect ==
  /\ connect_pc = "loop"
  /\ ~Connected
  /\ GetNumSentClientHellos <= kMaxClientHellos
  /\ num_sent_client_hellos' =
       IF connected_or_attempting_connect
       THEN num_sent_client_hellos + session.hellos ELSE num_sent_client_hellos
  /\ num_stateless_rejects_received' =
       IF connected_or_attempting_connect /\ session.error = StatelessReject
       THEN num_stateless_rejects_received + 1 ELSE num_stateless_rejects_received
  /\ session' = [hellos |-> 1, state |-> "handshaking", error |-> NoError]
  /\ connected_or_attempting_connect' = TRUE
  /\ connect_pc' = "handshake"
  /\ UNCHANGED connection_error

\* the loop condition fails
LeaveConnectLoop ==
  /\ connect_pc = "loop"
  /\ ~(~Connected /\ GetNumSentClientHellos <= kMaxClientHellos)
  /\ connect_pc' = "after"
  /\ UNCHANGED <<num_sent_client_hellos, num_stateless_rejects_received,
                 connected_or_attempting_connect, connection_error, session>>

\* one event of the handshake WaitForEvents waits for (lines 90-92)
HandshakeEvent ==
  /\ connect_pc = "handshake"
  /\ EncryptionBeingEstablished
  /\ \/ /\ session.hellos < MaxSessionHellos
        /\ session' = [session EXCEPT !.hellos = @ + 1]
     \/ session' = [session EXCEPT !.state = "established"]
     \/ session' = [session EXCEPT !.state = "closed", !.error = StatelessReject]
     \/ \E e \in FailureErrors :
          session' = [session EXCEPT !.state = "closed", !.error = e]
  /\ UNCHANGED <<num_sent_client_hellos, num_stateless_rejects_received,
                 connected_or_attempting_connect, connection_error, connect_pc>>

\* lines 93-102: the (empty) resend, then give up unless the session was
\* statelessly rejected
AfterHandshake ==
  /\ connect_pc = "handshake"
  /\ ~EncryptionBeingEstablished
  /\ connect_pc' = IF session.error # StatelessReject THEN "after" ELSE "loop"
  /\ UNCHANGED <<num_sent_client_hellos, num_stateless_rejects_received,
                 connected_or_attempting_connect, connection_error, session>>

\* lines 104-111: too many stateless rejects is the client's error
ConnectReturn ==
  /\ connect_pc = "after"
  /\ connection_error' =
       IF ~Connected /\ GetNumSentClientHellos > kMaxClientHellos
          /\ session.error = StatelessReject
       THEN TooManyRejects ELSE connection_error
  /\ connect_pc' = "returned"
  /\ UNCHANGED <<num_sent_client_hellos, num_stateless_rejects_received,
                 connected_or_attempting_connect, session>>

ConnectNext ==
  CallConnect \/ StartConnect \/ LeaveConnectLoop \/ HandshakeEvent
    \/ AfterHandshake \/ ConnectReturn

=============================================================================
