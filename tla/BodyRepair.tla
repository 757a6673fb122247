----------------------------- MODULE BodyRepair -----------------------------
(***************************************************************************)
(* What the loss accounting and hole fill of a segment promise, stated on *)
(* the set of segment offsets whose byte is not (yet) the true one.  A     *)
(* request for the bytes `wanted' delivers some of them; each hole-fill   *)
(* round delivers some of those still missing; a byte once delivered is   *)
(* never damaged again, and a request never touches a byte it did not ask *)
(* for.                                                                    *)
(***************************************************************************)
CONSTANT Initial     \* offsets missing before the request

VARIABLES
  wanted,    \* offsets the segment's unreliable request asks for
  missing,   \* offsets whose byte is not the true one
  phase      \* "request", "holes" or "done"

repair_vars == <<wanted, missing, phase>>

\* a request or a fill round: only wanted bytes arrive, none is lost again
Deliver ==
  /\ missing' \subseteq missing
  /\ missing \ wanted \subseteq missing'
  /\ UNCHANGED wanted

Fetch ==
  /\ phase = "request"
  /\ Deliver
  /\ phase' = "holes"

Refill ==
  /\ phase = "holes"
  /\ missing \cap wanted # {}
  /\ Deliver
  /\ UNCHANGED phase

Stop ==
  /\ phase = "holes"
  /\ phase' = "done"
  /\ UNCHANGED <<wanted, missing>>

RepairInit ==
  /\ wanted \subseteq Initial
  /\ missing = Initial
  /\ phase = "request"

RepairNext == Fetch \/ Refill \/ Stop

RepairSpec == RepairInit /\ [][RepairNext]_repair_vars

=============================================================================
