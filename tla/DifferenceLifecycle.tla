------------------------- MODULE DifferenceLifecycle -------------------------
(***************************************************************************)
(* difference/lifecycle.py: which status of a Difference may follow which, *)
(* what an event of each status has to carry, and when a blocker may name  *)
(* its kind.                                                               *)
(***************************************************************************)
EXTENDS Naturals, Sequences, FiniteSets

Ends == {"SUPERSEDED", "INVALIDATED"}           \* TERMINAL_STATUSES
Leaves == {"BLOCKED", "RETAINED"} \cup Ends     \* from any open status

(* LEGAL_TRANSITIONS: by the status it leaves; "NONE" is before the first. *)
Next_(status) ==
    CASE status = "NONE" -> {"DETECTED"}
      [] status = "DETECTED" -> {"OPEN", "INVALIDATED"}
      [] status = "OPEN" -> {"ACTIVE"} \cup Leaves
      [] status = "ACTIVE" -> {"VERIFYING"} \cup Leaves
      [] status = "VERIFYING" -> {"CLOSED", "ACTIVE"} \cup Leaves
      [] status = "BLOCKED" -> {"OPEN", "ACTIVE", "VERIFYING", "RETAINED"} \cup Ends
      [] status = "RETAINED" -> {"OPEN", "ACTIVE", "VERIFYING", "BLOCKED"} \cup Ends
      [] status = "CLOSED" -> {"REOPENED"} \cup Ends
      [] status = "REOPENED" -> {"ACTIVE", "VERIFYING"} \cup Leaves
      [] OTHER -> {}

Statuses == {"DETECTED", "OPEN", "ACTIVE", "VERIFYING", "BLOCKED", "RETAINED",
             "CLOSED", "REOPENED"} \cup Ends

IsLegalTransition(from, to) == to \in Next_(from)

RequiresNextObservation == {"BLOCKED", "RETAINED", "REOPENED"}
ObservationBoundForbidden == {"CLOSED"} \cup Ends

-----------------------------------------------------------------------------
(* Blockers.                                                               *)

(* blocker_kind_grounding_error is None: what the cycle itself shows.      *)
Grounded(kind, result, sufficiency, gates, authority, changes, observations) ==
    CASE kind = "EVIDENCE_INSUFFICIENT" -> sufficiency = "INSUFFICIENT"
      [] kind = "STALE_BINDING" -> sufficiency = "STALE"
      [] kind = "MATERIAL_CONFLICT" -> result = "CONTRADICTED"
      [] kind = "INVARIANT_FAILURE" -> "G19" \notin gates
      [] kind = "CLAIM_FAILURE" -> "G21" \notin gates
      [] kind = "AUTHORITY_PATH" -> ~authority
      [] kind = "EXECUTION_PATH" -> changes = {}
      [] kind = "OBSERVATION_PATH" -> observations = {}
      [] kind = "OTHER_STRUCTURAL" -> TRUE
=============================================================================
