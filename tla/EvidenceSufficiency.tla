------------------------- MODULE EvidenceSufficiency -------------------------
(***************************************************************************)
(* evidence: the level an observation gives its Evidence, and whether a    *)
(* set of Evidence is enough for a Closure Policy.  Nothing is stored;     *)
(* every caller derives the Evidence again from the requests it was made   *)
(* of, so that a record is what its observation and its instant make it.   *)
(*                                                                         *)
(* Evidence is [observation, recorded]; an observation is [at, time,       *)
(* status, sourced, satisfied], with the State revision and the instant it *)
(* was made at.  The Evidence of a Change is [observation, recorded,        *)
(* expected].  Instants are given by the caller; the code has no clock.    *)
(***************************************************************************)
EXTENDS Naturals, Sequences, FiniteSets

CONSTANTS
    MinimumLevel,       \* of the policy: an index of the scale
    MaximumAge,         \* maximum_evidence_age
    Baseline            \* the observation the Differences were found in

ASSUME MinimumLevelAssumption == MinimumLevel \in Nat
ASSUME MaximumAgeAssumption == MaximumAge \in Nat

-----------------------------------------------------------------------------
(* levels.py: of the scale E0..E6 only the first two are derivable. *)

DerivableLevels == {0, 1}

DeriveLevel(observation) ==
    IF observation.status \in {"COMPLETE", "EMPTY"} /\ observation.sourced
    THEN 1 ELSE 0

LevelOf(e) == DeriveLevel(e.observation)

\* Seeded fault: the strongest piece of Evidence sets the level.
Strongest(evidence) ==
    IF evidence = {} THEN 0
    ELSE CHOOSE l \in {LevelOf(e) : e \in evidence} :
             \A e \in evidence : LevelOf(e) <= l
Weakest(evidence) ==
    IF evidence = {} THEN 0
    ELSE CHOOSE l \in {LevelOf(e) : e \in evidence} :
             \A e \in evidence : l <= LevelOf(e)

-----------------------------------------------------------------------------
(* engine.py *)

(* _require_recorded_after: Evidence is recorded when its observation has  *)
(* ended, or later.                                                        *)
Derivable(e) == e.recorded >= e.observation.time

(* _change_result_evidence: what was observed after the Change is another  *)
(* observation than the one the Difference was found in, and not of a      *)
(* State older than the Change was authorized on.                          *)
ChangeDerivable(c) ==
    /\ Derivable(c)
    /\ c.observation # Baseline
    /\ c.observation.at >= c.expected

-----------------------------------------------------------------------------
(* sufficiency.py *)

Determinate == {"BLOCKED", "FAILED", "INVALID", "CONFLICTED"}
Indeterminate == {"INCOMPLETE", "UNKNOWN", "UNOBSERVED"}

(* _age is negative, or over the maximum. *)
FutureDated(e, instant) == e.recorded > instant
AgeExceeded(e, instant) == instant > e.recorded + MaximumAge

IsStale(evidence, instant) ==
    \E e \in evidence : FutureDated(e, instant) \/ AgeExceeded(e, instant)

LevelInsufficient(evidence) ==
    \/ MinimumLevel \notin DerivableLevels
    \/ Weakest(evidence) < MinimumLevel

IsInsufficient(evidence) ==
    \/ evidence = {}
    \/ \E e \in evidence : e.observation.status \in Determinate
    \/ LevelInsufficient(evidence)

(* _evaluate, in this order. *)
Sufficiency(evidence, instant) ==
    CASE IsStale(evidence, instant) -> "STALE"
      [] ~IsStale(evidence, instant) /\ IsInsufficient(evidence) -> "INSUFFICIENT"
      [] ~IsStale(evidence, instant) /\ ~IsInsufficient(evidence)
            /\ \E e \in evidence : e.observation.status \in Indeterminate -> "UNKNOWN"
      [] OTHER -> "SUFFICIENT"

(* The oldest of some Evidence, from which a Closure Evaluation expires.   *)
Oldest(evidence) ==
    CHOOSE t \in {e.recorded : e \in evidence} :
        \A e \in evidence : t <= e.recorded
=============================================================================
