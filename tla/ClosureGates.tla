---------------------------- MODULE ClosureGates ----------------------------
(***************************************************************************)
(* reflow/closure.py, claims.py and difference/invariant_verifiers.py: the *)
(* 22 gates of a Closure Evaluation and what follows from them.            *)
(*                                                                         *)
(* A request r is a record of                                              *)
(*   base            the State revision evaluated                          *)
(*   status          of the Difference; the route checks it                *)
(*   flaws           which of its parts do not reproduce (see Flaws)       *)
(*   kernel, witness the Kernel source claimed, and the one witnessed      *)
(*   candidate       whether it comes with an after-state candidate        *)
(*   after           the re-observation: no observation or one             *)
(*   evidence        for sufficiency, judged at judgedAt                   *)
(*   verifying       CHANGE_FREE verification Evidence                     *)
(*   changes         Change result Evidence                                *)
(*   mode            resolution_mode                                       *)
(*   contradicted    whether a material contradiction is declared          *)
(*   bound           the invariants it binds evaluations of                *)
(*   claims          the events of the completion Claim's series           *)
(*   reason          terminal reason Evidence                              *)
(*   proposed, evaluatedAt, and blocker, the kind of one that is proposed  *)
(*   named           the observations the caller names on the event        *)
(*   genesis         whether the genesis event comes with it.              *)
(* Gates that have no data of their own here hold of what the others read. *)
(***************************************************************************)
EXTENDS DifferenceLifecycle, EvidenceSufficiency

CONSTANTS
    Kernel              \* the Kernel source the project's genesis adopted

(* The content of a request that is either what it says it is or not: the  *)
(* Difference's identity, its Objective body, the references to after-     *)
(* observations and snapshots, the Closure Policy.                         *)
Flaws == {"difference", "objective", "references", "policy"}

-----------------------------------------------------------------------------
(* Claims: an append-only series of events [number, previous, status].     *)

(* reconstruct_claim_series: one event of each number from 0, linked.      *)
Reconstructs(events) ==
    /\ events # {}
    /\ {e.number : e \in events} = 0..(Cardinality(events) - 1)
    /\ \A e \in events : e.previous = e.number - 1

ClaimHead(events) ==
    CHOOSE e \in events : \A f \in events : f.number <= e.number

(* resolve_claim_binding, verify_claim_binding_matches_latest. *)
ClaimSatisfied(events) ==
    Reconstructs(events) /\ ClaimHead(events).status = "SATISFIED"

-----------------------------------------------------------------------------
(* The invariants' verifiers, of what they read beside record identities.  *)

(* _base_state_matches_current, K-002, S-004, R-002: the candidate is made *)
(* of the current State by evaluate_closure itself.                        *)
CandidatePresent(r) == r.candidate

(* _k003 *)
OneResolutionPath(r) ==
    CASE r.mode = "CHANGE_BOUND" -> Cardinality(r.changes) = 1
      [] r.mode = "CHANGE_FREE" -> r.changes = {}

(* _k004, _d004 *)
CausalPredecessors(r) ==
    /\ r.after # {}
    /\ IF r.mode = "CHANGE_BOUND" THEN r.changes # {} ELSE r.verifying # {}

(* _a003 *)
AuthorityInTime(r) == \A c \in r.changes : c.recorded <= r.evaluatedAt

(* _a005, _c003: the Change was of exactly the State that is current.      *)
ChangeOfCurrentState(r) == r.changes # {} => Baseline.at = r.base

(* _o003, _no_weak_observation_status *)
NoWeakStatus(r) ==
    \A e \in r.changes \cup r.verifying :
        e.observation.status \notin Determinate \cup Indeterminate

(* _d003, and G8 of a CHANGE_BOUND resolution. *)
IndependentlyObserved(r) ==
    r.after \cap ({c.observation : c \in r.changes} \cup {Baseline}) = {}
ObservedApart(r) == r.mode = "CHANGE_BOUND" => IndependentlyObserved(r)

(* _e001, _e004, _x004 *)
EvidenceSuffices(r) == Sufficiency(r.evidence, r.judgedAt) = "SUFFICIENT"

(* _p004 *)
NotContradicted(r) == ~r.contradicted

(* _r003 *)
NotBeforeBaseline(r) == r.base >= Baseline.at

Verified(id, r) ==
    CASE id = "K-003" -> OneResolutionPath(r)
      [] id = "K-004" -> CausalPredecessors(r)
      [] id = "A-003" -> AuthorityInTime(r)
      [] id = "A-005" -> ChangeOfCurrentState(r)
      [] id = "O-003" -> NoWeakStatus(r) /\ EvidenceSuffices(r)
      [] id = "D-003" -> ObservedApart(r)
      [] id = "E-004" -> EvidenceSuffices(r)
      [] id = "P-004" -> NotContradicted(r)
      [] id = "R-003" -> NotBeforeBaseline(r)
      [] OTHER -> r.flaws = {}

(* expected_g19_invariant_entries, with one for those about identities.    *)
Mandatory ==
    {"K-003", "K-004", "A-003", "A-005", "O-003", "D-003", "E-004", "P-004",
     "R-003", "S-001"}

-----------------------------------------------------------------------------
(* The gates: each TRUE when it is PASS.                                   *)

G1G2(r) == "difference" \notin r.flaws /\ r.status = "VERIFYING"

G3(r) == "objective" \notin r.flaws

Witnessed(r) == r.witness = r.kernel
G4(r) == r.kernel = Kernel /\ (r.candidate => Witnessed(r))

G5G20(r) == NotBeforeBaseline(r)

G6G11(r) ==
    \/ r.mode = "CHANGE_BOUND" /\ r.changes # {} /\ r.verifying = {}
    \/ r.mode = "CHANGE_FREE" /\ r.changes = {} /\ r.verifying # {}

(* derive_differences over the re-observation: the target predicate holds  *)
(* of the one observation that the request selects.                        *)
Reproduces(r) ==
    /\ "references" \notin r.flaws
    /\ \E o \in r.after : o.status \in {"COMPLETE", "EMPTY"} /\ o.satisfied

G8(r) ==
    /\ "references" \notin r.flaws
    /\ r.after # {}
    /\ CASE r.mode = "CHANGE_BOUND" ->
              r.changes # {} /\ IndependentlyObserved(r)
         [] r.mode = "CHANGE_FREE" -> r.changes = {} /\ r.verifying # {}

G12(r) == "policy" \notin r.flaws /\ EvidenceSuffices(r)
G18(r) == "policy" \notin r.flaws /\ Sufficiency(r.evidence, r.judgedAt) # "STALE"

(* Exactly the mandatory ones, each evaluated again and PASS, under a      *)
(* witnessed Kernel source, of a real candidate.                           *)
G19(r) ==
    /\ r.bound = Mandatory
    /\ Witnessed(r) /\ CandidatePresent(r)
    /\ \A id \in r.bound : Verified(id, r)

G21(r) == CandidatePresent(r) /\ ClaimSatisfied(r.claims)

(* The policies here allow every terminal status. *)
G22(r) == r.proposed \in {"CLOSED", "BLOCKED", "RETAINED"}

Gates ==
    {"G1", "G3", "G4", "G5", "G6", "G7", "G8", "G12", "G18", "G19", "G21", "G22"}

Passing(r) ==
    {g \in Gates :
        \/ (g = "G1" /\ G1G2(r)) \/ (g = "G3" /\ G3(r)) \/ (g = "G4" /\ G4(r))
        \/ (g = "G5" /\ G5G20(r)) \/ (g = "G6" /\ G6G11(r)) \/ (g = "G7" /\ Reproduces(r))
        \/ (g = "G8" /\ G8(r)) \/ (g = "G12" /\ G12(r)) \/ (g = "G18" /\ G18(r))
        \/ (g = "G19" /\ G19(r)) \/ (g = "G21" /\ G21(r)) \/ (g = "G22" /\ G22(r))}

AllPass(r) == Passing(r) = Gates

-----------------------------------------------------------------------------
(* evaluate_closure *)

Result(r) ==
    CASE ~r.candidate -> "BLOCKED"
      [] r.candidate /\ r.contradicted -> "CONTRADICTED"
      [] r.candidate /\ ~r.contradicted
            /\ Sufficiency(r.evidence, r.judgedAt) = "STALE" -> "STALE"
      [] r.candidate /\ ~r.contradicted
            /\ Sufficiency(r.evidence, r.judgedAt) # "STALE"
            /\ r.after = {} -> "BLOCKED"
      [] OTHER -> IF AllPass(r) THEN "SATISFIED" ELSE "NOT_SATISFIED"

(* evaluate_closure returns: CLOSED exactly when SATISFIED, and otherwise  *)
(* with Evidence of the reason; and the status may change like this.       *)
Evaluates(r) ==
    /\ IsLegalTransition(r.status, r.proposed)
    /\ IF Result(r) = "SATISFIED" THEN r.proposed = "CLOSED"
       ELSE r.proposed \in {"BLOCKED", "RETAINED"} /\ r.reason # {}

(* The blocker proposed is what the Evaluation shows. *)
BlockerShown(r) ==
    r.proposed = "BLOCKED" =>
        Grounded(r.blocker, Result(r), Sufficiency(r.evidence, r.judgedAt),
                 Passing(r), r.changes # {}, r.changes, r.after \cup r.named)

(* evaluation_expires_at, against the instant of the Reflow. *)
Expired(r, instant) ==
    r.evidence # {} /\ instant > Oldest(r.evidence) + MaximumAge
=============================================================================
