-------------------------- MODULE ObservationEngine --------------------------
(***************************************************************************)
(* observation: observe(request) extends a bundle of records.  Facts are   *)
(* identified by what they say and shared by the observations that bind    *)
(* them; negative observations say what one observation did not find;      *)
(* both have evaluations, append-only, of which the latest is the current  *)
(* position.  A fact contradicts another value at its coordinate and a     *)
(* negative observation at it.  An observation is identified by its        *)
(* position alone, so that asking for it again is a retry.                 *)
(*                                                                         *)
(* The caller threads the bundle.  A subject stands for subject and        *)
(* predicate, a window for a time boundary; an identity is the tuple it    *)
(* digests.                                                                *)
(***************************************************************************)
EXTENDS Integers, FiniteSets

CONSTANTS
    ObservationRequests,
    Canonical       \* the canonical value of each spelling of one

VARIABLES
    bundle,         \* the records observed so far
    acknowledged    \* the requests that were answered with a bundle

engineVars == <<bundle, acknowledged>>

-----------------------------------------------------------------------------
(* What a request says, normalized.                                        *)

(* observation_identity. *)
ObservationId(r) ==
    [scope |-> r.scope.id, target |-> r.target, revision |-> r.revision,
     method |-> r.method, window |-> r.window, sources |-> r.sources]

(* normalize_fact: the spelling goes, the canonical value stays. *)
NormalizeFact(raw) ==
    [subject |-> raw.subject, boundary |-> raw.boundary,
     value |-> Canonical[raw.spelling]]

FactsIn(occurrence) == {NormalizeFact(raw) : raw \in occurrence.facts}
ObservedFacts(r) == UNION {FactsIn(o) : o \in r.occurrences}

Coordinate(x) == <<x.subject, x.boundary>>
SharingCoordinate(facts, x) == {f \in facts : Coordinate(f) = Coordinate(x)}

(* _binding: one per fact and source occurrence. *)
BindingOf(r, o, f) ==
    [fact |-> f, observation |-> ObservationId(r),
     occurrence |-> <<o.source, o.locator>>, revision |-> r.revision,
     quality |-> CASE o.outcome = "COMPLETE" -> "SUPPORTED"
                   [] o.outcome = "PARTIAL" -> "INCOMPLETE"
                   [] OTHER -> o.outcome]

BindingId(b) == <<b.fact, b.observation, b.occurrence>>

BindingsIn(r) ==
    UNION {{BindingOf(r, o, f) : f \in FactsIn(o)} : o \in r.occurrences}

(* fact_boundary_observed: a snapshot of the sources, the window, or the   *)
(* State revision.                                                         *)
BoundaryObserved(boundary, r) ==
    boundary \in r.sources \cup {r.window, r.revision}

-----------------------------------------------------------------------------
(* What observe refuses before it looks at the bundle.                     *)

ScopeAdmits(r) ==
    /\ r.scope.target = r.target
    /\ r.method = r.scope.method
    /\ r.sources = r.scope.sources
    /\ \A a \in r.attempts : a.method = r.method

FactsAdmitted(r) ==
    \A o \in r.occurrences :
        /\ o.source \in r.sources
        /\ \A raw \in o.facts :
              /\ raw.subject \in r.scope.subjects
              /\ raw.boundary \in r.scope.sources => raw.boundary = o.source
              /\ raw.spelling \in DOMAIN Canonical
              /\ BoundaryObserved(raw.boundary, r)

(* One binding keeps one payload. *)
NoCollision(bindings) ==
    \A a, b \in bindings : BindingId(a) = BindingId(b) => a = b

RequestAdmitted(r) ==
    /\ ScopeAdmits(r)
    /\ FactsAdmitted(r)
    /\ NoCollision(bundle.bindings \cup BindingsIn(r))

-----------------------------------------------------------------------------
(* _observation_status, from the request alone.                            *)

Results(r) == {a.result : a \in r.attempts}

BaseStatus(r) ==
    LET combined == Results(r) \cup {o.outcome : o \in r.occurrences} IN
    CASE ~r.timely -> "INCOMPLETE"
      [] r.timely /\ r.scope.status \notin {"COMPLETE", "INCOMPLETE"} ->
            r.scope.status
      [] OTHER ->
            IF "FAILED" \in combined THEN "FAILED"
            ELSE IF "BLOCKED" \in combined THEN "BLOCKED"
            ELSE IF \/ r.scope.status = "INCOMPLETE"
                    \/ combined \cap {"INCOMPLETE", "PARTIAL"} # {}
                    \/ "BLOCKS_COMPLETION" \in r.blind THEN "INCOMPLETE"
            ELSE IF "UNKNOWN" \in combined THEN "UNKNOWN"
            ELSE IF ObservedFacts(r) # {} THEN "COMPLETE"
            ELSE IF /\ r.complete /\ r.attempts # {}
                    /\ Results(r) \subseteq {"COMPLETE", "EMPTY"} THEN "EMPTY"
            ELSE "UNKNOWN"

ObservationRecord(r, status) ==
    [id |-> ObservationId(r), facts |-> ObservedFacts(r), status |-> status,
     blind |-> r.blind, attempts |-> r.attempts, evidence |-> r.evidence]

-----------------------------------------------------------------------------
(* Negative claims.                                                        *)

NegativeId(n) == <<n.observation, n.subject, n.boundary>>

(* _completion: the gate of a proven absence. *)
Completed(r) ==
    /\ r.scope.status = "COMPLETE"
    /\ r.timely
    /\ r.attempts # {}
    /\ Results(r) \subseteq {"COMPLETE", "EMPTY"}
    /\ \A a \in r.attempts : a.bounded
    /\ BaseStatus(r) \in {"COMPLETE", "EMPTY"}
    /\ r.blind = {}

(* The refusals of _negative_records. *)
ClaimAdmitted(r, claim, facts) ==
    /\ BoundaryObserved(claim.boundary, r)
    /\ claim.status \in {"ABSENT", "EMPTY"} => Completed(r) /\ r.negativeEvidence # {}
    /\ claim.status = "EMPTY" => r.complete /\ SharingCoordinate(facts, claim) = {}

NegativeRecord(r, claim, facts) ==
    LET conflicts == SharingCoordinate(facts, claim) IN
    [observation |-> ObservationId(r), subject |-> claim.subject,
     boundary |-> claim.boundary, reason |-> claim.reason,
     status |-> IF conflicts # {} THEN "CONFLICTED" ELSE claim.status,
     facts |-> conflicts, evidence |-> r.negativeEvidence]

NegativesIn(r, facts) == {NegativeRecord(r, claim, facts) : claim \in r.claims}

-----------------------------------------------------------------------------
(* Evaluations.                                                            *)

EvaluationsOf(evaluations, x) == {e \in evaluations : e.of = x}

Latest(evaluations, x) ==
    CHOOSE e \in EvaluationsOf(evaluations, x) :
        \A other \in EvaluationsOf(evaluations, x) : other.revision <= e.revision

(* The facts and the negative observations that the latest evaluation of x *)
(* names; before there is one, nothing.                                    *)
FactsNamed(evaluations, x) ==
    IF EvaluationsOf(evaluations, x) = {} THEN {} ELSE Latest(evaluations, x).facts

NegativesNamed(evaluations, x) ==
    IF EvaluationsOf(evaluations, x) = {} THEN {} ELSE Latest(evaluations, x).negatives

NextEvaluation(evaluations, x) ==
    LET revision == Cardinality(EvaluationsOf(evaluations, x)) IN
    [of |-> x, revision |-> revision, previous |-> revision - 1]

(* positive_conflicts: the rest of a group that the request observes into. *)
PositiveConflicts(r, facts, f) ==
    IF SharingCoordinate(ObservedFacts(r), f) = {} THEN {}
    ELSE SharingCoordinate(facts, f) \ {f}

(* Seeded fault: only the facts observed now get an evaluation. *)
ReevaluatesObserved(r, facts) ==
    ObservedFacts(r) \cup {f \in facts : SharingCoordinate(r.claims, f) # {}}

ReevaluatedFacts(r, facts) ==
    {f \in facts :
        \/ f \in ObservedFacts(r)
        \/ PositiveConflicts(r, facts, f) # {}
        \/ SharingCoordinate(r.claims, f) # {}}

(* The negative observations that name f in this request: earlier ones     *)
(* that its observation contradicts, and the claims at its coordinate.     *)
NegativesMeeting(r, facts, f) ==
    {NegativeId(n) : n \in
        (IF f \in ObservedFacts(r) THEN SharingCoordinate(bundle.negatives, f) ELSE {})
        \cup SharingCoordinate(NegativesIn(r, facts), f)}

FactEvaluation(r, facts, f) ==
    LET next == NextEvaluation(bundle.factEvaluations, f)
        conflicts ==
            IF f \in ObservedFacts(r) \/ PositiveConflicts(r, facts, f) # {}
            THEN PositiveConflicts(r, facts, f)
            ELSE FactsNamed(bundle.factEvaluations, f)
        negatives == NegativesNamed(bundle.factEvaluations, f)
                        \cup NegativesMeeting(r, facts, f)
    IN  [of |-> next.of, revision |-> next.revision, previous |-> next.previous,
         bindings |-> {b \in BindingsIn(r) : b.fact = f},
         status |-> IF conflicts = {} /\ negatives = {} THEN "SUPPORTED" ELSE "CONFLICTED",
         facts |-> conflicts, negatives |-> negatives, evidence |-> r.evidence]

NegativeEvaluation(r, n) ==
    LET next == NextEvaluation(bundle.negativeEvaluations, NegativeId(n)) IN
    [of |-> next.of, revision |-> next.revision, previous |-> next.previous,
     status |-> "CONFLICTED",
     facts |-> FactsNamed(bundle.negativeEvaluations, NegativeId(n))
                    \cup SharingCoordinate(ObservedFacts(r), n),
     evidence |-> r.evidence]

FirstEvaluation(n) ==
    [of |-> NegativeId(n), revision |-> 0, previous |-> -1, status |-> n.status,
     facts |-> n.facts, evidence |-> n.evidence]

ContradictedNegatives(r) ==
    {n \in bundle.negatives : SharingCoordinate(ObservedFacts(r), n) # {}}

-----------------------------------------------------------------------------
(* observation_record_errors: what a bundle must satisfy to be returned.   *)

IdentitiesUnique(b) ==
    /\ NoCollision(b.bindings)
    /\ \A m, n \in b.negatives : NegativeId(m) = NegativeId(n) => m = n
    /\ \A o, p \in b.observations : o.id = p.id => o = p

BindingsResolve(b) ==
    /\ {x.fact : x \in b.bindings} = b.facts
    /\ \A x \in b.bindings :
          \E o \in b.observations : o.id = x.observation /\ o.id.revision = x.revision

LineageContiguous(evaluations) ==
    \A e \in evaluations :
        /\ e.previous = e.revision - 1
        /\ e.revision \in 0 .. Cardinality(EvaluationsOf(evaluations, e.of)) - 1

RevisionZeroMatches(b) ==
    \A n \in b.negatives :
        \E e \in EvaluationsOf(b.negativeEvaluations, NegativeId(n)) :
            e.revision = 0 /\ e.status = n.status /\ e.facts = n.facts

ConflictsMutual(b) ==
    \A f \in b.facts, n \in b.negatives :
        NegativeId(n) \in NegativesNamed(b.factEvaluations, f)
            <=> f \in FactsNamed(b.negativeEvaluations, NegativeId(n))

(* negative_evaluation_evidence_errors: a contradiction cites the Evidence *)
(* of the observation that made the claim, not of the one that found it.   *)
EvidenceDeclared(b) ==
    \A n \in b.negatives : \A e \in EvaluationsOf(b.negativeEvaluations, NegativeId(n)) :
        /\ e.evidence \subseteq n.evidence \cup
              UNION {o.evidence : o \in {p \in b.observations :
                        e.status = "CONFLICTED" /\ p.id = n.observation}}
        /\ e.status \in {"ABSENT", "EMPTY"} => e.evidence # {}

ConflictPositions(b) ==
    /\ \A e \in b.factEvaluations :
          e.status = "CONFLICTED" <=> e.facts # {} \/ e.negatives # {}
    /\ \A e \in b.negativeEvaluations : e.status = "CONFLICTED" <=> e.facts # {}

SchemaHolds(b) ==
    \A o \in b.observations : o.status = "COMPLETE" => o.attempts # {}

Verified(b) ==
    /\ SchemaHolds(b) /\ IdentitiesUnique(b) /\ BindingsResolve(b)
    /\ LineageContiguous(b.factEvaluations) /\ LineageContiguous(b.negativeEvaluations)
    /\ RevisionZeroMatches(b) /\ ConflictsMutual(b)
    /\ EvidenceDeclared(b) /\ ConflictPositions(b)

-----------------------------------------------------------------------------
(* The two ways observe answers.                                           *)

Known(r) == \E o \in bundle.observations : o.id = ObservationId(r)

ClaimsAdmitted(r, facts) == \A claim \in r.claims : ClaimAdmitted(r, claim, facts)

FinalStatus(r, facts) ==
    IF \/ \E f \in facts : PositiveConflicts(r, facts, f) # {}
       \/ ContradictedNegatives(r) # {}
       \/ \E n \in NegativesIn(r, facts) : n.facts # {}
    THEN "CONFLICTED" ELSE BaseStatus(r)

ExtendedBundle(r) ==
    LET facts == bundle.facts \cup ObservedFacts(r)
        claimed == NegativesIn(r, facts)
    IN  [facts |-> facts,
         observations |->
            bundle.observations \cup {ObservationRecord(r, FinalStatus(r, facts))},
         bindings |-> bundle.bindings \cup BindingsIn(r),
         factEvaluations |-> bundle.factEvaluations \cup
            {FactEvaluation(r, facts, f) : f \in ReevaluatedFacts(r, facts)},
         negatives |-> bundle.negatives \cup claimed,
         negativeEvaluations |-> bundle.negativeEvaluations
            \cup {NegativeEvaluation(r, n) : n \in ContradictedNegatives(r)}
            \cup {FirstEvaluation(n) : n \in claimed}]

ObserveNew(r) ==
    /\ RequestAdmitted(r)
    /\ ~Known(r)
    /\ \A claim \in r.claims : claim.subject \in r.scope.subjects
    /\ ClaimsAdmitted(r, bundle.facts \cup ObservedFacts(r))
    /\ Verified(ExtendedBundle(r))
    /\ bundle' = ExtendedBundle(r)
    /\ acknowledged' = acknowledged \cup {r}

(* Seeded fault: a retry is classified by everything observed since. *)
AllFacts(r) == bundle.facts \cup ObservedFacts(r)

(* A retry is classified by the facts and negatives of its observation.    *)
RetryFacts(r) ==
    {b.fact : b \in {x \in bundle.bindings \cup BindingsIn(r) :
                        x.observation = ObservationId(r)}}

OwnNegatives(r) == {n \in bundle.negatives : n.observation = ObservationId(r)}

RetryStatus(r) ==
    IF \E f \in RetryFacts(r) :
          \/ SharingCoordinate(RetryFacts(r), f) # {f}
          \/ SharingCoordinate(OwnNegatives(r), f) # {}
    THEN "CONFLICTED" ELSE BaseStatus(r)

RetryIdentical(r) ==
    /\ ClaimsAdmitted(r, RetryFacts(r))
    /\ ObservationRecord(r, RetryStatus(r)) \in bundle.observations
    /\ {BindingId(b) : b \in BindingsIn(r)} \subseteq
          {BindingId(b) : b \in bundle.bindings}
    /\ NegativesIn(r, RetryFacts(r)) = OwnNegatives(r)

RetryAccepted(r) == RequestAdmitted(r) /\ Known(r) /\ RetryIdentical(r)

Retry(r) ==
    /\ RetryAccepted(r)
    /\ acknowledged' = acknowledged \cup {r}
    /\ UNCHANGED bundle

-----------------------------------------------------------------------------
EngineInit ==
    /\ bundle = [facts |-> {}, observations |-> {}, bindings |-> {},
                 factEvaluations |-> {}, negatives |-> {}, negativeEvaluations |-> {}]
    /\ acknowledged = {}

EngineNext == \E r \in ObservationRequests : ObserveNew(r) \/ Retry(r)

-----------------------------------------------------------------------------
(* No contradiction is lost: the current position of every fact names each *)
(* other value at its coordinate and each negative observation there, and  *)
(* the current position of that negative names the fact, whichever came    *)
(* first and whatever was observed since.                                  *)
ContradictionsKept ==
    \A f \in bundle.facts :
        LET current == Latest(bundle.factEvaluations, f) IN
        /\ SharingCoordinate(bundle.facts, f) \ {f} \subseteq current.facts
        /\ \A n \in SharingCoordinate(bundle.negatives, f) :
              /\ NegativeId(n) \in current.negatives
              /\ f \in Latest(bundle.negativeEvaluations, NegativeId(n)).facts

MetNothingEarlier(r) ==
    \E o \in bundle.observations : o.id = ObservationId(r) /\ o.status # "CONFLICTED"

(* A request that was answered and met no contradiction then is accepted   *)
(* again at any later time: later conflicts do not turn its exact retry    *)
(* into a collision.                                                       *)
RetryOutlivesConflicts ==
    \A r \in acknowledged : MetNothingEarlier(r) => RetryAccepted(r)

(* The contract's idempotence: a request that was answered is accepted     *)
(* again (OBSERVATION_CONTRACT.md, 2. Identity).                           *)
ExactRetryAccepted == \A r \in acknowledged : RetryAccepted(r)

(* What later observations do to earlier ones: contradict them for good,   *)
(* and no more.                                                            *)
BundleSound == ContradictionsKept /\ RetryOutlivesConflicts
=============================================================================
