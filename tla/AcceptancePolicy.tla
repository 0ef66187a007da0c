--------------------------- MODULE AcceptancePolicy ---------------------------
(***************************************************************************)
(* acceptance_policy/: the lineage of a work unit's acceptance policy.  A  *)
(* baseline lists the clauses of the original contract; a transition       *)
(* proposes a change of one clause and names the version it changes; an    *)
(* adoption, signed by the Human Authority, brings one of them in force.   *)
(* The effective policy is the fold of the adoptions in the order of their *)
(* commits, and a fold that fails at one of them fails for good, as        *)
(* adoptions are immutable.  So a call that adopts simulates the fold on   *)
(* the State it loaded, and commits only on that State.                    *)
(***************************************************************************)
EXTENDS CommittedRecords

CONSTANTS
    Baselines,      \* [issue, clauses], to open
    Clauses,        \* bodies that transitions propose
    Signatures,     \* what an adoption is presented with
    Participants,   \* callers beside each other
    NoClause,       \* no body
    PolicyRetries   \* _MAX_COMMIT_RETRIES

ASSUME PolicyRetriesAssumption == PolicyRetries \in Nat \ {0}
ASSUME ClausesAssumption ==
    NoClause \notin Clauses \cup UNION {b.clauses : b \in Baselines}

VARIABLES
    lineage,        \* the committed adoptions, by the revision of their commit
    participant     \* each caller: what it is about to commit

policyVars == <<lineage, participant>>

AtRest == [pc |-> "idle"]
ClauseIds == {c.id : c \in Clauses \cup UNION {b.clauses : b \in Baselines}}

-----------------------------------------------------------------------------
(* Clauses and transitions.                                                *)

(* _clause_comparison_projection: neither prose nor provenance. *)
Compared(c) == [class |-> c.class, blocks |-> c.blocks, scope |-> c.scope]

\* Seeded fault: the two directions of a change of blockers are confused.
ClassifiedBackwards(prior, proposed) ==
    IF prior = NoClause THEN "ADD"
    ELSE IF proposed = NoClause THEN "REMOVE"
    ELSE IF prior.class # proposed.class THEN "RECLASSIFY"
    ELSE IF proposed.blocks \subseteq prior.blocks THEN "BROADEN" ELSE "NARROW"
(* classify_operation, of a real change. *)
ClassifyOperation(prior, proposed) ==
    IF prior = NoClause THEN "ADD"
    ELSE IF proposed = NoClause THEN "REMOVE"
    ELSE IF prior.class # proposed.class THEN "RECLASSIFY"
    ELSE LET added == proposed.blocks \ prior.blocks
             removed == prior.blocks \ proposed.blocks IN
         IF added # {} /\ removed = {} THEN "BROADEN"
         ELSE IF removed # {} /\ added = {} THEN "NARROW" ELSE "REPLACE"

RealChange(prior, proposed) ==
    IF NoClause \in {prior, proposed} THEN prior # proposed
    ELSE Compared(prior) # Compared(proposed)

(* require_valid_clause, and what is said of the original contract. *)
ValidBaseline(b) ==
    /\ b.clauses # {}
    /\ \A c, d \in b.clauses : c.id = d.id => c = d
    /\ \A c \in b.clauses : c.original
ValidProposal(proposed, id) ==
    proposed # NoClause => (proposed.id = id /\ ~proposed.original)

(* Content-addressed records: the id is that of the content. *)
BaselineKey(b) == [kind |-> "acceptance_policy_baseline", baseline |-> b]
TransitionKey(t) == [kind |-> "acceptance_policy_transition", transition |-> t]
AdoptionKey(a) == [kind |-> "acceptance_policy_adoption", adoption |-> a]

-----------------------------------------------------------------------------
(* derive_effective_policy.                                                *)

EmptyPolicy ==
    [clean |-> TRUE, active |-> FALSE,
     live |-> [id \in ClauseIds |-> NoClause],
     version |-> [id \in {} |-> id]]    \* of the clauses that had one

(* The clauses of an adopted baseline become live together. *)
Activated(view, b) ==
    LET ids == {c.id : c \in b.clauses} IN
    [view EXCEPT
       !.active = TRUE,
       !.live = [id \in ClauseIds |->
          IF id \in ids THEN CHOOSE c \in b.clauses : c.id = id ELSE NoClause],
       !.version = [id \in ids |-> BaselineKey(b)]]

\* Seeded fault: the predecessor a transition names is not compared.
FoldsAnywhere(view, t, b) ==
    /\ view.active /\ t.baseline = b
    /\ RealChange(view.live[t.clause], t.proposed)
    /\ ClassifyOperation(view.live[t.clause], t.proposed) = t.operation
(* A transition folds on the version it names, and says what it does. *)
TransitionFolds(view, t, b) ==
    /\ view.active /\ t.baseline = b
    /\ IF t.clause \notin DOMAIN view.version
       THEN t.prior = BaselineKey(b) /\ t.operation = "ADD"
       ELSE /\ t.prior = view.version[t.clause]
            /\ (t.operation = "ADD") = (view.live[t.clause] = NoClause)
    /\ RealChange(view.live[t.clause], t.proposed)
    /\ ClassifyOperation(view.live[t.clause], t.proposed) = t.operation

Folds(view, adopted, b) ==
    \/ /\ adopted.kind = "acceptance_policy_baseline"
       /\ adopted.baseline = b /\ ~view.active
    \/ /\ adopted.kind = "acceptance_policy_transition"
       /\ TransitionFolds(view, adopted.transition, b)

Folded(view, adopted, b) ==
    IF ~view.clean \/ ~Folds(view, adopted, b) THEN [view EXCEPT !.clean = FALSE]
    ELSE IF adopted.kind = "acceptance_policy_baseline" THEN Activated(view, b)
    ELSE LET t == adopted.transition IN
         [view EXCEPT !.live[t.clause] = t.proposed,
                      !.version = [id \in DOMAIN view.version \cup {t.clause} |->
                         IF id = t.clause THEN adopted ELSE view.version[id]]]

(* _resolve_canonical_adoptions: those of the work unit of the baseline. *)
CanonicalFold(view, a, b) ==
    IF a.issue = b.issue THEN Folded(view, a.adopted, b) ELSE view

EffectivePolicy(b, adoptions) ==
    LET view[i \in 0..Len(adoptions)] ==
           IF i = 0 THEN EmptyPolicy
           ELSE CanonicalFold(view[i - 1], adoptions[i], b)
    IN view[Len(adoptions)]

(* _resolve_expected_prior_clause_binding: the last of the provenance of   *)
(* the clause, which a removed clause no longer has.                       *)
ExpectedPrior(view, b, id) ==
    IF view.live[id] = NoClause THEN BaselineKey(b) ELSE view.version[id]

(* preview_acceptance_policy_transition accepts a candidate. *)
Previewed(view, t) ==
    /\ view.clean
    /\ t.prior = ExpectedPrior(view, t.baseline, t.clause)
    /\ RealChange(view.live[t.clause], t.proposed)
    /\ ClassifyOperation(view.live[t.clause], t.proposed) = t.operation

(* build_impact_preview: the gates a candidate makes and lifts. *)
NewBlockers(view, t) ==
    (IF t.proposed = NoClause THEN {} ELSE t.proposed.blocks)
    \ (IF view.live[t.clause] = NoClause THEN {} ELSE view.live[t.clause].blocks)

-----------------------------------------------------------------------------
(* Baselines and transitions.                                              *)

(* open_acceptance_policy_baseline; an exact replay commits nothing. *)
OpenBaseline(b) ==
    /\ b \in Baselines /\ ValidBaseline(b)
    /\ ~Committed(BaselineKey(b))
    /\ CommitRecords({Record(BaselineKey(b), b)})
    /\ UNCHANGED policyVars

(* build_transition, on the effective policy the call resolved. *)
TransitionOf(b, view, id, proposed) ==
    [baseline |-> b, clause |-> id, proposed |-> proposed,
     operation |-> ClassifyOperation(view.live[id], proposed),
     prior |-> ExpectedPrior(view, b, id)]

(* propose_acceptance_policy_transition, up to its commit: a declared      *)
(* operation other than the computed one is refused.                       *)
Propose(p) ==
    /\ participant[p] = AtRest
    /\ \E b \in Baselines, id \in ClauseIds, proposed \in Clauses \cup {NoClause} :
          LET view == EffectivePolicy(b, lineage) IN
          /\ Committed(BaselineKey(b)) /\ view.clean
          /\ ValidProposal(proposed, id)
          /\ RealChange(view.live[id], proposed)
          /\ participant' = [participant EXCEPT ![p] =
                [pc |-> "proposed", view |-> view,
                 transition |-> TransitionOf(b, view, id, proposed)]]
    /\ UNCHANGED <<lineage, storeVars>>

(* _commit_one_record: nothing is decided again for a later State. *)
CommitProposal(p) ==
    LET key == TransitionKey(participant[p].transition) IN
    /\ participant[p].pc = "proposed"
    /\ \/ Committed(key) /\ UNCHANGED storeVars
       \/ ~Committed(key) /\ CommitRecords({Record(key, participant[p].transition)})
    /\ participant' = [participant EXCEPT ![p] = AtRest]
    /\ UNCHANGED lineage

-----------------------------------------------------------------------------
(* Adoptions.                                                              *)

(* evaluate_adoption_record: a ratified decision of the Human Authority,   *)
(* its receipt agreeing with it to the last field.                         *)
AdoptionRecordAdmitted(s) == s.ratified /\ s.receipt = s.id

(* _resolve_trusted_signing_key: of the binding that genesis adopted, and  *)
(* of no other binding that carries the project's name.                    *)
TrustedKey(s) == s.binding = "genesis"

(* verify_governance_adoption_record: signed for this very target. *)
GovernanceVerified(s) ==
    /\ AdoptionRecordAdmitted(s)
    /\ s.key = "human" /\ s.covers

(* build_adoption. *)
AdoptionOf(issue, adopted, s) == [issue |-> issue, adopted |-> adopted, by |-> s.id]

(* _resolve_and_verify_adopted_target. *)
LineageOf(adopted) ==
    IF adopted.kind = "acceptance_policy_baseline" THEN adopted.baseline
    ELSE adopted.transition.baseline

TargetResolved(adopted, issue) ==
    Committed(adopted) /\ LineageOf(adopted).issue = issue

Targets(recs) ==
    {r.key : r \in {x \in recs : x.key.kind \in
       {"acceptance_policy_baseline", "acceptance_policy_transition"}}}

(* _assert_adoption_does_not_poison_the_canonical_lineage. *)
FoldsCleanly(a) == EffectivePolicy(LineageOf(a.adopted), Append(lineage, a)).clean

(* One round of adopt_acceptance_policy_transition up to its commit. *)
Simulated(a) == ~Committed(AdoptionKey(a)) /\ FoldsCleanly(a)

Adopts(p, a, retries) ==
    participant' = [participant EXCEPT ![p] =
       [pc |-> "adopting", adoption |-> a, base |-> Snapshot, retries |-> retries]]

BeginAdoption(p) ==
    /\ participant[p] = AtRest
    /\ \E adopted \in Targets(records), s \in Signatures :
          LET a == AdoptionOf(LineageOf(adopted).issue, adopted, s) IN
          /\ s.owner /\ TargetResolved(adopted, a.issue)
          /\ TrustedKey(s) /\ GovernanceVerified(s)
          /\ Simulated(a) /\ Adopts(p, a, PolicyRetries)
    /\ UNCHANGED <<lineage, storeVars>>

SwapAdoption(p) ==
    LET held == participant[p] IN
    /\ held.pc = "adopting" /\ held.base.revision = Revision
    /\ CommitRecords({Record(AdoptionKey(held.adoption), held.adoption)})
    /\ lineage' = Append(lineage, held.adoption)
    /\ participant' = [participant EXCEPT ![p] = AtRest]

StaleAdoption(p) ==
    /\ participant[p].pc = "adopting"
    /\ participant[p].base.revision # Revision

\* Seeded fault: only the write is tried again.
RetriesWrite(p) ==
    /\ StaleAdoption(p)
    /\ participant' = [participant EXCEPT ![p].base = Snapshot]
    /\ UNCHANGED <<lineage, storeVars>>
(* StaleStateError: the whole cycle again.  A record that another call     *)
(* committed meanwhile is an exact replay or, its transaction being there  *)
(* with another State, a conflicting one: the call ends either way.        *)
RetryAdoption(p) ==
    LET held == participant[p] IN
    /\ StaleAdoption(p)
    /\ \/ /\ held.retries > 1 /\ Simulated(held.adoption)
          /\ Adopts(p, held.adoption, held.retries - 1)
       \/ /\ held.retries = 1 \/ ~Simulated(held.adoption)
          /\ participant' = [participant EXCEPT ![p] = AtRest]
    /\ UNCHANGED <<lineage, storeVars>>

PolicyNext ==
    \/ \E b \in Baselines : OpenBaseline(b)
    \/ \E p \in Participants :
          \/ Propose(p) \/ CommitProposal(p)
          \/ BeginAdoption(p) \/ SwapAdoption(p) \/ RetryAdoption(p)

PolicyInit ==
    /\ lineage = <<>>
    /\ participant = [p \in Participants |-> AtRest]

-----------------------------------------------------------------------------

(* The adoptions of a work unit always fold to an effective policy: two    *)
(* callers that each simulated their own adoption cannot together leave a  *)
(* lineage that no later resolution accepts (route.py, P82-R3-F2).         *)
LineageUnpoisoned ==
    \A i \in DOMAIN lineage :
       \E b \in Baselines :
          b.issue = lineage[i].issue /\ EffectivePolicy(b, lineage).clean

(* The adopted versions of a clause are one chain: each names the one      *)
(* adopted before it, so no two changes of the same version both came in   *)
(* force, whoever adopted them in what order.                              *)
VersionsChained ==
    \A i \in DOMAIN lineage :
       lineage[i].adopted.kind = "acceptance_policy_transition" =>
          LET t == lineage[i].adopted.transition
              before == {j \in 1..(i - 1) :
                 /\ lineage[j].adopted.kind = "acceptance_policy_transition"
                 /\ lineage[j].adopted.transition.baseline = t.baseline
                 /\ lineage[j].adopted.transition.clause = t.clause} IN
          t.prior = IF before = {} THEN BaselineKey(t.baseline)
                    ELSE lineage[CHOOSE j \in before : \A k \in before : k <= j].adopted

(* A change that was declared to narrow a clause, whenever it is adopted,  *)
(* makes no gate that the clause in force did not make.                    *)
NarrowingNeverBlocks ==
    \A i \in DOMAIN lineage :
       LET adopted == lineage[i].adopted IN
       adopted.kind = "acceptance_policy_transition"
       /\ adopted.transition.operation = "NARROW" =>
          LET was == EffectivePolicy(adopted.transition.baseline,
                                     SubSeq(lineage, 1, i - 1)) IN
          NewBlockers(was, adopted.transition) = {}

(* The preview and the fold of the lineage are two implementations of one  *)
(* rule: a committed change that could be adopted now is one that a human  *)
(* who asks for its impact preview is shown, not refused.                  *)
AdoptableIsPreviewed ==
    \A target \in Targets(records) :
       target.kind = "acceptance_policy_transition" =>
          LET t == target.transition
              view == EffectivePolicy(t.baseline, lineage) IN
          view.clean /\ TransitionFolds(view, t, t.baseline) => Previewed(view, t)

(* What the adopted changes of one work unit's policy promise together.    *)
PolicySound ==
    /\ LineageUnpoisoned /\ VersionsChained
    /\ NarrowingNeverBlocks /\ AdoptableIsPreviewed

(* ACCEPTANCE_POLICY_CONTRACT.md: the binding of a proposed transition     *)
(* always resolves to the exact predecessor it extends.  A clause that was *)
(* removed and is proposed again is bound to the baseline, and no adoption *)
(* of that transition can ever fold.                                       *)
BoundToPredecessor ==
    \A p \in Participants :
       participant[p].pc = "proposed" /\ participant[p].view.active =>
          LET view == participant[p].view
              t == participant[p].transition IN
          TransitionFolds(view, t, t.baseline)
=============================================================================
