------------------------- MODULE DifferenceDerivation -------------------------
(***************************************************************************)
(* difference/engine.py, projection.py, selection.py, objective.py: what   *)
(* derive_differences returns for Observations of the Target Predicates    *)
(* and the lineages (a Difference with its events) its caller carries in.  *)
(* The engine stores nothing: `held` is what its callers keep of results,  *)
(* stale copies included.  An event stands for its content address: a      *)
(* chain is identified with the sequence of events it hashes.              *)
(***************************************************************************)
EXTENDS DifferenceLifecycle

CONSTANTS
    LastTarget,         \* Target Predicates, numbered in the order of their ids
    Operator,           \* [Targets -> operator]
    Boundaries,             \* resolved Boundaries: [name, complete]
    Looks,              \* what an Observation of a target can show, see below
    Policies,           \* closure_policy_requirements: [name, failClosed, independent]
    LastState,          \* bound: State revisions 0 .. LastState
    LastObjective,      \* bound: Objective revisions 0 .. LastObjective
    MaxHeld,            \* bound: lineages kept before the last step
    MaxChain            \* bound: events of a lineage

ASSUME DerivationAssumption ==
    /\ LastTarget \in Nat /\ LastState \in Nat /\ LastObjective \in Nat
    /\ MaxHeld \in Nat /\ MaxChain \in Nat

Targets == 1 .. LastTarget

VARIABLES held, derivation, superseded
derivationVars == <<held, derivation, superseded>>

-----------------------------------------------------------------------------
(* An Observation: [status, facts, negatives, evidence, flaws].  A fact has *)
(* its value and its evaluations [number, status, own, sound]: own, it      *)
(* binds this Observation; sound, every binding it cites is a supported one *)
(* of this fact.  A negative observation has the status of its evaluation.  *)
(* Flaws: what of its records is not what it says it is.                    *)
LookFlaws == {"boundary", "negative_boundary", "records"}
NegativeStatuses ==
    {"ABSENT", "EMPTY", "NO_RESULT", "UNKNOWN", "UNOBSERVED", "BLOCKED", "INCOMPLETE",
     "FAILED", "INVALID", "CONFLICTED"}

(* negative_observation.schema.json *)
LookTyped(look) ==
    /\ look.flaws \subseteq LookFlaws /\ IsFiniteSet(look.negatives)
    /\ \A n \in look.negatives : n.status \in NegativeStatuses

ASSUME LooksAssumption == \A look \in Looks : LookTyped(look)

(* _validate_observation_boundary: its project, Scope, method, snapshots    *)
(* and time are the Scope's.                                                *)
WithinScope(look) == "boundary" \notin look.flaws

(* _validate_negative_boundary                                              *)
NegativesWithinScope(look) == "negative_boundary" \notin look.flaws

(* _verify_upstream_records: every identity recomputes, every reference of  *)
(* the bundle resolves in it.                                               *)
UpstreamVerified(look) == "records" \notin look.flaws

RequiresClosureEvaluation == {"CLOSED", "BLOCKED", "RETAINED", "REOPENED"}
SingleValue == {"equals", "not_equals", "contains"}
Unresolved == {"UNKNOWN", "UNOBSERVED", "BLOCKED", "INCOMPLETE"}

(* _contiguous_chains: a chain with a gap or two of a number is no chain.  *)
Contiguous(evaluations) ==
    {e.number : e \in evaluations} = 0 .. (Cardinality(evaluations) - 1)

(* _latest_contiguous, over the evaluations that qualify *)
LatestEvaluation(evaluations) ==
    CHOOSE e \in evaluations : \A x \in evaluations : x.number <= e.number

(* _observation_scoped_evaluation: a later Observation of the same fact     *)
(* appends evaluations; the latest that binds this one counts.             *)
ObservationScoped(fact) ==
    IF Contiguous(fact.evaluations) THEN {e \in fact.evaluations : e.own} ELSE {}

(* _evaluation_supports_observation, and the status it must have           *)
UsableFact(fact) ==
    LET bound == ObservationScoped(fact)
    IN bound # {} /\ LatestEvaluation(bound).sound /\ LatestEvaluation(bound).status \in {"SUPPORTED", "CONFLICTED"}

FactKnowledge(look) ==
    IF \E f \in look.facts : LatestEvaluation(ObservationScoped(f)).status = "CONFLICTED"
    THEN "CONFLICTED" ELSE "KNOWN"

(* negative_knowledge_status: a query that found nothing proves nothing.   *)
NegativeTrusting(n) == IF n.status = "NO_RESULT" THEN "EMPTY" ELSE n.status
NegativeKnowledge(n) == IF n.status \in {"NO_RESULT", "FAILED"} THEN "UNKNOWN" ELSE n.status

(* The negatives that may stand for the target's knowledge.                *)
NegativesAgree(look) ==
    /\ \A n \in look.negatives :
         /\ NegativeKnowledge(n) # "INVALID"
         /\ NegativeKnowledge(n) \in {"ABSENT", "EMPTY"} => n.evidence
    /\ Cardinality({NegativeKnowledge(n) : n \in look.negatives}) = 1

(* _observed_projection: raises unless the Observation shows something.    *)
Projectable(look) ==
    /\ WithinScope(look) /\ NegativesWithinScope(look) /\ UpstreamVerified(look)
    /\ IF look.facts # {}
       THEN look.status \in {"COMPLETE", "CONFLICTED"} /\ \A f \in look.facts : UsableFact(f)
       ELSE look.negatives # {} /\ NegativesAgree(look)

Knowledge(look) ==
    IF look.facts # {} THEN FactKnowledge(look)
    ELSE NegativeKnowledge(CHOOSE n \in look.negatives : TRUE)

Values(look) == {f.value : f \in look.facts}

(* Values: the expected one, another of its type, one of another type, and *)
(* a collection that holds, or does not hold, the expected one.            *)
Collections == {"holder", "collection"}
TypeMatches(value, op) ==
    CASE op = "exists" -> TRUE
      [] op = "contains" -> value \in Collections
      [] OTHER -> value \in {"expected", "other"}

TargetSatisfied(values, op) ==
    CASE op \in {"equals", "all"} -> values # {} /\ values \subseteq {"expected"}
      [] op = "not_equals" -> values # {} /\ "expected" \notin values
      [] op = "contains" -> values # {} /\ values \subseteq {"holder"}
      [] op = "exists" -> values # {}
      [] op = "none" -> "expected" \notin values

(* derive_comparison_and_mismatch                                          *)
Mismatch(knowledge, values, op) ==
    IF knowledge = "CONFLICTED" \/ (op \in SingleValue /\ Cardinality(values) > 1) THEN "CONFLICT"
    ELSE IF knowledge \in Unresolved THEN "UNKNOWN"
    ELSE IF \E v \in values : ~TypeMatches(v, op) THEN "TYPE_MISMATCH"
    ELSE IF values = {} /\ op # "none" THEN "MISSING"
    ELSE IF TargetSatisfied(values, op) THEN "SATISFIED"
    ELSE CASE op = "contains" -> "RELATION_MISMATCH"
           [] op = "none" -> "UNEXPECTED"
           [] OTHER -> "VALUE_MISMATCH"

-----------------------------------------------------------------------------
(* Requests: one State and Objective revision, and for some targets a      *)
(* binding [scope, bundle (Observations [at, look] of the target in it),   *)
(* policy, prior (a set of at most one lineage), carried (its context,     *)
(* too)].                                                                  *)

(* _select_observation: the one of the requested State.                    *)
AtRequested(r, t) == {o \in r.bindings[t].bundle : o.at = r.state}
Selectable(r, t) == Cardinality(AtRequested(r, t)) = 1
Selected(r, t) == (CHOOSE o \in AtRequested(r, t) : TRUE).look

(* _closure_policy                                                         *)
PolicyAccepted(policy) == policy.failClosed /\ ~policy.independent

(* difference_identity_input: no State revision, no Observation.           *)
DifferenceOf(r, t) ==
    LET b == r.bindings[t]
        look == Selected(r, t)
        known == Knowledge(look)
    IN [target |-> t, objective |-> r.objective, boundary |-> b.scope, policy |-> b.policy,
        structural |-> <<Mismatch(known, Values(look), Operator[t]), known, Values(look)>>]

ObservationMade(r, t) ==
    [target |-> t, boundary |-> r.bindings[t].scope, at |-> r.state, look |-> Selected(r, t)]

(* supersession_reason_codes                                               *)
ReasonCodes(old, new) == {f \in DOMAIN old : old[f] # new[f]}

-----------------------------------------------------------------------------
(* Events and their chains.                                                *)

Newest(chain) == chain[Len(chain)]
Status(chain) == Newest(chain).to
DerivedEvent(kind, to, r, saw, asks) ==
    [kind |-> kind, to |-> to, at |-> r.state, saw |-> saw, asks |-> asks]

(* _genesis_event, then IDENTITY_ACCEPTED: _material_change_chain          *)
GenesisChain(r, t, asks) ==
    <<DerivedEvent("TRANSITION", "DETECTED", r, {ObservationMade(r, t)}, FALSE),
      DerivedEvent("TRANSITION", "OPEN", r, {}, asks)>>

(* _observation_bound_event: keeps the status, asks again where it must.   *)
BoundChain(chain, r, t, asks) ==
    Append(chain, DerivedEvent("OBSERVATION_BOUND", Status(chain), r, {ObservationMade(r, t)}, asks))

(* _supersede                                                              *)
SupersededChain(chain, r) == Append(chain, DerivedEvent("TRANSITION", "SUPERSEDED", r, {}, FALSE))

(* One step of a chain as _validate_predecessor reads it.                  *)
LegalStep(chain, i) ==
    IF chain[i].kind = "OBSERVATION_BOUND"
    THEN chain[i].to = chain[i - 1].to /\ chain[i].to \notin ObservationBoundForbidden
    ELSE IsLegalTransition(chain[i - 1].to, chain[i].to)
LegalChain(chain) ==
    chain # <<>> /\ chain[1].to = "DETECTED" /\ \A i \in 2 .. Len(chain) : LegalStep(chain, i)

(* _validate_predecessor                                                   *)
ContinuesEnded(chain) == LegalChain(chain)
ValidPredecessor(chain) == LegalChain(chain) /\ Status(chain) \notin Ends

(* difference_lifecycle_event.schema.json, of an event the engine makes:   *)
(* CLOSED needs a Reflow transition, which it never has.                   *)
SchemaAccepts(event) ==
    /\ event.to # "CLOSED"
    /\ event.to \in RequiresNextObservation => event.asks

-----------------------------------------------------------------------------
(* derive_differences: the bindings in the order of their targets, over    *)
(* what the earlier ones added.                                            *)

Empty == [ok |-> TRUE, chains |-> {}, status |-> {}, relations |-> {}, satisfied |-> {},
          objectives |-> {}, records |-> {}]
Raises(acc) == [acc EXCEPT !.ok = FALSE]

StatusesOf(acc, difference) == {s.to : s \in {x \in acc.status : x.of = difference}}
WithStatus(acc, difference, to) ==
    {s \in acc.status : s.of # difference} \cup {[of |-> difference, to |-> to]}

(* _absorb_predecessor_context and _absorb_observation_context             *)
Absorb(acc, r, t, p, carried) ==
    [acc EXCEPT
       !.objectives = @ \cup (IF carried THEN p.objectives ELSE {}),
       !.records = @ \cup {ObservationMade(r, t), r.bindings[t].scope} \cup (IF carried THEN p.records ELSE {})]

(* What an event needs beside it: the Observations it saw; the request of   *)
(* one that asks again; the Closure Evaluation of one that ends or reopens  *)
(* (the last two stand for themselves as their event).                      *)
RequestOf(event) == {e \in {event} : e.asks}
EvaluationOf(event) ==
    {e \in {event} : e.kind = "TRANSITION" /\ e.to \in RequiresClosureEvaluation}
CitedBy(chain) ==
    UNION {chain[i].saw \cup RequestOf(chain[i]) \cup EvaluationOf(chain[i]) : i \in DOMAIN chain}

(* _require_resolvable_lineage                                             *)
Resolvable(acc, p, r) ==
    /\ CitedBy(p.chain) \subseteq acc.records
    /\ p.of.objective \in acc.objectives \cup {r.objective}

(* _merge of Difference records: one id, one record, which names its       *)
(* genesis.                                                                *)
SameRecord(acc, difference, chain) ==
    \A c \in acc.chains : c.of = difference => c.chain[1] = chain[1]

(* The binding's Difference enters the result with its chain.  A status    *)
(* another binding gave it must be the same.                               *)
Emit(acc, difference, chain) ==
    IF /\ acc.ok
       /\ SchemaAccepts(Newest(chain))
       /\ SameRecord(acc, difference, chain)
       /\ StatusesOf(acc, difference) \subseteq {Status(chain)}
    THEN [acc EXCEPT !.chains = @ \cup {[of |-> difference, chain |-> chain]},
                     !.records = @ \cup RequestOf(Newest(chain)),
                     !.status = WithStatus(acc, difference, Status(chain))]
    ELSE Raises(acc)

(* The carried Difference leaves by supersession: its status is written    *)
(* over whatever an earlier binding gave it.                               *)
ReplacesQuietly(acc, p, difference, r) ==
    [acc EXCEPT !.ok = SameRecord(acc, p.of, p.chain),
                !.chains = @ \cup {[of |-> p.of, chain |-> p.chain]},
                !.status = WithStatus(acc, p.of, "SUPERSEDED"),
                !.relations = @ \cup {[old |-> p.of, new |-> difference]}]
Replace(acc, p, difference, r) ==
    [acc EXCEPT !.ok = SameRecord(acc, p.of, p.chain),
                !.chains = @ \cup {[of |-> p.of, chain |-> SupersededChain(p.chain, r)]},
                !.status = WithStatus(acc, p.of, "SUPERSEDED"),
                !.relations = @ \cup {[old |-> p.of, new |-> difference]}]

(* A next Observation is asked for a status that needs one, and for a      *)
(* mismatch nothing was learned about; that takes a method.                *)
Asks(status, difference) ==
    status \in RequiresNextObservation \/ difference.structural[1] \in {"UNKNOWN", "CONFLICT"}

BindFresh(acc, r, t, difference) ==
    IF Asks("OPEN", difference) /\ ~r.method THEN Raises(acc)
    ELSE Emit(Absorb(acc, r, t, {}, FALSE), difference, GenesisChain(r, t, Asks("OPEN", difference)))

BindSame(acc, r, t, p, difference) ==
    LET asks == Asks(Status(p.chain), difference)
        after == Absorb(acc, r, t, p, r.bindings[t].carried)
    IN IF (asks /\ ~r.method) \/ ~Resolvable(after, p, r) THEN Raises(acc)
       ELSE Emit(after, difference, BoundChain(p.chain, r, t, asks))

BindSuperseding(acc, r, t, p, difference) ==
    LET after == Absorb(acc, r, t, p, r.bindings[t].carried)
    IN IF \/ ReasonCodes(p.of, difference) = {}
          \/ ~IsLegalTransition(Status(p.chain), "SUPERSEDED")
          \/ (Asks("OPEN", difference) /\ ~r.method)
          \/ ~Resolvable(after, p, r)
       THEN Raises(acc)
       ELSE Emit(Replace(after, p, difference, r), difference,
                 GenesisChain(r, t, Asks("OPEN", difference)))

(* An unsatisfied target needs Evidence; a satisfied one a complete Scope  *)
(* and Observation, and then no predecessor of its is looked at.           *)
BindOne(acc, r, t) ==
    LET b == r.bindings[t]
        look == Selected(r, t)
        difference == DifferenceOf(r, t)
    IN IF ~acc.ok \/ ~Selectable(r, t) THEN Raises(acc)
       ELSE IF ~Projectable(look) THEN Raises(acc)
       ELSE IF difference.structural[1] = "SATISFIED"
       THEN IF b.scope.complete /\ look.status \in {"COMPLETE", "EMPTY"}
            THEN [acc EXCEPT !.satisfied = @ \cup {t}] ELSE Raises(acc)
       ELSE IF ~look.evidence \/ ~PolicyAccepted(b.policy) THEN Raises(acc)
       ELSE IF b.prior = {} THEN BindFresh(acc, r, t, difference)
       ELSE LET p == CHOOSE x \in b.prior : TRUE
            IN IF ~ValidPredecessor(p.chain) THEN Raises(acc)
               ELSE IF p.of = difference THEN BindSame(acc, r, t, p, difference)
               ELSE BindSuperseding(acc, r, t, p, difference)

(* objective_chain_errors: every revision from the first, none missing.    *)
ObjectivesChain(objectives) == \A o \in objectives : 0 .. o \subseteq objectives

(* satisfaction_reconciliation_errors                                      *)
Reconciled(acc) == {c.of.target : c \in acc.chains} \cap acc.satisfied = {}

(* _own_scope, _validate_carried_observations: the Scope of every carried  *)
(* Observation is carried.                                                 *)
OwnScopes(acc) == {o.boundary : o \in {x \in acc.records : "look" \in DOMAIN x}} \subseteq acc.records

(* reference_closure_errors                                                *)
ReferencesClosed(acc) == \A c \in acc.chains : CitedBy(c.chain) \subseteq acc.records

(* relational_errors                                                       *)
Related(acc) == Reconciled(acc) /\ ObjectivesChain(acc.objectives)

Derive(r) ==
    LET bound[t \in 0 .. LastTarget] ==
          IF t = 0 THEN [Empty EXCEPT !.objectives = {r.objective}]
          ELSE IF t \in DOMAIN r.bindings THEN BindOne(bound[t - 1], r, t)
          ELSE bound[t - 1]
        all == bound[LastTarget]
    IN IF all.ok /\ OwnScopes(all) /\ ReferencesClosed(all) /\ Related(all)
       THEN all ELSE Raises(all)

-----------------------------------------------------------------------------
(* `derivation` is what the last result says; `shown`, what its satisfied   *)
(* targets were.                                                           *)
NoDerivation == [chains |-> {}, relations |-> {}, shown |-> {}]

DerivationInit == held = {} /\ derivation = NoDerivation /\ superseded = {}

(* A caller derives and keeps every lineage of the result.                 *)
CallDerive(r) ==
    /\ Cardinality(held) < MaxHeld
    /\ LET result == Derive(r)
       IN /\ result.ok
          /\ derivation' = [chains |-> result.chains, relations |-> result.relations,
                            shown |-> {[operator |-> Operator[t], boundary |-> r.bindings[t].scope,
                                        look |-> Selected(r, t)] : t \in result.satisfied}]
          /\ held' = held \cup {[of |-> c.of, chain |-> c.chain, objectives |-> result.objectives,
                                 records |-> result.records] : c \in result.chains}
          /\ \A c \in result.chains : Len(c.chain) <= MaxChain
          /\ superseded' = superseded \cup result.relations

(* Elsewhere (Reflow, an operator) legal transitions are appended.         *)
Elsewhere(chain, path, at) ==
    chain \o [i \in DOMAIN path |-> [kind |-> "TRANSITION", to |-> path[i], at |-> at, saw |-> {},
                                    asks |-> path[i] \in RequiresNextObservation]]
AppendElsewhere(l, path, at) ==
    LET chain == Elsewhere(l.chain, path, at)
    IN /\ l \in held /\ LegalChain(chain) /\ Status(l.chain) \notin Ends
       /\ held' = held \cup {[l EXCEPT !.chain = chain, !.records = @ \cup CitedBy(chain)]}
       /\ Len(chain) <= MaxChain /\ Cardinality(held) < MaxHeld
       /\ UNCHANGED <<derivation, superseded>>

(* The lineages a caller may carry in for a target: any, of another target *)
(* too, and one for several targets.                                       *)
Priors == {{}} \cup {{l} : l \in held}

DerivationNext(requests, paths) ==
    \/ \E r \in requests : CallDerive(r)
    \/ \E l \in held, path \in paths : AppendElsewhere(l, path, LastState)

-----------------------------------------------------------------------------
(* Of one result: every chain is a legal lifecycle and none goes past its  *)
(* end, whatever lineages were carried in.                                 *)
ChainsLegal ==
    \A c \in derivation.chains :
       /\ LegalChain(c.chain)
       /\ \A i \in 1 .. Len(c.chain) - 1 : c.chain[i].to \notin Ends

(* What a result supersedes has ended in it, nothing else has, and its     *)
(* successor goes on.  A Difference has one chain, and so one status,      *)
(* unless another target's binding carried a lineage of it in and          *)
(* superseded it: only then may a second chain of it stand beside.         *)
OneChainPerDifference ==
    LET res == derivation
    IN /\ \A c, d \in res.chains : c.of = d.of =>
            \/ c = d
            \/ \E rel \in res.relations :
                  rel.old = c.of /\ rel.new.target # c.of.target
       /\ \A rel \in res.relations :
            /\ \E c \in res.chains : c.of = rel.old /\ Status(c.chain) = "SUPERSEDED"
            /\ \E c \in res.chains : c.of = rel.new /\ Status(c.chain) # "SUPERSEDED"
       /\ \A c \in res.chains : Status(c.chain) = "SUPERSEDED" =>
            \E rel \in res.relations : rel.old = c.of

(* A target is reported satisfied only on what its Observation shows: by   *)
(* facts none of which the latest word of that Observation contradicts or  *)
(* withdraws, or by proven absence; never for want of knowledge, nor by    *)
(* what lies outside its Scope, nor within a Scope not complete.           *)
SatisfiedIsSeen ==
    \A s \in derivation.shown :
       LET look == s.look
           last(f) == CHOOSE e \in f.evaluations :
                         e.own /\ \A x \in f.evaluations : x.own => x.number <= e.number
       IN /\ s.boundary.complete /\ look.flaws = {}
          /\ \A f \in look.facts : (\E e \in f.evaluations : e.own) /\ last(f).status = "SUPPORTED"
          /\ look.facts = {} =>
               \A n \in look.negatives : n.status \in {"ABSENT", "EMPTY"} /\ n.evidence
          /\ s.operator # "none" => look.facts # {}

(* What a derivation's result promises of its lineages and of its targets. *)
DerivationSound == ChainsLegal /\ OneChainPerDifference /\ SatisfiedIsSeen
=============================================================================
