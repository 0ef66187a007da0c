-------------------------- MODULE AuthorityEvaluation --------------------------
(***************************************************************************)
(* authority: evaluate_authority over a project's rules, prohibitions and  *)
(* approvals, while more of them are declared, time passes and the State   *)
(* moves on under the Difference that an action is requested for.          *)
(*                                                                         *)
(* A request is [kind, reversibility, scope]; its operation is part of the *)
(* kind here.  A scope is a location and a set of members, paths and       *)
(* subjects being treated alike.  Records are immutable, and the caller    *)
(* presents all there are; malformed and repeated ones are refused before. *)
(***************************************************************************)
EXTENDS Naturals, FiniteSets

CONSTANTS
    Kinds,          \* action kinds
    HumanOnly,      \* HUMAN_ONLY_ACTION_KINDS
    Places,         \* locations: repository and branch
    Members,        \* members of a scope
    RuleUniverse, ProhibitionUniverse,      \* what may be declared
    MaxRecords, MaxTime, MaxMoves           \* bounds

ASSUME HumanOnlyAssumption == HumanOnly \subseteq Kinds

(* A rule decides one of two things; it cannot prohibit                    *)
(* (authority_rule.schema.json).                                           *)
ASSUME RulesAssumption ==
    \A r \in RuleUniverse : r.decision \in {"AUTONOMOUS", "HUMAN_APPROVAL_REQUIRED"}

ASSUME BoundsAssumption ==
    MaxRecords \in Nat /\ MaxTime \in Nat /\ MaxMoves \in Nat

VARIABLES
    rules, prohibitions, approvals,     \* admitted records
    now,                                \* evaluation_time
    stateRevision,                           \* the current State's
    observedAt                          \* ... that the Difference observed

authorityVars ==
    <<rules, prohibitions, approvals, now, stateRevision, observedAt>>

-----------------------------------------------------------------------------
(* scope.py *)

Scopes == [at : Places, members : SUBSET Members]

(* A request for nothing is contained in nothing. *)
IsContained(requested, granted) ==
    /\ requested.at = granted.at
    /\ requested.members # {}
    /\ requested.members \subseteq granted.members

Overlaps(requested, forbidden) ==
    /\ requested.at = forbidden.at
    /\ requested.members \cap forbidden.members # {}

-----------------------------------------------------------------------------
(* levels.py *)

Reversibilities == <<"REVERSIBLE", "RECOVERABLE", "IRREVERSIBLE">>
Rank(reversibility) ==
    CHOOSE i \in DOMAIN Reversibilities : Reversibilities[i] = reversibility

Exceeds(actual, ceiling) == Rank(actual) > Rank(ceiling)

Severity(decision) ==
    CASE decision = "AUTONOMOUS" -> 0
      [] decision = "HUMAN_APPROVAL_REQUIRED" -> 1
      [] decision = "PROHIBITED" -> 2

\* Seeded fault: the last decision wins.
LeastRestrictive(decisions) ==
    CHOOSE d \in decisions : \A e \in decisions : Severity(d) <= Severity(e)
(* most_restrictive, at_least_as_restrictive_as. *)
MostRestrictive(decisions) ==
    CHOOSE d \in decisions : \A e \in decisions : Severity(d) >= Severity(e)

-----------------------------------------------------------------------------
(* prohibition.py: one of the project, or constitutional. *)

AppliesToProject(p) == p.class = "CONSTITUTIONAL" \/ p.project = "own"

Matching(rq) ==
    {p \in prohibitions : /\ AppliesToProject(p)
                          /\ rq.kind \in p.kinds
                          /\ Overlaps(rq.scope, p.scope)}

-----------------------------------------------------------------------------
(* engine.py: rules and floors. *)

(* _resolve_rules: the rules that speak of all of the request. *)
Governing(rq) ==
    {r \in rules : /\ rq.kind \in r.kinds
                   /\ ~Exceeds(rq.reversibility, r.ceiling)
                   /\ IsContained(rq.scope, r.scope)}

\* Seeded fault: what no rule forbids is allowed.
AllowedByDefault(rq) ==
    IF Governing(rq) = {} THEN "AUTONOMOUS"
    ELSE MostRestrictive({r.decision : r \in Governing(rq)})
ByRule(rq) ==
    IF Governing(rq) = {} THEN "HUMAN_APPROVAL_REQUIRED"
    ELSE MostRestrictive({r.decision : r \in Governing(rq)})

NeedsHuman(rq) == rq.kind \in HumanOnly \/ rq.reversibility = "IRREVERSIBLE"

WithFloor(rq) ==
    IF NeedsHuman(rq)
    THEN MostRestrictive({ByRule(rq), "HUMAN_APPROVAL_REQUIRED"})
    ELSE ByRule(rq)

-----------------------------------------------------------------------------
(* approval.py *)

\* Seeded fault: an approval outlives the State it was given on.
BindsAnyRevision(a, rq) ==
    /\ a.status = "ACTIVE" /\ a.opens <= now /\ now <= a.closes
    /\ a.intent = rq /\ IsContained(rq.scope, a.scope)
(* binding_mismatches is empty: active, in its window, for this Difference,*)
(* change intent and action, on this exact State, and wide enough.         *)
Binds(a, rq) ==
    /\ a.status = "ACTIVE"
    /\ a.opens <= now /\ now <= a.closes
    /\ a.intent = rq
    /\ a.stateRevision = stateRevision
    /\ IsContained(rq.scope, a.scope)

Bound(rq) == {a \in approvals : Binds(a, rq)}

(* excludes_action: a bound approval may prohibit what it approves. *)
Excluding(rq) == {a \in Bound(rq) : rq.kind \in a.prohibited}

(* One exclusion voids every approval. *)
Usable(rq) == IF Excluding(rq) = {} THEN Bound(rq) ELSE {}

-----------------------------------------------------------------------------
(* _evaluate. *)

(* An exclusion is a floor as well. *)
Level(rq) ==
    IF Excluding(rq) # {}
    THEN MostRestrictive({WithFloor(rq), "HUMAN_APPROVAL_REQUIRED"})
    ELSE WithFloor(rq)

Decision(rq) ==
    CASE Matching(rq) # {} -> "PROHIBITED"
      [] Matching(rq) = {} /\ Usable(rq) # {} -> "AUTONOMOUS"
      [] OTHER -> Level(rq)

(* StaleAuthorityInputError: no decision on a State the Difference has not *)
(* observed.                                                               *)
Fresh == observedAt = stateRevision

(* _cite_rule: of the rules that govern, those that say what was decided.  *)
Cited(rq) == {r \in Governing(rq) : r.decision = Decision(rq)}

(* approval_ref: only a decision that needed one names an approval. *)
UsedApproval(rq) ==
    IF Matching(rq) = {} /\ Level(rq) = "HUMAN_APPROVAL_REQUIRED"
    THEN Usable(rq) ELSE {}

-----------------------------------------------------------------------------

Requests ==
    [kind : Kinds, reversibility : {Reversibilities[i] : i \in 1..3},
     scope : Scopes]

Records == Cardinality(rules) + Cardinality(prohibitions) + Cardinality(approvals)

Declare ==
    /\ Records < MaxRecords
    /\ \/ \E r \in RuleUniverse : rules' = rules \cup {r} /\ UNCHANGED prohibitions
       \/ /\ \E p \in ProhibitionUniverse : prohibitions' = prohibitions \cup {p}
          /\ UNCHANGED rules
    /\ UNCHANGED <<approvals, now, stateRevision, observedAt>>

(* A human approves a request, on the State there is. *)
Approve(rq) ==
    /\ Records < MaxRecords
    /\ \E status \in {"ACTIVE", "REVOKED"}, closes \in now..MaxTime,
          prohibited \in {{}, {rq.kind}} :
          approvals' = approvals \cup
             {[status |-> status, opens |-> now, closes |-> closes,
               intent |-> rq, scope |-> rq.scope, stateRevision |-> stateRevision,
               prohibited |-> prohibited]}
    /\ UNCHANGED <<rules, prohibitions, now, stateRevision, observedAt>>

TimePasses ==
    /\ now < MaxTime /\ now' = now + 1
    /\ UNCHANGED <<rules, prohibitions, approvals, stateRevision, observedAt>>

StateMoves ==
    /\ stateRevision < MaxMoves /\ stateRevision' = stateRevision + 1
    /\ UNCHANGED <<rules, prohibitions, approvals, now, observedAt>>

(* The Difference is derived again. *)
Reobserve ==
    /\ ~Fresh /\ observedAt' = stateRevision
    /\ UNCHANGED <<rules, prohibitions, approvals, now, stateRevision>>

AuthorityInit ==
    /\ rules = {} /\ prohibitions = {} /\ approvals = {}
    /\ now = 0 /\ stateRevision = 0 /\ observedAt = 0

AuthorityNext ==
    \/ Declare \/ (\E rq \in Requests : Approve(rq))
    \/ TimePasses \/ StateMoves \/ Reobserve

-----------------------------------------------------------------------------

(* What is only for a human, or cannot be undone, is autonomous only while *)
(* an approval of exactly that request is in force on the present State,   *)
(* and no approval in force excludes it; whatever rules allow, approvals   *)
(* of an earlier State or hour do not count.                               *)
HumanOnlyApproved ==
    \A rq \in Requests :
        (Fresh /\ NeedsHuman(rq) /\ Decision(rq) = "AUTONOMOUS") =>
            LET inForce == {a \in approvals :
                              /\ a.intent = rq /\ a.stateRevision = observedAt
                              /\ a.status = "ACTIVE"
                              /\ now \in a.opens..a.closes}
            IN inForce # {} /\ \A a \in inForce : rq.kind \notin a.prohibited

(* Every decision cites what it rests on: an autonomous one a rule that    *)
(* says so or an approval, never neither, and no rule is cited that says   *)
(* otherwise.                                                              *)
DecisionsCite ==
    \A rq \in Requests :
        /\ Decision(rq) = "AUTONOMOUS" => Cited(rq) # {} \/ UsedApproval(rq) # {}
        /\ Decision(rq) = "PROHIBITED" => Matching(rq) # {}
        /\ UsedApproval(rq) # {} => Decision(rq) = "AUTONOMOUS"

(* More rules and prohibitions never permit more: once some rule governs a *)
(* request, a declaration can only restrict it, whatever was declared      *)
(* before and in whatever order.                                           *)
DeclarationsRestrict ==
    [][\A rq \in Requests :
          (approvals' = approvals /\ now' = now /\ stateRevision' = stateRevision
             /\ Governing(rq) # {}) =>
                Severity(Decision(rq)') >= Severity(Decision(rq))
      ]_authorityVars

(* What decisions promise, at each moment and from one to the next.        *)
AuthoritySound == [](HumanOnlyApproved /\ DecisionsCite) /\ DeclarationsRestrict
=============================================================================
