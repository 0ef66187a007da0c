--------------------------- MODULE Decisions_proofs ---------------------------
(***************************************************************************)
(* Proofs about what decides: AuthorityEvaluation, for any kinds, places,  *)
(* members, rules and prohibitions; ReflowRoute, for any callers and       *)
(* Differences and whatever they ask; and DifferenceDerivation, for any    *)
(* number of targets, any looks and whatever lineages are carried in.      *)
(***************************************************************************)
EXTENDS AuthorityEvaluation, ReflowRoute, DifferenceDerivation, Integers, WellOrder,
        FiniteSetTheorems, SequenceTheorems, TLAPS

-----------------------------------------------------------------------------
(* Levels. *)

Levels == {"AUTONOMOUS", "HUMAN_APPROVAL_REQUIRED", "PROHIBITED"}

(* What is most restrictive of some decisions is one of them, and no other *)
(* is more so (levels.py: max over the order).                             *)
LEMMA MostRestrictiveOf ==
  ASSUME NEW D, D \subseteq Levels, D # {}
  PROVE  /\ MostRestrictive(D) \in D
         /\ \A e \in D : Severity(MostRestrictive(D)) >= Severity(e)
<1>1. \E d \in D : \A e \in D : Severity(d) >= Severity(e)
  <2>1. CASE "PROHIBITED" \in D
    BY <2>1 DEF Levels, Severity
  <2>2. CASE "PROHIBITED" \notin D /\ "HUMAN_APPROVAL_REQUIRED" \in D
    BY <2>2 DEF Levels, Severity
  <2>3. CASE D = {"AUTONOMOUS"}
    BY <2>3 DEF Severity
  <2> QED
    BY <2>1, <2>2, <2>3 DEF Levels
<1> QED
  BY <1>1, Zenon DEF MostRestrictive

(* A decision together with a person's approval is at least that.          *)
LEMMA Raised ==
  ASSUME NEW d \in {"AUTONOMOUS", "HUMAN_APPROVAL_REQUIRED"}
  PROVE  MostRestrictive({d, "HUMAN_APPROVAL_REQUIRED"}) = "HUMAN_APPROVAL_REQUIRED"
<1>1. {d, "HUMAN_APPROVAL_REQUIRED"} \subseteq Levels
  BY DEF Levels
<1>2. PICK m : m = MostRestrictive({d, "HUMAN_APPROVAL_REQUIRED"})
  OBVIOUS
<1>3. m \in {d, "HUMAN_APPROVAL_REQUIRED"} /\ Severity(m) >= Severity("HUMAN_APPROVAL_REQUIRED")
  BY <1>1, <1>2, MostRestrictiveOf
<1> QED
  BY <1>2, <1>3 DEF Severity

(* More decisions are no less restrictive.                                 *)
LEMMA MoreRestricts ==
  ASSUME NEW C, NEW D, D \subseteq Levels, C \subseteq D, C # {}
  PROVE  Severity(MostRestrictive(D)) >= Severity(MostRestrictive(C))
BY MostRestrictiveOf

-----------------------------------------------------------------------------
(* What the records are. *)

ApprovalOK(a) ==
    /\ a.opens \in Nat /\ a.closes \in Int
    /\ a.scope = a.intent.scope

AuthorityInv ==
    /\ rules \subseteq RuleUniverse
    /\ \A a \in approvals : ApprovalOK(a)
    /\ now \in Nat

(* Rules decide to act or to ask, with the floors above them.              *)
LevelsAre(rq) ==
    /\ ByRule(rq) \in {"AUTONOMOUS", "HUMAN_APPROVAL_REQUIRED"}
    /\ WithFloor(rq) = IF NeedsHuman(rq) THEN "HUMAN_APPROVAL_REQUIRED"
                       ELSE ByRule(rq)
    /\ Level(rq) = IF NeedsHuman(rq) \/ Excluding(rq) # {}
                   THEN "HUMAN_APPROVAL_REQUIRED" ELSE ByRule(rq)
    /\ ByRule(rq) = "AUTONOMOUS" =>
          \E r \in Governing(rq) : r.decision = "AUTONOMOUS"

AllLevels == \A rq \in Requests : LevelsAre(rq)

(* What a decision is made of (_resolve_rules, the floors, the exclusion). *)
LEMMA LevelsOf == AuthorityInv => AllLevels
<1> SUFFICES ASSUME AuthorityInv, NEW rq \in Requests PROVE LevelsAre(rq)
  BY DEF AllLevels
<1> DEFINE D == {r.decision : r \in Governing(rq)}
<1>1. D \subseteq {"AUTONOMOUS", "HUMAN_APPROVAL_REQUIRED"}
  BY RulesAssumption DEF AuthorityInv, Governing
<1>2. Governing(rq) # {} => MostRestrictive(D) \in D
  <2>1. D \subseteq Levels
    BY <1>1 DEF Levels
  <2> QED
    BY <2>1, MostRestrictiveOf
<1>3. ByRule(rq) = IF Governing(rq) = {} THEN "HUMAN_APPROVAL_REQUIRED" ELSE MostRestrictive(D)
  BY DEF ByRule
<1>4. ByRule(rq) \in {"AUTONOMOUS", "HUMAN_APPROVAL_REQUIRED"}
  BY <1>1, <1>2, <1>3
<1>5. ByRule(rq) = "AUTONOMOUS" => \E r \in Governing(rq) : r.decision = "AUTONOMOUS"
  BY <1>2, <1>3
<1>6. WithFloor(rq) = IF NeedsHuman(rq) THEN "HUMAN_APPROVAL_REQUIRED" ELSE ByRule(rq)
  BY <1>4, Raised DEF WithFloor
<1>7. WithFloor(rq) \in {"AUTONOMOUS", "HUMAN_APPROVAL_REQUIRED"}
  BY <1>4, <1>6
<1>8. Level(rq) = IF NeedsHuman(rq) \/ Excluding(rq) # {}
                  THEN "HUMAN_APPROVAL_REQUIRED" ELSE ByRule(rq)
  BY <1>6, <1>7, Raised DEF Level
<1> QED
  BY <1>4, <1>5, <1>6, <1>8 DEF LevelsAre

(* What is only for a human is acted on with an approval in force.         *)
LEMMA ApprovedSound == AuthorityInv => HumanOnlyApproved
<1> SUFFICES ASSUME AuthorityInv, NEW rq \in Requests, Fresh, NeedsHuman(rq),
                    Decision(rq) = "AUTONOMOUS"
             PROVE  LET inForce == {a \in approvals :
                                      /\ a.intent = rq /\ a.stateRevision = observedAt
                                      /\ a.status = "ACTIVE"
                                      /\ now \in a.opens..a.closes}
                    IN inForce # {} /\ \A a \in inForce : rq.kind \notin a.prohibited
  BY Zenon DEF HumanOnlyApproved
<1> DEFINE inForce == {a \in approvals :
                         /\ a.intent = rq /\ a.stateRevision = observedAt
                         /\ a.status = "ACTIVE"
                         /\ now \in a.opens..a.closes}
<1>1. Level(rq) = "HUMAN_APPROVAL_REQUIRED"
  BY LevelsOf DEF AllLevels, LevelsAre
<1>2. Usable(rq) # {}
  BY <1>1 DEF Decision
<1>3. Excluding(rq) = {} /\ Bound(rq) # {}
  BY <1>2 DEF Usable
<1>4. PICK a \in approvals : Binds(a, rq)
  BY <1>3 DEF Bound
<1>5. a \in inForce
  BY <1>4 DEF Binds, Fresh, AuthorityInv, ApprovalOK
<1>6. ASSUME NEW b \in inForce PROVE rq.kind \notin b.prohibited
  <2>1. b.opens <= now /\ now <= b.closes /\ b.scope = rq.scope
    BY DEF AuthorityInv, ApprovalOK
  <2>2. IsContained(rq.scope, b.scope)
    BY <1>4, <2>1 DEF Binds, IsContained
  <2>3. Binds(b, rq)
    BY <2>1, <2>2 DEF Binds, Fresh
  <2> QED
    BY <1>3, <2>3 DEF Excluding, Bound
<1> QED
  BY <1>5, <1>6

(* A decision rests on the rule or the approval it cites.                  *)
LEMMA CitesSound == AuthorityInv => DecisionsCite
<1> SUFFICES ASSUME AuthorityInv, NEW rq \in Requests
             PROVE  /\ Decision(rq) = "AUTONOMOUS" => Cited(rq) # {} \/ UsedApproval(rq) # {}
                    /\ Decision(rq) = "PROHIBITED" => Matching(rq) # {}
                    /\ UsedApproval(rq) # {} => Decision(rq) = "AUTONOMOUS"
  BY Zenon DEF DecisionsCite
<1>1. Level(rq) \in {"AUTONOMOUS", "HUMAN_APPROVAL_REQUIRED"}
  BY LevelsOf DEF AllLevels, LevelsAre
<1>2. Level(rq) = "AUTONOMOUS" => \E r \in Governing(rq) : r.decision = "AUTONOMOUS"
  BY LevelsOf DEF AllLevels, LevelsAre
<1>3. CASE Matching(rq) # {}
  BY <1>3 DEF Decision, UsedApproval
<1>4. CASE Matching(rq) = {}
  BY <1>1, <1>2, <1>4 DEF Decision, UsedApproval, Cited
<1> QED
  BY <1>3, <1>4

(* The records stay what they are.                                         *)
LEMMA AuthorityStep == AuthorityInv /\ [AuthorityNext]_authorityVars => AuthorityInv'
<1> SUFFICES ASSUME AuthorityInv, [AuthorityNext]_authorityVars PROVE AuthorityInv'
  OBVIOUS
<1>1. CASE Declare
  BY <1>1 DEF Declare, AuthorityInv
<1>2. ASSUME NEW rq \in Requests, Approve(rq) PROVE AuthorityInv'
  <2>1. PICK status \in {"ACTIVE", "REVOKED"}, closes \in now..MaxTime,
             prohibited \in {{}, {rq.kind}} :
          approvals' = approvals \cup
             {[status |-> status, opens |-> now, closes |-> closes,
               intent |-> rq, scope |-> rq.scope, stateRevision |-> stateRevision,
               prohibited |-> prohibited]}
    BY <1>2 DEF Approve
  <2> QED
    BY <1>2, <2>1, BoundsAssumption DEF Approve, AuthorityInv, ApprovalOK
<1>3. CASE TimePasses
  BY <1>3 DEF TimePasses, AuthorityInv
<1>4. CASE StateMoves \/ Reobserve \/ UNCHANGED authorityVars
  BY <1>4 DEF StateMoves, Reobserve, authorityVars, AuthorityInv
<1> QED
  BY <1>1, <1>2, <1>3, <1>4 DEF AuthorityNext

(* Of the same request, at the same moment, with the same approvals and no *)
(* fewer rules and prohibitions: no more is permitted.                     *)
LEMMA DeclaringRestricts ==
  ASSUME AuthorityInv, AuthorityInv', rules \subseteq rules',
         prohibitions \subseteq prohibitions',
         UNCHANGED <<approvals, now, stateRevision>>,
         NEW rq \in Requests, Governing(rq) # {}
  PROVE  Severity(Decision(rq)') >= Severity(Decision(rq))
<1>1. /\ Matching(rq) \subseteq Matching(rq)' /\ Governing(rq) \subseteq Governing(rq)'
      /\ Usable(rq)' = Usable(rq) /\ Excluding(rq)' = Excluding(rq)
  BY DEF Matching, Governing, Usable, Excluding, Bound, Binds
<1>2. /\ ByRule(rq) \in {"AUTONOMOUS", "HUMAN_APPROVAL_REQUIRED"}
      /\ ByRule(rq)' \in {"AUTONOMOUS", "HUMAN_APPROVAL_REQUIRED"}
      /\ Level(rq) = IF NeedsHuman(rq) \/ Excluding(rq) # {}
                     THEN "HUMAN_APPROVAL_REQUIRED" ELSE ByRule(rq)
      /\ Level(rq)' = IF NeedsHuman(rq) \/ Excluding(rq)' # {}
                      THEN "HUMAN_APPROVAL_REQUIRED" ELSE ByRule(rq)'
  <2>1. AuthorityInv' => AllLevels'
    BY LevelsOf, PTL
  <2>2. LevelsAre(rq) /\ LevelsAre(rq)'
    BY <2>1, LevelsOf DEF AllLevels
  <2>3. NeedsHuman(rq)' = NeedsHuman(rq)
    BY DEF NeedsHuman
  <2> QED
    BY <2>2, <2>3 DEF LevelsAre
<1>3. Severity(ByRule(rq)') >= Severity(ByRule(rq))
  <2> DEFINE C == {r.decision : r \in Governing(rq)}
             D == {r.decision : r \in Governing(rq)'}
  <2>1. D \subseteq Levels /\ C \subseteq D /\ C # {}
    BY <1>1, RulesAssumption DEF AuthorityInv, Governing, Levels
  <2>2. Severity(MostRestrictive(D)) >= Severity(MostRestrictive(C))
    BY <2>1, MoreRestricts
  <2>3. ByRule(rq) = MostRestrictive(C) /\ ByRule(rq)' = MostRestrictive(D)
    BY <1>1, Zenon DEF ByRule, MostRestrictive, Severity
  <2> QED
    BY <2>2, <2>3
<1>4. Severity(Level(rq)') >= Severity(Level(rq))
  BY <1>1, <1>2, <1>3 DEF Severity
<1> QED
  BY <1>1, <1>2, <1>4 DEF Decision, Severity

AuthoritySpec == AuthorityInit /\ [][AuthorityNext]_authorityVars

(* Whatever is declared, approved, revoked and let expire, while the State *)
(* moves on: human-only requests are acted on under an approval in force,  *)
(* decisions cite what they rest on, and no declaration permits more.      *)
THEOREM AuthorityHolds == AuthoritySpec => AuthoritySound
<1>1. AuthorityInit => AuthorityInv
  BY DEF AuthorityInit, AuthorityInv
<1>2. AuthorityInv => HumanOnlyApproved /\ DecisionsCite
  BY ApprovedSound, CitesSound
<1>3. AuthorityInv /\ AuthorityInv' /\ [AuthorityNext]_authorityVars =>
         [\A rq \in Requests :
            (approvals' = approvals /\ now' = now /\ stateRevision' = stateRevision
               /\ Governing(rq) # {}) =>
                  Severity(Decision(rq)') >= Severity(Decision(rq))]_authorityVars
  <2>1. [AuthorityNext]_authorityVars =>
           rules \subseteq rules' /\ prohibitions \subseteq prohibitions'
    BY DEF AuthorityNext, Declare, Approve, TimePasses, StateMoves, Reobserve,
           authorityVars
  <2> QED
    BY <2>1, DeclaringRestricts
<1> QED
  BY <1>1, <1>2, <1>3, AuthorityStep, PTL
  DEF AuthoritySpec, AuthoritySound, DeclarationsRestrict

-----------------------------------------------------------------------------
(* ReflowRoute.                                                            *)

Closing == {"CLOSED"} \cup Ends

(* The last committed event of a Difference.                               *)
IsLatest(e, d) ==
    /\ e \in events /\ e.difference = d /\ e.number > 0
    /\ \A f \in events : f.difference = d => f.base <= e.base

(* No event leads to VERIFYING: the lifecycle up to it is the caller's     *)
(* word, given once, before the Genesis is committed.                      *)
EventOK(e) ==
    /\ e.number \in Nat /\ e.base \in Nat
    /\ e.to # "VERIFYING"
    /\ e.number = 0 => e = Genesis(e.difference)
    /\ e.to = "CLOSED" => e.previous = Id(Genesis(e.difference))

EventsOK ==
    /\ \A e \in events :
          /\ EventOK(e) /\ e.base <= revision
          /\ e.number > 0 => e.base < revision
          /\ \E f \in events : IsLatest(f, e.difference)
    /\ \A e, f \in events :
          (e.number > 0 /\ f.number > 0 /\ e.difference = f.difference /\ e.base = f.base)
              => e = f
    /\ \A e, f \in events :
          (e.to = "CLOSED" /\ f.to = "CLOSED" /\ e.difference = f.difference) => e = f

OpenOK ==
    \A d \in Differences :
        d \in open <=> \E e \in events : IsLatest(e, d) /\ e.to \notin Closing

ClosureAdmitted(k, records) ==
    \A e \in k.evidence \cup k.changes :
        EvidenceRecord(e) \in records /\ Observation(e.observation) \in records

RecordsOK ==
    /\ ReferencesResolve(events, {})
    /\ \A k \in closures : SoundlyClosed(k) /\ ClosureAdmitted(k, admitted)

(* What a call has decided, while the State it read may be gone.           *)
DecidedOK(call) ==
    /\ EventOK(call.event) /\ call.event.number > 0 /\ call.event.base = call.base
    /\ call.event \in call.events
    /\ call.events \subseteq {call.event, Genesis(call.event.difference)}
    /\ ReferencesResolve(call.events, call.records)
    /\ \A k \in call.closure : SoundlyClosed(k) /\ ClosureAdmitted(k, call.records)
    /\ (call.event.to = "CLOSED" /\ call.base = revision) =>
          Genesis(call.event.difference) \notin events

CallOK(call) ==
    /\ call.pc \in {"idle", "loaded", "decided"}
    /\ call.pc # "idle" =>
          /\ call.base \in Baseline.at .. revision
          /\ call.base = revision => call.open = open
    /\ call.pc = "decided" => DecidedOK(call)

ReflowInv ==
    /\ revision \in Baseline.at .. LastRevision /\ observed \subseteq Observable
    /\ EventsOK /\ OpenOK /\ RecordsOK
    /\ calls = [c \in Requesters |-> calls[c]]
    /\ \A c \in Requesters : CallOK(calls[c])

-----------------------------------------------------------------------------
(* What a closing Evaluation shows.                                        *)

(* Sufficient Evidence confirms, and at the level asked for: it is as weak *)
(* as its weakest piece.                                                   *)
LEMMA SufficientConfirms ==
  ASSUME NEW E, NEW t, Sufficiency(E, t) = "SUFFICIENT",
         \A e \in E : e.observation \in Observable
  PROVE  /\ E # {}
         /\ \A e \in E : /\ e.observation.status \in {"COMPLETE", "EMPTY"}
                         /\ MinimumLevel > 0 => e.observation.sourced
<1>1. /\ E # {} /\ MinimumLevel \in {0, 1} /\ ~(Weakest(E) < MinimumLevel)
      /\ \A e \in E : e.observation.status \notin Determinate \cup Indeterminate
  BY DEF Sufficiency, IsInsufficient, LevelInsufficient, DerivableLevels
<1>2. \A e \in E : e.observation.status \in {"COMPLETE", "EMPTY"}
  BY <1>1, ObservableAssumption DEF ObservationStatuses
<1>3. \A e \in E : LevelOf(e) \in {0, 1} /\ (LevelOf(e) = 1 => e.observation.sourced)
  BY DEF LevelOf, DeriveLevel
<1>4. ASSUME MinimumLevel > 0, NEW e \in E PROVE e.observation.sourced
  <2> DEFINE L == {LevelOf(f) : f \in E}
  <2>1. L \subseteq Nat /\ L # {}
    BY <1>1, <1>3
  <2>2. PICK l \in L : \A m \in L : l <= m
    BY <2>1, LeastNat
  <2>3. Weakest(E) \in L /\ \A f \in E : Weakest(E) <= LevelOf(f)
    BY <1>1, <2>2 DEF Weakest
  <2>4. Weakest(E) \in {0, 1} /\ LevelOf(e) \in {0, 1} /\ Weakest(E) <= LevelOf(e)
    BY <1>3, <2>3
  <2>5. MinimumLevel = 1
    BY <1>1, <1>4
  <2> QED
    BY <1>1, <1>3, <2>4, <2>5
<1> QED
  BY <1>1, <1>2, <1>4

(* An Evaluation in time is no older than its oldest Evidence allows.      *)
LEMMA OldestBounds ==
  ASSUME NEW E, \A e \in E : e.recorded \in Nat, E # {}, NEW i \in Nat,
         ~(i > Oldest(E) + MaximumAge)
  PROVE  \A e \in E : i <= e.recorded + MaximumAge
<1> DEFINE T == {e.recorded : e \in E}
<1>1. T \subseteq Nat /\ T # {}
  OBVIOUS
<1>2. PICK t \in T : \A u \in T : t <= u
  BY <1>1, LeastNat
<1>3. Oldest(E) \in T /\ \A e \in E : Oldest(E) <= e.recorded
  BY <1>2 DEF Oldest
<1> QED
  BY <1>1, <1>3, MaximumAgeAssumption

(* A satisfied Claim series ends in the event numbered last.               *)
LEMMA ClaimEnds ==
  ASSUME NEW C, IsFiniteSet(C), ClaimSatisfied(C)
  PROVE  \E e \in C : e.number = Cardinality(C) - 1 /\ e.status = "SATISFIED"
<1>1. Cardinality(C) \in Nat /\ Cardinality(C) # 0
  BY FS_CardinalityType, FS_EmptySet DEF ClaimSatisfied, Reconstructs
<1> DEFINE n == Cardinality(C) - 1
<1>2. n \in 0 .. n /\ {e.number : e \in C} = 0 .. n
  BY <1>1 DEF ClaimSatisfied, Reconstructs
<1>3. PICK e \in C : e.number = n
  BY <1>2
<1>4. \A f \in C : f.number \in 0 .. n
  BY <1>2
<1>5. \A f \in C : f.number <= e.number
  BY <1>3, <1>4
<1>6. ClaimHead(C) \in C /\ \A f \in C : f.number <= ClaimHead(C).number
  BY <1>5 DEF ClaimHead
<1>7. ClaimHead(C).number = n
  BY <1>2, <1>3, <1>4, <1>6
<1> QED
  BY <1>6, <1>7 DEF ClaimSatisfied

(* What a Difference is closed on (evaluate_closure and commit_reflow).    *)
LEMMA EvaluatedSound ==
  ASSUME NEW base \in Baseline.at .. LastRevision, NEW status \in Verifiable,
         observed \subseteq Observable,
         NEW r \in ClosureRequests(base, status, observed),
         NEW i \in Nat, NEW event, event.base = base,
         Evaluates(r), r.proposed = "CLOSED", InTime(r, i)
  PROVE  SoundlyClosed(Closure(event, r, i))
<1>1. /\ r.base = base /\ r.after \subseteq observed /\ IsFiniteSet(r.claims)
      /\ \A e \in r.evidence : e.observation \in Observable /\ e.recorded \in Nat
  BY ClosureRequestsAssumption
<1>2. Result(r) = "SATISFIED"
  BY DEF Evaluates
<1>3. AllPass(r)
  BY <1>2 DEF Result
<1>4. ~r.contradicted
  BY <1>2, Zenon DEF Result
<1>5. G6G11(r) /\ Reproduces(r) /\ G8(r) /\ G12(r) /\ G19(r) /\ G21(r)
  <2>1. Passing(r) = Gates
    BY <1>3 DEF AllPass
  <2> QED
    BY <2>1 DEF Passing, Gates
<1>6. /\ r.evidence # {}
      /\ \A e \in r.evidence : /\ e.observation.status \in {"COMPLETE", "EMPTY"}
                               /\ MinimumLevel > 0 => e.observation.sourced
  BY <1>1, <1>5, SufficientConfirms DEF G12, EvidenceSuffices
<1>7. \A e \in r.evidence : i <= e.recorded + MaximumAge
  BY <1>1, <1>6, OldestBounds DEF InTime, Expired
<1>8. \E o \in r.after : o.satisfied /\ o \in observed
  BY <1>1, <1>5 DEF Reproduces
<1>9. ASSUME NEW c \in r.changes PROVE c.observation \notin r.after /\ base = Baseline.at
  <2>1. r.mode = "CHANGE_BOUND"
    BY <1>5, <1>9 DEF G6G11
  <2>2. c.observation \notin r.after
    BY <1>5, <2>1 DEF G8, IndependentlyObserved
  <2>3. Verified("A-005", r)
    BY <1>5 DEF G19, Mandatory
  <2> QED
    BY <1>1, <1>9, <2>2, <2>3 DEF Verified, ChangeOfCurrentState
<1>10. \E e \in r.claims : e.number = Cardinality(r.claims) - 1 /\ e.status = "SATISFIED"
  BY <1>1, <1>5, ClaimEnds DEF G21
<1> QED
  BY <1>4, <1>6, <1>7, <1>8, <1>9, <1>10, Zenon DEF SoundlyClosed, Closure

-----------------------------------------------------------------------------
(* Steps.                                                                  *)

(* A call that does not commit is over.                                    *)
LEMMA AnswerStep ==
  ASSUME ReflowInv, NEW c \in Requesters, Answer(c)
  PROVE  ReflowInv'
<1>1. /\ calls' = [x \in Requesters |-> IF x = c THEN Idle ELSE calls[x]]
      /\ UNCHANGED <<revision, open, events, closures, admitted, observed>>
  BY DEF Answer, Call, ReflowInv
<1>2. \A x \in Requesters : x # c => CallOK(calls[x])'
  BY <1>1
  DEF ReflowInv, CallOK, DecidedOK, EventOK, SoundlyClosed, ClosureAdmitted, ReferencesResolve
<1>3. CallOK(Idle)'
  BY DEF CallOK, Idle
<1>4. \A x \in Requesters : CallOK(calls[x])'
  BY <1>1, <1>2, <1>3
<1> QED
  BY <1>1, <1>4
  DEF ReflowInv, EventsOK, OpenOK, RecordsOK, IsLatest, EventOK, SoundlyClosed,
      ClosureAdmitted, ReferencesResolve

(* Deciding, by either route: the call's State is the one it loaded.       *)
LEMMA DecidedStep ==
  ASSUME ReflowInv, NEW c \in Requesters, calls[c].pc = "loaded",
         NEW event, NEW newEvents, NEW newRecords, NEW closing,
         Decided(c, event, newEvents, newRecords, closing),
         EventOK(event), event.number > 0, event.base = calls[c].base,
         event \in newEvents,
         newEvents \subseteq {event, Genesis(event.difference)},
         \A k \in closing : SoundlyClosed(k) /\ ClosureAdmitted(k, newRecords),
         event.to = "CLOSED" => Genesis(event.difference) \notin events
  PROVE  ReflowInv'
<1> DEFINE call == [pc |-> "decided", base |-> calls[c].base, open |-> calls[c].open,
                    event |-> event, events |-> newEvents, records |-> newRecords,
                    closure |-> closing]
<1>1. /\ calls' = [x \in Requesters |-> IF x = c THEN call ELSE calls[x]]
      /\ UNCHANGED <<revision, open, events, closures, admitted, observed>>
  BY DEF Decided, Proceed, Call, ReflowInv
<1>2. ReferencesResolve(newEvents, newRecords)
  BY DEF Decided, AdmissibleTransition
<1>3. CallOK(call)
  BY <1>2 DEF CallOK, DecidedOK, ReflowInv
<1> HIDE DEF call
<1>4. \A x \in Requesters : CallOK(calls'[x])
  BY <1>1, <1>3 DEF ReflowInv
<1>5. \A x \in Requesters : CallOK(calls[x])'
  BY <1>1, <1>4
  DEF CallOK, DecidedOK, EventOK, SoundlyClosed, ClosureAdmitted, ReferencesResolve
<1> QED
  BY <1>1, <1>5
  DEF ReflowInv, EventsOK, OpenOK, RecordsOK, IsLatest, EventOK, SoundlyClosed,
      ClosureAdmitted, ReferencesResolve

(* reflow.  Only a Difference whose Genesis is not committed is verifying. *)
LEMMA EvaluateStep ==
  ASSUME ReflowInv, NEW c \in Requesters, Evaluate(c, Instants)
  PROVE  ReflowInv'
<1>1. CASE Answer(c)
  BY <1>1, AnswerStep
<1>2. CASE ~Answer(c)
  <2>0. PICK d \in Differences, status \in Verifiable, base \in {calls[c].base} :
          \E head \in {e \in events : e.difference = d} \cup {Genesis(d)},
             r \in ClosureRequests(base, status, observed), i \in Instants :
             /\ calls[c].pc = "loaded"
             /\ GroundTruth(d, head, status)
             /\ Evaluates(r) /\ InTime(r, i)
             /\ Decide(c, d, head, r, i)
    BY <1>2 DEF Evaluate
  <2>1. PICK head \in {e \in events : e.difference = d} \cup {Genesis(d)},
             r \in ClosureRequests(base, status, observed), i \in Instants :
          /\ calls[c].pc = "loaded"
          /\ GroundTruth(d, head, status)
          /\ Evaluates(r) /\ InTime(r, i)
          /\ Decide(c, d, head, r, i)
    BY <2>0
  <2> DEFINE event == Minted(d, head, r.status, r.proposed, base, r.named)
             closing == IF r.proposed = "CLOSED" THEN {Closure(event, r, i)} ELSE {}
  <2>2. /\ base \in Baseline.at .. LastRevision /\ base \in Nat
        /\ observed \subseteq Observable /\ i \in Nat
    BY <2>1, RevisionsAssumption DEF ReflowInv, CallOK
  <2>3. r.status = status
    BY <2>2, ClosureRequestsAssumption
  <2>4. head.difference = d /\ EventOK(head)
    BY <2>1, RevisionsAssumption DEF ReflowInv, EventsOK, EventOK, Genesis, Event
  <2>5. /\ event.difference = d /\ event.number = head.number + 1 /\ event.number > 0
        /\ event.base = base /\ event.previous = Id(head) /\ event.to = r.proposed
        /\ event.number \in Nat
    BY <2>4 DEF Minted, Event, EventOK
  <2>6. r.proposed \in {"CLOSED", "BLOCKED", "RETAINED"}
    BY <2>1 DEF Evaluates
  <2>7. r.proposed = "CLOSED" => head = Genesis(d) /\ head \notin events
    <3>1. r.proposed = "CLOSED" => status = "VERIFYING"
      BY <2>1, <2>3 DEF Evaluates, IsLegalTransition, Next_, Verifiable, Leaves, Ends
    <3>2. head \in events => head.to # "VERIFYING"
      BY <2>4 DEF EventOK
    <3> QED
      BY <2>1, <3>1, <3>2 DEF GroundTruth
  <2>8. EventOK(event)
    BY <2>2, <2>5, <2>6, <2>7 DEF EventOK
  <2>9. \A k \in closing : SoundlyClosed(k) /\ ClosureAdmitted(k, AdmittedRecords(r))
    <3> SUFFICES ASSUME r.proposed = "CLOSED"
                 PROVE  /\ SoundlyClosed(Closure(event, r, i))
                        /\ ClosureAdmitted(Closure(event, r, i), AdmittedRecords(r))
      OBVIOUS
    <3>1. SoundlyClosed(Closure(event, r, i))
      BY <2>1, <2>2, <2>5, EvaluatedSound
    <3>2. ClosureAdmitted(Closure(event, r, i), AdmittedRecords(r))
      BY DEF ClosureAdmitted, Closure, AdmittedRecords, EvidenceOf, ObservationsOf
    <3> QED
      BY <3>1, <3>2
  <2>10. Decided(c, event, AdmittedEvents(event, r), AdmittedRecords(r), closing)
    BY <2>1 DEF Decide
  <2> HIDE DEF event, closing
  <2>11. /\ event \in AdmittedEvents(event, r)
         /\ AdmittedEvents(event, r) \subseteq {event, Genesis(event.difference)}
    BY DEF AdmittedEvents
  <2>12. event.to = "CLOSED" => Genesis(event.difference) \notin events
    BY <2>5, <2>7
  <2> QED
    BY <2>1, <2>5, <2>8, <2>9, <2>10, <2>11, <2>12, DecidedStep
<1> QED
  BY <1>1, <1>2

(* reopen                                                                  *)
LEMMA ReopenStep ==
  ASSUME ReflowInv, NEW c \in Requesters, DecideReopen(c, {{}, observed})
  PROVE  ReflowInv'
<1>1. PICK head \in events, saw \in {{}, observed} :
        /\ calls[c].pc = "loaded"
        /\ Decided(c, Minted(head.difference, head, "CLOSED", "REOPENED", calls[c].base, saw),
                   {Minted(head.difference, head, "CLOSED", "REOPENED", calls[c].base, saw)},
                   {}, {})
  BY DEF DecideReopen
<1> DEFINE event == Minted(head.difference, head, "CLOSED", "REOPENED", calls[c].base, saw)
<1>2. /\ head.number \in Nat /\ calls[c].base \in Nat
  BY <1>1, RevisionsAssumption DEF ReflowInv, EventsOK, EventOK, CallOK
<1>3. /\ event.number = head.number + 1 /\ event.base = calls[c].base
      /\ event.to = "REOPENED"
  BY DEF Minted, Event
<1>4. EventOK(event) /\ event.number > 0
  BY <1>2, <1>3 DEF EventOK
<1> HIDE DEF event
<1>5. Decided(c, event, {event}, {}, {})
  BY <1>1 DEF event
<1> QED
  BY <1>1, <1>3, <1>4, <1>5, DecidedStep

(* What the others do.                                                     *)
LEMMA LoadStep ==
  ASSUME ReflowInv, NEW c \in Requesters, LoadState(c)
  PROVE  ReflowInv'
<1>1. /\ UNCHANGED <<revision, open, events, closures, admitted, observed>>
      /\ revision \in Baseline.at .. revision
  BY RevisionsAssumption DEF LoadState, Proceed, ReflowInv
<1>2. PICK call : call = [pc |-> "loaded", base |-> revision, open |-> open]
  OBVIOUS
<1>3. calls' = [x \in Requesters |-> IF x = c THEN call ELSE calls[x]]
  BY <1>2 DEF LoadState, Proceed, Call, ReflowInv
<1>4. CallOK(call)
  <2>1. call.pc = "loaded" /\ call.base = revision /\ call.open = open
    BY <1>2
  <2> QED
    BY <1>1, <2>1 DEF CallOK
<1>5. \A x \in Requesters : CallOK(calls'[x])
  BY <1>3, <1>4 DEF ReflowInv
<1>6. \A x : CallOK(x) => CallOK(x)'
  BY <1>1 DEF CallOK, DecidedOK, EventOK, SoundlyClosed, ClosureAdmitted, ReferencesResolve
<1>7. EventsOK' /\ OpenOK' /\ RecordsOK'
  BY <1>1 DEF ReflowInv, EventsOK, OpenOK, RecordsOK, IsLatest, EventOK, SoundlyClosed,
              ClosureAdmitted, ReferencesResolve
<1> QED
  BY <1>1, <1>3, <1>5, <1>6, <1>7 DEF ReflowInv

LEMMA ObserveStep == ASSUME ReflowInv, Observe PROVE ReflowInv'
<1>1. /\ UNCHANGED <<revision, open, events, closures, admitted, calls>>
      /\ observed \subseteq observed' /\ observed' \subseteq Observable
  BY DEF Observe, ReflowInv
<1>2. \A k : SoundlyClosed(k) => SoundlyClosed(k)'
  BY <1>1, Zenon DEF SoundlyClosed
<1> QED
  BY <1>1, <1>2
  DEF ReflowInv, CallOK, DecidedOK, EventsOK, OpenOK, RecordsOK, IsLatest, EventOK,
      ClosureAdmitted, ReferencesResolve

LEMMA OthersStep == ASSUME ReflowInv, OthersTransition PROVE ReflowInv'
<1>1. /\ revision \in Nat /\ revision' = revision + 1 /\ revision' \in Baseline.at .. LastRevision
      /\ UNCHANGED <<open, events, closures, admitted, observed, calls>>
  BY RevisionsAssumption DEF OthersTransition, ReflowInv
<1>2. EventsOK'
  BY <1>1 DEF ReflowInv, EventsOK, EventOK, IsLatest
<1>3. OpenOK' /\ RecordsOK'
  BY <1>1 DEF ReflowInv, OpenOK, RecordsOK, IsLatest, SoundlyClosed, ClosureAdmitted,
              ReferencesResolve
<1>4. ASSUME NEW c \in Requesters PROVE CallOK(calls[c])'
  BY <1>1, RevisionsAssumption
  DEF ReflowInv, CallOK, DecidedOK, EventOK, SoundlyClosed, ClosureAdmitted, ReferencesResolve
<1> QED
  BY <1>1, <1>2, <1>3, <1>4 DEF ReflowInv

(* The event committed is the last of its Difference: every other was      *)
(* decided on an earlier State.                                            *)
LEMMA CommitStep ==
  ASSUME ReflowInv, NEW c \in Requesters, CommitReflow(c)
  PROVE  ReflowInv'
<1>1. CASE ~Swaps(calls[c])
  BY <1>1, AnswerStep DEF CommitReflow
<1>2. CASE Swaps(calls[c])
  <2>1. PICK call : call = calls[c]
    OBVIOUS
  <2>2. /\ revision' = revision + 1 /\ revision < LastRevision
        /\ open' = NextOpen(call)
        /\ events' = events \cup call.events
        /\ admitted' = admitted \cup call.records
        /\ closures' = closures \cup call.closure
        /\ calls' = [x \in Requesters |-> IF x = c THEN Idle ELSE calls[x]]
        /\ observed' = observed
        /\ call.base = revision /\ call.pc = "decided"
    BY <1>2, <2>1 DEF CommitReflow, Swaps, Call, ReflowInv
  <2>3. /\ DecidedOK(call) /\ call.open = open
        /\ revision \in Nat /\ Baseline.at \in Nat /\ Baseline.at <= revision
        /\ revision' \in Baseline.at .. LastRevision
    BY <2>1, <2>2, RevisionsAssumption DEF ReflowInv, CallOK
  <2>4. PICK event, d : event = call.event /\ d = event.difference
    OBVIOUS
  <2>5. /\ event \in events' /\ event.number > 0 /\ event.number \in Nat
        /\ event.base = revision /\ EventOK(event) /\ event.difference = d
        /\ call.events \subseteq {event, Genesis(d)}
    BY <2>2, <2>3, <2>4 DEF DecidedOK, EventOK
  <2>6. /\ EventOK(Genesis(d)) /\ Genesis(d).base <= revision /\ Genesis(d).number = 0
        /\ Genesis(d).difference = d /\ Genesis(d).to = "DETECTED"
    BY <2>3 DEF EventOK, Genesis, Event
  <2>7. \A e \in events' : e \in events \/ e = event \/ e = Genesis(d)
    BY <2>2, <2>5
  <2>8. \A e \in events' : EventOK(e)' /\ e.base \in Nat /\ e.base <= revision
    BY <2>3, <2>5, <2>6, <2>7 DEF ReflowInv, EventsOK, EventOK
  <2>9. \A e \in events' : e.number > 0 => e = event \/ (e \in events /\ e.base < revision)
    BY <2>6, <2>7 DEF ReflowInv, EventsOK
  <2>10. IsLatest(event, d)'
    BY <2>5, <2>8 DEF IsLatest
  <2>11. \A e, x : x # d => (IsLatest(e, x) <=> IsLatest(e, x)')
    BY <2>2, <2>5, <2>6, <2>7 DEF IsLatest
  <2>12. EventsOK'
    <3>1. ASSUME NEW e \in events'
          PROVE  /\ EventOK(e)' /\ e.base <= revision'
                 /\ e.number > 0 => e.base < revision'
                 /\ \E f \in events' : IsLatest(f, e.difference)'
      <4>1. EventOK(e)' /\ e.base <= revision' /\ (e.number > 0 => e.base < revision')
        BY <2>2, <2>3, <2>8
      <4>2. \E f \in events' : IsLatest(f, e.difference)'
        <5>1. CASE e.difference = d
          BY <2>5, <2>10, <5>1
        <5>2. CASE e.difference # d
          BY <2>2, <2>5, <2>6, <2>7, <2>11, <5>2 DEF ReflowInv, EventsOK
        <5> QED
          BY <5>1, <5>2
      <4> QED
        BY <4>1, <4>2
    <3>2. ASSUME NEW e \in events', NEW f \in events',
                 e.number > 0, f.number > 0, e.difference = f.difference, e.base = f.base
          PROVE  e = f
      BY <2>3, <2>5, <2>9, <3>2 DEF ReflowInv, EventsOK
    <3>3. event.to = "CLOSED" =>
            \A e \in events : ~(e.to = "CLOSED" /\ e.difference = d)
      <4> SUFFICES ASSUME event.to = "CLOSED", NEW e \in events,
                          e.to = "CLOSED", e.difference = d
                   PROVE  FALSE
        OBVIOUS
      <4>1. Genesis(d) \notin events
        BY <2>2, <2>3, <2>4 DEF DecidedOK
      <4>2. e.previous = Id(Genesis(d)) /\ e.number > 0
        BY <2>6 DEF ReflowInv, EventsOK, EventOK
      <4>3. PICK g \in events : g.difference = d /\ Id(g) = Id(Genesis(d))
        BY <4>2 DEF ReflowInv, RecordsOK, ReferencesResolve
      <4>4. g.number = 0
        BY <2>6, <4>3 DEF Id
      <4> QED
        BY <4>1, <4>3, <4>4 DEF ReflowInv, EventsOK, EventOK
    <3>4. ASSUME NEW e \in events', NEW f \in events',
                 e.to = "CLOSED", f.to = "CLOSED", e.difference = f.difference
          PROVE  e = f
      BY <2>5, <2>6, <2>7, <3>3, <3>4 DEF ReflowInv, EventsOK
    <3> QED
      BY <3>1, <3>2, <3>4 DEF EventsOK
  <2>13. OpenOK'
    <3> SUFFICES ASSUME NEW x \in Differences
                 PROVE  x \in open' <=> \E e \in events' : IsLatest(e, x)' /\ e.to \notin Closing
      BY DEF OpenOK
    <3>1. open' = IF event.to \in Closing THEN open \ {d} ELSE open \cup {d}
      BY <2>2, <2>3, <2>4 DEF NextOpen, Closing
    <3>2. CASE x = d
      <4>1. ASSUME NEW e \in events', IsLatest(e, d)' PROVE e = event
        <5>1. e.number > 0 /\ revision <= e.base
          BY <2>5, <4>1 DEF IsLatest
        <5>2. e = event \/ (e.base < revision /\ e.base \in Nat)
          BY <2>8, <2>9, <5>1
        <5> QED
          BY <2>3, <5>1, <5>2
      <4> QED
        BY <2>5, <2>10, <3>1, <3>2, <4>1
    <3>3. CASE x # d
      <4>1. x \in open' <=> x \in open
        BY <3>1, <3>3
      <4>2. \A e : IsLatest(e, x)' <=> IsLatest(e, x)
        BY <2>11, <3>3
      <4>3. \A e : IsLatest(e, x) => e \in events /\ e \in events'
        BY <2>2 DEF IsLatest
      <4> QED
        BY <4>1, <4>2, <4>3 DEF ReflowInv, OpenOK
    <3> QED
      BY <3>2, <3>3
  <2>14. RecordsOK'
    <3>1. ReferencesResolve(events, {})'
      <4>1. ReferencesResolve(events, {}) /\ ReferencesResolve(call.events, call.records)
        BY <2>3 DEF ReflowInv, RecordsOK, DecidedOK
      <4> QED
        BY <2>2, <4>1 DEF ReferencesResolve
    <3>2. \A k \in closures' : SoundlyClosed(k)' /\ ClosureAdmitted(k, admitted')
      BY <2>2, <2>3 DEF ReflowInv, RecordsOK, DecidedOK, SoundlyClosed, ClosureAdmitted
    <3> QED
      BY <3>1, <3>2 DEF RecordsOK, ClosureAdmitted
  <2>15. ASSUME NEW x \in Requesters PROVE CallOK(calls[x])'
    <3>1. CASE x = c
      <4>1. calls'[x].pc = "idle"
        BY <2>2, <3>1 DEF Idle
      <4> QED
        BY <4>1 DEF CallOK
    <3>2. CASE x # c
      <4>1. calls'[x] = calls[x] /\ CallOK(calls[x])
        BY <2>2, <3>2 DEF ReflowInv
      <4>2. calls[x].pc = "decided" => DecidedOK(calls[x])'
        BY <2>2, <2>3, <4>1
        DEF CallOK, DecidedOK, EventOK, ReferencesResolve, SoundlyClosed, ClosureAdmitted
      <4> QED
        BY <2>2, <2>3, <4>1, <4>2 DEF CallOK
    <3> QED
      BY <3>1, <3>2
  <2> QED
    BY <2>2, <2>3, <2>12, <2>13, <2>14, <2>15 DEF ReflowInv
<1> QED
  BY <1>1, <1>2

-----------------------------------------------------------------------------
ReflowSpec == ReflowInit /\ [][ReflowNext(Instants)]_reflowVars

LEMMA ReflowStep == ReflowInv /\ [ReflowNext(Instants)]_reflowVars => ReflowInv'
<1> SUFFICES ASSUME ReflowInv, [ReflowNext(Instants)]_reflowVars PROVE ReflowInv'
  OBVIOUS
<1>1. CASE UNCHANGED reflowVars
  BY <1>1
  DEF reflowVars, ReflowInv, CallOK, DecidedOK, EventsOK, OpenOK, RecordsOK, IsLatest, EventOK,
      SoundlyClosed, ClosureAdmitted, ReferencesResolve
<1>2. CASE ReflowNext(Instants)
  BY <1>2, LoadStep, EvaluateStep, ReopenStep, CommitStep, ObserveStep, OthersStep
  DEF ReflowNext
<1> QED
  BY <1>1, <1>2

LEMMA ReflowInvSound == ReflowInv => ReflowSound
<1> SUFFICES ASSUME ReflowInv PROVE ReflowSound
  OBVIOUS
<1>1. OpenMatchesLifecycle
  <2> SUFFICES ASSUME NEW d \in Differences
               PROVE  d \in open <=> /\ \E e \in events : e.difference = d
                                     /\ Latest(d).to \notin Closing
    BY DEF OpenMatchesLifecycle, Closing
  <2>1. ASSUME NEW e \in events, IsLatest(e, d) PROVE Latest(d) = e
    <3>1. \A f \in events :
            (f.difference = d /\ f.number > 0
              /\ \A g \in events : g.difference = d => g.base <= f.base) => f = e
      BY <2>1 DEF IsLatest, ReflowInv, EventsOK, EventOK
    <3> QED
      BY <2>1, <3>1 DEF Latest, IsLatest
  <2>2. d \in open <=> \E e \in events : IsLatest(e, d) /\ e.to \notin Closing
    BY DEF ReflowInv, OpenOK
  <2>3. ASSUME NEW e \in events, e.difference = d
        PROVE  \E f \in events : IsLatest(f, d)
    BY <2>3 DEF ReflowInv, EventsOK
  <2>4. \A e \in events : IsLatest(e, d) => e.difference = d
    BY DEF IsLatest
  <2> QED
    BY <2>1, <2>2, <2>3, <2>4
<1>2. ClosedOnce
  BY DEF ClosedOnce, ReflowInv, EventsOK, EventOK
<1>3. ClosedSoundly /\ ReferencesCommitted
  BY DEF ReflowInv, RecordsOK, ClosedSoundly, ReferencesCommitted, ClosureAdmitted
<1> QED
  BY <1>1, <1>2, <1>3 DEF ReflowSound

(* However many callers reflow and reopen, whatever they ask, and whatever *)
(* else moves the State meanwhile: the State's open Differences are those  *)
(* their lifecycle leaves open, each is closed once at most and on what a  *)
(* closing takes, and nothing committed refers to what is not.             *)
THEOREM ReflowHolds == ReflowSpec => []ReflowSound
<1>1. ReflowInit => ReflowInv
  BY RevisionsAssumption
  DEF ReflowInit, ReflowInv, EventsOK, OpenOK, RecordsOK, ReferencesResolve, CallOK, Idle
<1> QED
  BY <1>1, ReflowStep, ReflowInvSound, PTL DEF ReflowSpec

-----------------------------------------------------------------------------
(* DifferenceDerivation.                                                   *)

(* What derive_differences has after the target of each number.            *)
BoundFirst(r) == [Empty EXCEPT !.objectives = {r.objective}]
BoundNext(acc, r, t) == IF t \in DOMAIN r.bindings THEN BindOne(acc, r, t) ELSE acc
BoundUpto(f, r, n) ==
    f = [t \in 0 .. n |-> IF t = 0 THEN BoundFirst(r) ELSE BoundNext(f[t - 1], r, t)]

LEMMA BoundExists ==
  ASSUME NEW r
  PROVE  \E f : BoundUpto(f, r, LastTarget)
<1> DEFINE Without == {n \in 0 .. LastTarget : \A f : ~BoundUpto(f, r, n)}
<1>1. LastTarget \in Nat
  BY DerivationAssumption
<1>2. ASSUME Without # {} PROVE FALSE
  <2>1. Without \in SUBSET Nat
    BY <1>1
  <2>2. PICK n \in Without : \A m \in Without : n <= m
    BY <1>2, <2>1, LeastNat
  <2>3. n \in 0 .. LastTarget /\ \A f : ~BoundUpto(f, r, n)
    BY <2>2
  <2>4. n # 0
    <3> DEFINE g == [t \in 0 .. 0 |-> BoundFirst(r)]
    <3>1. g = [t \in 0 .. 0 |-> IF t = 0 THEN BoundFirst(r) ELSE BoundNext(g[t - 1], r, t)]
      OBVIOUS
    <3>2. BoundUpto(g, r, 0)
      BY <3>1 DEF BoundUpto
    <3> QED
      BY <2>3, <3>2
  <2>5. n - 1 \in 0 .. LastTarget /\ n - 1 \notin Without
    <3> HIDE DEF Without
    <3> QED
      BY <1>1, <2>2, <2>3, <2>4
  <2>6. PICK f : BoundUpto(f, r, n - 1)
    BY <2>5
  <2> DEFINE g == [t \in 0 .. n |-> IF t = n THEN BoundNext(f[n - 1], r, n) ELSE f[t]]
  <2>7. \A t \in 0 .. n - 1 : g[t] = f[t]
    BY <2>3, <1>1
  <2>8. \A t \in 0 .. n : g[t] = IF t = 0 THEN BoundFirst(r) ELSE BoundNext(g[t - 1], r, t)
    <3> SUFFICES ASSUME NEW t \in 0 .. n
                 PROVE  g[t] = IF t = 0 THEN BoundFirst(r) ELSE BoundNext(g[t - 1], r, t)
      OBVIOUS
    <3>1. CASE t = n
      <4>1. g[t] = BoundNext(f[n - 1], r, n) /\ g[n - 1] = f[n - 1]
        BY <3>1, <2>7, <2>3, <2>4, <1>1
      <4> HIDE DEF g
      <4> QED
        BY <4>1, <3>1, <2>4
    <3>2. CASE t # n
      <4>1. t \in 0 .. n - 1
        BY <3>2, <2>3, <1>1
      <4>2. f[t] = IF t = 0 THEN BoundFirst(r) ELSE BoundNext(f[t - 1], r, t)
        BY <4>1, <2>6 DEF BoundUpto
      <4>3. g[t] = f[t] /\ (t # 0 => g[t - 1] = f[t - 1])
        BY <4>1, <2>7, <2>3, <1>1
      <4> HIDE DEF g
      <4> QED
        BY <4>2, <4>3
    <3> QED
      BY <3>1, <3>2
  <2>9. g = [t \in 0 .. n |-> g[t]]
    OBVIOUS
  <2>10. BoundUpto(g, r, n)
    <3> HIDE DEF g
    <3> QED
      BY <2>8, <2>9 DEF BoundUpto
  <2> QED
    BY <2>3, <2>10
<1> QED
  BY <1>1, <1>2

LEMMA DeriveIs ==
  ASSUME NEW r
  PROVE  \E f : /\ BoundUpto(f, r, LastTarget)
                /\ LET all == f[LastTarget] IN
                   Derive(r) = IF /\ all.ok /\ OwnScopes(all) /\ ReferencesClosed(all)
                                  /\ Related(all)
                               THEN all ELSE Raises(all)
<1> DEFINE bound == CHOOSE f : BoundUpto(f, r, LastTarget)
<1>1. BoundUpto(bound, r, LastTarget)
  BY BoundExists
<1>2. LET all == bound[LastTarget] IN
      Derive(r) = IF /\ all.ok /\ OwnScopes(all) /\ ReferencesClosed(all) /\ Related(all)
                  THEN all ELSE Raises(all)
  BY DEF Derive, BoundUpto, BoundFirst, BoundNext
<1> QED
  BY <1>1, <1>2

-----------------------------------------------------------------------------
(* Chains.                                                                 *)
IsChain(chain) == \E S : chain \in Seq(S)
ChainOK(chain) == IsChain(chain) /\ LegalChain(chain)

(* A legal chain goes nowhere from an end.                                 *)
LEMMA LegalGoesOn ==
  ASSUME NEW chain, ChainOK(chain)
  PROVE  \A i \in 1 .. Len(chain) - 1 : chain[i].to \notin Ends
<1> SUFFICES ASSUME NEW i \in 1 .. Len(chain) - 1, chain[i].to \in Ends PROVE FALSE
  OBVIOUS
<1>1. Len(chain) \in Nat
  BY DEF ChainOK, IsChain
<1>2. i + 1 \in 2 .. Len(chain) /\ (i + 1) - 1 = i
  BY <1>1
<1>3. LegalStep(chain, i + 1)
  BY <1>2 DEF ChainOK, LegalChain
<1>4. CASE chain[i + 1].kind = "OBSERVATION_BOUND"
  BY <1>2, <1>3, <1>4 DEF LegalStep, ObservationBoundForbidden
<1>5. CASE chain[i + 1].kind # "OBSERVATION_BOUND"
  <2>1. chain[i + 1].to \in Next_(chain[i].to)
    BY <1>2, <1>3, <1>5 DEF LegalStep, IsLegalTransition
  <2>2. Next_(chain[i].to) = {}
    BY DEF Ends, Next_
  <2> QED
    BY <2>1, <2>2
<1> QED
  BY <1>4, <1>5

LEMMA ChainAppends ==
  ASSUME NEW chain, ChainOK(chain), NEW e,
         IF e.kind = "OBSERVATION_BOUND"
         THEN e.to = Status(chain) /\ e.to \notin ObservationBoundForbidden
         ELSE IsLegalTransition(Status(chain), e.to)
  PROVE  ChainOK(Append(chain, e)) /\ Status(Append(chain, e)) = e.to
         /\ Newest(Append(chain, e)) = e
<1> DEFINE longer == Append(chain, e)
<1>1. PICK S : chain \in Seq(S)
  BY DEF ChainOK, IsChain
<1>2. chain \in Seq(S \cup {e})
  BY <1>1
<1>3. /\ longer \in Seq(S \cup {e}) /\ Len(longer) = Len(chain) + 1 /\ Len(chain) \in Nat
      /\ longer[Len(longer)] = e /\ \A i \in 1 .. Len(chain) : longer[i] = chain[i]
  BY <1>2, AppendProperties
<1>4. Len(chain) # 0
  BY <1>1 DEF ChainOK, LegalChain
<1> HIDE DEF longer
<1>5. Newest(longer) = e /\ Status(longer) = e.to
  BY <1>3 DEF Newest, Status
<1>6. longer # << >> /\ longer[1].to = "DETECTED"
  BY <1>3, <1>4 DEF ChainOK, LegalChain
<1>7. ASSUME NEW i \in 2 .. Len(longer) PROVE LegalStep(longer, i)
  <2>1. CASE i <= Len(chain)
    <3>1. i \in 2 .. Len(chain) /\ longer[i] = chain[i] /\ longer[i - 1] = chain[i - 1]
      BY <1>3, <2>1
    <3>2. LegalStep(chain, i)
      BY <3>1 DEF ChainOK, LegalChain
    <3> QED
      BY <3>1, <3>2 DEF LegalStep
  <2>2. CASE i > Len(chain)
    <3>1. i = Len(longer) /\ i - 1 = Len(chain) /\ i - 1 \in 1 .. Len(chain)
      BY <1>3, <1>4, <2>2
    <3>2. longer[i] = e /\ longer[i - 1].to = Status(chain)
      BY <1>3, <3>1 DEF Status, Newest
    <3> QED
      BY <3>2 DEF LegalStep
  <2> QED
    BY <1>3, <2>1, <2>2
<1>8. ChainOK(longer)
  BY <1>3, <1>6, <1>7 DEF ChainOK, IsChain, LegalChain
<1> QED
  BY <1>5, <1>8 DEF longer

LEMMA GenesisOK ==
  ASSUME NEW r, NEW t, NEW asks
  PROVE  ChainOK(GenesisChain(r, t, asks)) /\ Status(GenesisChain(r, t, asks)) = "OPEN"
<1> DEFINE g == GenesisChain(r, t, asks)
<1>1. PICK first : first = DerivedEvent("TRANSITION", "DETECTED", r, {ObservationMade(r, t)}, FALSE)
  OBVIOUS
<1>2. PICK second : second = DerivedEvent("TRANSITION", "OPEN", r, {}, asks)
  OBVIOUS
<1>3. g = <<first, second>>
  BY <1>1, <1>2 DEF GenesisChain
<1>4. first.to = "DETECTED" /\ second.to = "OPEN" /\ second.kind = "TRANSITION"
  BY <1>1, <1>2 DEF DerivedEvent
<1> HIDE DEF g
<1>5. /\ g \in Seq({first, second}) /\ Len(g) = 2 /\ g[1] = first /\ g[2] = second /\ g # << >>
  BY <1>3
<1>6. IsLegalTransition("DETECTED", "OPEN")
  BY DEF IsLegalTransition, Next_
<1>7. LegalStep(g, 2)
  BY <1>4, <1>5, <1>6 DEF LegalStep
<1>8. ChainOK(g)
  BY <1>4, <1>5, <1>7 DEF ChainOK, IsChain, LegalChain
<1>9. Status(g) = "OPEN"
  BY <1>4, <1>5 DEF Status, Newest
<1> QED
  BY <1>8, <1>9 DEF g
-----------------------------------------------------------------------------
(* What a satisfied target rests on.                                       *)
SeenOK(s) ==
    LET look == s.look
        last(f) == CHOOSE e \in f.evaluations :
                      e.own /\ \A x \in f.evaluations : x.own => x.number <= e.number
    IN /\ s.boundary.complete /\ look.flaws = {}
       /\ \A f \in look.facts : (\E e \in f.evaluations : e.own) /\ last(f).status = "SUPPORTED"
       /\ look.facts = {} =>
            \A n \in look.negatives : n.status \in {"ABSENT", "EMPTY"} /\ n.evidence
       /\ s.operator # "none" => look.facts # {}

LEMMA SatisfiedSeen ==
  ASSUME NEW s, LookTyped(s.look), Projectable(s.look), s.boundary.complete,
         Mismatch(Knowledge(s.look), Values(s.look), s.operator) = "SATISFIED"
  PROVE  SeenOK(s)
<1> DEFINE look == s.look
<1>1. look.flaws = {}
  BY DEF LookTyped, LookFlaws, Projectable, WithinScope, NegativesWithinScope,
         UpstreamVerified
<1>2. /\ Knowledge(look) # "CONFLICTED" /\ Knowledge(look) \notin Unresolved
      /\ Values(look) = {} => s.operator = "none"
  <2>1. PICK k : k = Knowledge(look)
    OBVIOUS
  <2>2. PICK v : v = Values(look)
    OBVIOUS
  <2>3. Mismatch(k, v, s.operator) = "SATISFIED"
    BY <2>1, <2>2
  <2>4. k # "CONFLICTED" /\ k \notin Unresolved /\ (v = {} => s.operator = "none")
    BY <2>3 DEF Mismatch
  <2> QED
    BY <2>1, <2>2, <2>4
<1>3. ASSUME NEW f \in look.facts
      PROVE  /\ \E e \in f.evaluations : e.own
             /\ (CHOOSE e \in f.evaluations :
                    e.own /\ \A x \in f.evaluations : x.own => x.number <= e.number).status
                  = "SUPPORTED"
  <2> DEFINE own == {e \in f.evaluations : e.own}
  <2>1. UsableFact(f)
    BY <1>3 DEF Projectable
  <2>2. ObservationScoped(f) = own /\ own # {}
    BY <2>1 DEF UsableFact, ObservationScoped
  <2>3. LatestEvaluation(own).status \in {"SUPPORTED", "CONFLICTED"}
    BY <2>1, <2>2 DEF UsableFact
  <2>4. Knowledge(look) = FactKnowledge(look)
    BY <1>3 DEF Knowledge
  <2>5. LatestEvaluation(ObservationScoped(f)).status # "CONFLICTED"
    BY <1>2, <1>3, <2>4 DEF FactKnowledge
  <2>6. LatestEvaluation(own).status = "SUPPORTED"
    BY <2>2, <2>3, <2>5
  <2>7. \A e : (e \in own /\ \A x \in own : x.number <= e.number)
           <=> (e \in f.evaluations /\ (e.own /\ \A x \in f.evaluations : x.own => x.number <= e.number))
    OBVIOUS
  <2>8. LatestEvaluation(own) =
          CHOOSE e \in f.evaluations :
             e.own /\ \A x \in f.evaluations : x.own => x.number <= e.number
    BY <2>7, Zenon DEF LatestEvaluation
  <2> QED
    BY <2>2, <2>6, <2>8
<1>4. ASSUME look.facts = {}, NEW n \in look.negatives
      PROVE  n.status \in {"ABSENT", "EMPTY"} /\ n.evidence
  <2> DEFINE known == {NegativeKnowledge(x) : x \in look.negatives}
  <2>1. NegativesAgree(look) /\ look.negatives # {}
    BY <1>4 DEF Projectable
  <2>2. IsFiniteSet(known)
    <3>1. [x \in look.negatives |-> NegativeKnowledge(x)] \in Surjection(look.negatives, known)
      BY DEF Surjection
    <3>2. IsFiniteSet(look.negatives)
      BY DEF LookTyped
    <3> HIDE DEF known
    <3> QED
      BY <3>1, <3>2, FS_Surjection
  <2>3. Cardinality(known) = 1
    BY <2>1 DEF NegativesAgree
  <2> HIDE DEF known
  <2>4. PICK k : known = {k}
    BY <2>2, <2>3, FS_Singleton
  <2>5. \A x \in look.negatives : NegativeKnowledge(x) = k
    BY <2>4 DEF known
  <2>6. Knowledge(look) = NegativeKnowledge(CHOOSE x \in look.negatives : TRUE)
    BY <1>4 DEF Knowledge
  <2>7. NegativeKnowledge(n) = Knowledge(look)
    BY <2>1, <2>5, <2>6
  <2>8. /\ NegativeKnowledge(n) # "INVALID"
        /\ NegativeKnowledge(n) \in {"ABSENT", "EMPTY"} => n.evidence
    BY <2>1 DEF NegativesAgree
  <2>9. n.status \in NegativeStatuses
    BY DEF LookTyped
  <2> QED
    BY <1>2, <2>7, <2>8, <2>9 DEF NegativeKnowledge, NegativeStatuses, Unresolved
<1>5. s.operator # "none" => look.facts # {}
  BY <1>2 DEF Values
<1> QED
  BY <1>1, <1>3, <1>4, <1>5 DEF SeenOK

-----------------------------------------------------------------------------
(* A result on its way: its chains, and its satisfied targets.             *)
IsResult(acc) ==
    acc = [ok |-> acc.ok, chains |-> acc.chains, status |-> acc.status,
           relations |-> acc.relations, satisfied |-> acc.satisfied,
           objectives |-> acc.objectives, records |-> acc.records]

Pair(difference, chain) == [of |-> difference, chain |-> chain]

ChainsOK(chains) == \A c \in chains : c = Pair(c.of, c.chain) /\ ChainOK(c.chain)

(* Of the targets up to n, of which alone there are chains that go on.     *)
OneOK(chains, relations, n) ==
    /\ \A c \in chains : Status(c.chain) # "SUPERSEDED" => c.of.target \in 1 .. n
    /\ \A c, d \in chains : c.of = d.of =>
          \/ c = d
          \/ \E rel \in relations : rel.old = c.of /\ rel.new.target # c.of.target
    /\ \A rel \in relations :
          /\ \E c \in chains : c.of = rel.old /\ Status(c.chain) = "SUPERSEDED"
          /\ \E c \in chains : c.of = rel.new /\ Status(c.chain) # "SUPERSEDED"
    /\ \A c \in chains : Status(c.chain) = "SUPERSEDED" =>
          \E rel \in relations : rel.old = c.of

ShownOf(r, t) ==
    [operator |-> Operator[t], boundary |-> r.bindings[t].scope, look |-> Selected(r, t)]

ResultOK(acc, r, n) ==
    /\ IsResult(acc)
    /\ acc.ok =>
         /\ ChainsOK(acc.chains)
         /\ OneOK(acc.chains, acc.relations, n)
         /\ \A t \in acc.satisfied : SeenOK(ShownOf(r, t))

(* What a request may carry in: chains, and looks that are what an         *)
(* Observation can show.                                                   *)
CarriesOK(r) ==
    \A t \in DOMAIN r.bindings :
       /\ \A o \in r.bindings[t].bundle : LookTyped(o.look)
       /\ \A p \in r.bindings[t].prior : IsChain(p.chain)

(* A Difference of a target not bound yet can only have ended for another.  *)
LEMMA EndedElsewhere ==
  ASSUME NEW n \in Nat \ {0}, NEW chains, NEW relations, OneOK(chains, relations, n - 1),
         NEW c \in chains, c.of.target = n
  PROVE  \E rel \in relations : rel.old = c.of /\ rel.new.target # c.of.target
<1>1. n \notin 1 .. (n - 1)
  OBVIOUS
<1>2. Status(c.chain) = "SUPERSEDED"
  BY <1>1 DEF OneOK
<1>3. PICK rel \in relations : rel.old = c.of
  BY <1>2 DEF OneOK
<1>4. rel.new.target \in 1 .. (n - 1)
  BY DEF OneOK
<1> QED
  BY <1>1, <1>3, <1>4

LEMMA OneFresh ==
  ASSUME NEW n \in Nat \ {0}, NEW chains, NEW relations, ChainsOK(chains),
         OneOK(chains, relations, n - 1),
         NEW difference, difference.target = n, NEW chain, Status(chain) # "SUPERSEDED"
  PROVE  OneOK(chains \cup {Pair(difference, chain)}, relations, n)
<1>1. PICK new : new = Pair(difference, chain)
  OBVIOUS
<1>2. new.of = difference /\ new.chain = chain
  BY <1>1 DEF Pair
<1>3. \A c \in chains : Status(c.chain) # "SUPERSEDED" => c.of.target \in 1 .. (n - 1)
  BY DEF OneOK
<1>4. \A c \in chains \cup {new} : Status(c.chain) # "SUPERSEDED" => c.of.target \in 1 .. n
  BY <1>2, <1>3
<1>5. \A c \in chains : c.of = new.of =>
         \E rel \in relations : rel.old = c.of /\ rel.new.target # c.of.target
  BY <1>2, EndedElsewhere
<1>6. OneOK(chains \cup {new}, relations, n)
  BY <1>2, <1>4, <1>5 DEF OneOK
<1> QED
  BY <1>1, <1>6

LEMMA OneReplaced ==
  ASSUME NEW n \in Nat \ {0}, NEW chains, NEW relations, ChainsOK(chains),
         OneOK(chains, relations, n - 1),
         NEW difference, difference.target = n, NEW chain, Status(chain) # "SUPERSEDED",
         NEW old, old # difference, NEW ended, Status(ended) = "SUPERSEDED"
  PROVE  OneOK(chains \cup {Pair(old, ended)} \cup {Pair(difference, chain)},
               relations \cup {[old |-> old, new |-> difference]}, n)
<1>1. PICK new : new = Pair(difference, chain)
  OBVIOUS
<1>2. PICK was : was = Pair(old, ended)
  OBVIOUS
<1>3. /\ new.of = difference /\ new.chain = chain
      /\ was.of = old /\ was.chain = ended
  BY <1>1, <1>2 DEF Pair
<1>4. PICK rel : rel = [old |-> old, new |-> difference]
  OBVIOUS
<1>5. rel.old = old /\ rel.new = difference
  BY <1>4
<1>6. \A c \in chains : Status(c.chain) # "SUPERSEDED" => c.of.target \in 1 .. (n - 1)
  BY DEF OneOK
<1>7. \A c \in chains \cup {was} \cup {new} :
         Status(c.chain) # "SUPERSEDED" => c.of.target \in 1 .. n
  BY <1>3, <1>6
<1>8. \A c \in chains : c.of = new.of =>
         \E x \in relations : x.old = c.of /\ x.new.target # c.of.target
  BY <1>3, EndedElsewhere
<1>9. \A c \in chains : c.of = was.of =>
         \E x \in relations \cup {rel} : x.old = c.of /\ x.new.target # c.of.target
  <2> SUFFICES ASSUME NEW c \in chains, c.of = old
               PROVE  \E x \in relations \cup {rel} : x.old = c.of /\ x.new.target # c.of.target
    BY <1>3
  <2>1. CASE old.target = n
    BY <2>1, EndedElsewhere
  <2>2. CASE old.target # n
    BY <1>5, <2>2
  <2> QED
    BY <2>1, <2>2
<1>10. \A c, d \in chains \cup {was} \cup {new} : c.of = d.of =>
          \/ c = d
          \/ \E x \in relations \cup {rel} : x.old = c.of /\ x.new.target # c.of.target
  <2> SUFFICES ASSUME NEW c \in chains \cup {was} \cup {new},
                      NEW d \in chains \cup {was} \cup {new}, c.of = d.of, c # d
               PROVE  \E x \in relations \cup {rel} : x.old = c.of /\ x.new.target # c.of.target
    OBVIOUS
  <2>1. CASE c \in chains /\ d \in chains
    BY <2>1 DEF OneOK
  <2>2. CASE c \in chains /\ d \notin chains
    BY <1>8, <1>9, <2>2
  <2>3. CASE c \notin chains /\ d \in chains
    BY <1>8, <1>9, <2>3
  <2>4. CASE c \notin chains /\ d \notin chains
    BY <1>3, <2>4
  <2> QED
    BY <2>1, <2>2, <2>3, <2>4
<1>11. \A x \in relations \cup {rel} :
          /\ \E c \in chains \cup {was} \cup {new} : c.of = x.old /\ Status(c.chain) = "SUPERSEDED"
          /\ \E c \in chains \cup {was} \cup {new} : c.of = x.new /\ Status(c.chain) # "SUPERSEDED"
  BY <1>3, <1>5 DEF OneOK
<1>12. \A c \in chains \cup {was} \cup {new} : Status(c.chain) = "SUPERSEDED" =>
          \E x \in relations \cup {rel} : x.old = c.of
  BY <1>3, <1>5 DEF OneOK
<1>13. OneOK(chains \cup {was} \cup {new}, relations \cup {rel}, n)
  BY <1>7, <1>10, <1>11, <1>12 DEF OneOK
<1> QED
  BY <1>1, <1>2, <1>4, <1>13

LEMMA OneNext ==
  ASSUME NEW n \in Nat \ {0}, NEW chains, NEW relations, OneOK(chains, relations, n - 1)
  PROVE  OneOK(chains, relations, n)
<1>1. \A c \in chains : Status(c.chain) # "SUPERSEDED" => c.of.target \in 1 .. n
  BY DEF OneOK
<1> QED
  BY <1>1 DEF OneOK

(* The writes of a binding.                                                *)
LEMMA RaisesOK ==
  ASSUME NEW acc, IsResult(acc), NEW r, NEW n
  PROVE  ResultOK(Raises(acc), r, n)
<1>1. Raises(acc) = [acc EXCEPT !.ok = FALSE]
  BY DEF Raises
<1>2. IsResult(Raises(acc)) /\ ~Raises(acc).ok
  BY <1>1 DEF IsResult
<1> QED
  BY <1>2 DEF ResultOK

LEMMA AbsorbIs ==
  ASSUME NEW acc, IsResult(acc), NEW r, NEW t, NEW p, NEW carried
  PROVE  LET a == Absorb(acc, r, t, p, carried) IN
         /\ IsResult(a) /\ a.ok = acc.ok /\ a.chains = acc.chains
         /\ a.relations = acc.relations /\ a.satisfied = acc.satisfied
<1> DEFINE a == Absorb(acc, r, t, p, carried)
<1>1. PICK o, x : a = [acc EXCEPT !.objectives = o, !.records = x]
  BY DEF Absorb
<1> HIDE DEF a
<1>2. /\ IsResult(a) /\ a.ok = acc.ok /\ a.chains = acc.chains
      /\ a.relations = acc.relations /\ a.satisfied = acc.satisfied
  BY <1>1 DEF IsResult
<1> QED
  BY <1>2 DEF a

LEMMA EmitIs ==
  ASSUME NEW acc, IsResult(acc), NEW difference, NEW chain
  PROVE  LET e == Emit(acc, difference, chain) IN
         /\ IsResult(e)
         /\ e.ok => /\ acc.ok /\ SchemaAccepts(Newest(chain))
                    /\ e.chains = acc.chains \cup {Pair(difference, chain)}
                    /\ e.relations = acc.relations /\ e.satisfied = acc.satisfied
<1> DEFINE e == Emit(acc, difference, chain)
<1>1. CASE e = Raises(acc)
  <2> HIDE DEF e
  <2>1. IsResult(e) /\ ~e.ok
    BY <1>1 DEF Raises, IsResult
  <2> QED
    BY <2>1 DEF e
<1>2. CASE e # Raises(acc)
  <2>1. acc.ok /\ SchemaAccepts(Newest(chain))
    BY <1>2 DEF Emit
  <2>2. PICK records, status :
          e = [acc EXCEPT !.chains = acc.chains \cup {Pair(difference, chain)},
                          !.records = records, !.status = status]
    BY <1>2 DEF Emit, Pair
  <2> HIDE DEF e
  <2>3. /\ IsResult(e) /\ e.chains = acc.chains \cup {Pair(difference, chain)}
        /\ e.relations = acc.relations /\ e.satisfied = acc.satisfied
    BY <2>2 DEF IsResult
  <2> QED
    BY <2>1, <2>3 DEF e
<1> QED
  BY <1>1, <1>2

LEMMA ReplaceIs ==
  ASSUME NEW acc, IsResult(acc), NEW p, NEW difference, NEW r
  PROVE  LET a == Replace(acc, p, difference, r) IN
         /\ IsResult(a)
         /\ a.chains = acc.chains \cup {Pair(p.of, SupersededChain(p.chain, r))}
         /\ a.relations = acc.relations \cup {[old |-> p.of, new |-> difference]}
         /\ a.satisfied = acc.satisfied
<1> DEFINE a == Replace(acc, p, difference, r)
<1>1. PICK ok, status :
        a = [acc EXCEPT !.ok = ok,
               !.chains = acc.chains \cup {Pair(p.of, SupersededChain(p.chain, r))},
               !.status = status,
               !.relations = acc.relations \cup {[old |-> p.of, new |-> difference]}]
  BY DEF Replace, Pair
<1> HIDE DEF a
<1>2. /\ IsResult(a)
      /\ a.chains = acc.chains \cup {Pair(p.of, SupersededChain(p.chain, r))}
      /\ a.relations = acc.relations \cup {[old |-> p.of, new |-> difference]}
      /\ a.satisfied = acc.satisfied
  BY <1>1 DEF IsResult
<1> QED
  BY <1>2 DEF a
(* A chain that enters the result with its Difference.                     *)
LEMMA EmitKeeps ==
  ASSUME NEW r, NEW n \in Nat \ {0}, NEW acc, IsResult(acc),
         acc.ok => /\ ChainsOK(acc.chains)
                   /\ OneOK(acc.chains, acc.relations, n - 1)
                   /\ \A t \in acc.satisfied : SeenOK(ShownOf(r, t)),
         NEW difference, difference.target = n, NEW chain,
         SchemaAccepts(Newest(chain)) => ChainOK(chain) /\ Status(chain) # "SUPERSEDED"
  PROVE  ResultOK(Emit(acc, difference, chain), r, n)
<1> PICK e : e = Emit(acc, difference, chain)
  OBVIOUS
<1>1. /\ IsResult(e)
      /\ e.ok => /\ acc.ok /\ SchemaAccepts(Newest(chain))
                 /\ e.chains = acc.chains \cup {Pair(difference, chain)}
                 /\ e.relations = acc.relations /\ e.satisfied = acc.satisfied
  BY EmitIs
<1>2. ASSUME e.ok
      PROVE  /\ ChainsOK(e.chains)
             /\ OneOK(e.chains, e.relations, n)
             /\ \A t \in e.satisfied : SeenOK(ShownOf(r, t))
  <2>1. ChainOK(chain) /\ Status(chain) # "SUPERSEDED"
    BY <1>1, <1>2
  <2>2. ChainsOK(e.chains)
    BY <1>1, <1>2, <2>1 DEF ChainsOK, Pair
  <2>3. OneOK(e.chains, e.relations, n)
    <3>1. PICK chains, relations : chains = acc.chains /\ relations = acc.relations
      OBVIOUS
    <3>2. ChainsOK(chains) /\ OneOK(chains, relations, n - 1)
      BY <1>1, <1>2, <3>1
    <3>3. OneOK(chains \cup {Pair(difference, chain)}, relations, n)
      BY <2>1, <3>2, OneFresh
    <3> QED
      BY <1>1, <1>2, <3>1, <3>3
  <2> QED
    BY <1>1, <1>2, <2>2, <2>3
<1>3. ResultOK(e, r, n)
  BY <1>1, <1>2 DEF ResultOK
<1> QED
  BY <1>3

LEMMA BindFreshOK ==
  ASSUME NEW r, NEW n \in Nat \ {0}, NEW acc, ResultOK(acc, r, n - 1),
         NEW difference, difference.target = n
  PROVE  ResultOK(BindFresh(acc, r, n, difference), r, n)
<1>1. IsResult(acc)
  BY DEF ResultOK
<1>2. CASE Asks("OPEN", difference) /\ ~r.method
  BY <1>1, <1>2, RaisesOK DEF BindFresh
<1>3. CASE ~(Asks("OPEN", difference) /\ ~r.method)
  <2>1. PICK after : after = Absorb(acc, r, n, {}, FALSE)
    OBVIOUS
  <2>2. PICK chain : chain = GenesisChain(r, n, Asks("OPEN", difference))
    OBVIOUS
  <2>3. BindFresh(acc, r, n, difference) = Emit(after, difference, chain)
    BY <1>3, <2>1, <2>2 DEF BindFresh
  <2>4. /\ IsResult(after) /\ after.ok = acc.ok /\ after.chains = acc.chains
        /\ after.relations = acc.relations /\ after.satisfied = acc.satisfied
    <3>1. PICK o, x : after = [acc EXCEPT !.objectives = o, !.records = x]
      BY <2>1 DEF Absorb
    <3> QED
      BY <1>1, <3>1 DEF IsResult
  <2>5. ChainOK(chain) /\ Status(chain) # "SUPERSEDED"
    BY <2>2, GenesisOK
  <2>6. ResultOK(Emit(after, difference, chain), r, n)
    BY <2>4, <2>5, EmitKeeps DEF ResultOK
  <2> QED
    BY <2>3, <2>6
<1> QED
  BY <1>2, <1>3

LEMMA NewestAppends ==
  ASSUME NEW chain, IsChain(chain), NEW e
  PROVE  Newest(Append(chain, e)) = e
<1>1. PICK S : chain \in Seq(S)
  BY DEF IsChain
<1>2. chain \in Seq(S \cup {e})
  BY <1>1
<1> QED
  BY <1>2, AppendProperties DEF Newest

LEMMA BindSameOK ==
  ASSUME NEW r, NEW n \in Nat \ {0}, NEW acc, ResultOK(acc, r, n - 1),
         NEW difference, difference.target = n,
         NEW p, IsChain(p.chain), ValidPredecessor(p.chain)
  PROVE  ResultOK(BindSame(acc, r, n, p, difference), r, n)
<1>1. IsResult(acc)
  BY DEF ResultOK
<1>2. PICK asks : asks = Asks(Status(p.chain), difference)
  OBVIOUS
<1>3. PICK after : after = Absorb(acc, r, n, p, r.bindings[n].carried)
  OBVIOUS
<1>4. CASE (asks /\ ~r.method) \/ ~Resolvable(after, p, r)
  <2>1. BindSame(acc, r, n, p, difference) = Raises(acc)
    BY <1>2, <1>3, <1>4 DEF BindSame
  <2> QED
    BY <1>1, <2>1, RaisesOK
<1>5. CASE ~((asks /\ ~r.method) \/ ~Resolvable(after, p, r))
  <2>1. PICK e : e = DerivedEvent("OBSERVATION_BOUND", Status(p.chain), r,
                                  {ObservationMade(r, n)}, asks)
    OBVIOUS
  <2>2. PICK chain : chain = Append(p.chain, e)
    OBVIOUS
  <2>3. BindSame(acc, r, n, p, difference) = Emit(after, difference, chain)
    BY <1>2, <1>3, <1>5, <2>1, <2>2 DEF BindSame, BoundChain
  <2>4. /\ IsResult(after) /\ after.ok = acc.ok /\ after.chains = acc.chains
        /\ after.relations = acc.relations /\ after.satisfied = acc.satisfied
    BY <1>1, <1>3, AbsorbIs
  <2>5. e.kind = "OBSERVATION_BOUND" /\ e.to = Status(p.chain) /\ Newest(chain) = e
    BY <2>1, <2>2, NewestAppends DEF DerivedEvent
  <2>6. ASSUME SchemaAccepts(Newest(chain))
        PROVE  ChainOK(chain) /\ Status(chain) # "SUPERSEDED"
    <3>1. e.to # "CLOSED" /\ e.to \notin Ends
      BY <2>5, <2>6 DEF SchemaAccepts, ValidPredecessor
    <3>2. e.to \notin ObservationBoundForbidden /\ e.to # "SUPERSEDED"
      BY <3>1 DEF ObservationBoundForbidden, Ends
    <3>3. ChainOK(p.chain)
      BY DEF ValidPredecessor, ChainOK
    <3> QED
      BY <2>2, <2>5, <3>2, <3>3, ChainAppends
  <2>7. ResultOK(Emit(after, difference, chain), r, n)
    BY <2>4, <2>6, EmitKeeps DEF ResultOK
  <2> QED
    BY <2>3, <2>7
<1> QED
  BY <1>4, <1>5

LEMMA BindSupersedingOK ==
  ASSUME NEW r, NEW n \in Nat \ {0}, NEW acc, ResultOK(acc, r, n - 1), acc.ok,
         NEW difference, difference.target = n,
         NEW p, IsChain(p.chain), ValidPredecessor(p.chain), p.of # difference
  PROVE  ResultOK(BindSuperseding(acc, r, n, p, difference), r, n)
<1>1. IsResult(acc)
  BY DEF ResultOK
<1>2. PICK after : after = Absorb(acc, r, n, p, r.bindings[n].carried)
  OBVIOUS
<1>3. PICK chain : chain = GenesisChain(r, n, Asks("OPEN", difference))
  OBVIOUS
<1>4. CASE BindSuperseding(acc, r, n, p, difference) = Raises(acc)
  BY <1>1, <1>4, RaisesOK
<1>5. CASE BindSuperseding(acc, r, n, p, difference) # Raises(acc)
  <2>1. PICK replaced : replaced = Replace(after, p, difference, r)
    OBVIOUS
  <2>2. PICK ended : ended = SupersededChain(p.chain, r)
    OBVIOUS
  <2>3. /\ BindSuperseding(acc, r, n, p, difference) = Emit(replaced, difference, chain)
        /\ IsLegalTransition(Status(p.chain), "SUPERSEDED")
    BY <1>2, <1>3, <1>5, <2>1 DEF BindSuperseding
  <2>4. /\ IsResult(after) /\ after.ok = acc.ok /\ after.chains = acc.chains
        /\ after.relations = acc.relations /\ after.satisfied = acc.satisfied
    <3>1. PICK o, x : after = [acc EXCEPT !.objectives = o, !.records = x]
      BY <1>2 DEF Absorb
    <3> QED
      BY <1>1, <3>1 DEF IsResult
  <2>5. /\ IsResult(replaced)
        /\ replaced.chains = acc.chains \cup {Pair(p.of, ended)}
        /\ replaced.relations = acc.relations \cup {[old |-> p.of, new |-> difference]}
        /\ replaced.satisfied = acc.satisfied
    BY <2>1, <2>2, <2>4, ReplaceIs
  <2>6. ChainOK(ended) /\ Status(ended) = "SUPERSEDED"
    <3>1. PICK e : e = DerivedEvent("TRANSITION", "SUPERSEDED", r, {}, FALSE)
      OBVIOUS
    <3>2. e.kind = "TRANSITION" /\ e.to = "SUPERSEDED" /\ ended = Append(p.chain, e)
      BY <2>2, <3>1 DEF DerivedEvent, SupersededChain
    <3>3. ChainOK(p.chain)
      BY DEF ValidPredecessor, ChainOK
    <3> QED
      BY <2>3, <3>2, <3>3, ChainAppends
  <2>7. ChainOK(chain) /\ Status(chain) # "SUPERSEDED"
    BY <1>3, GenesisOK
  <2>8. PICK result : result = Emit(replaced, difference, chain)
    OBVIOUS
  <2>9. /\ IsResult(result)
        /\ result.ok => /\ result.chains = replaced.chains \cup {Pair(difference, chain)}
                        /\ result.relations = replaced.relations
                        /\ result.satisfied = replaced.satisfied
    BY <2>5, <2>8, EmitIs
  <2>10. ASSUME result.ok
         PROVE  /\ ChainsOK(result.chains)
                /\ OneOK(result.chains, result.relations, n)
                /\ \A t \in result.satisfied : SeenOK(ShownOf(r, t))
    <3>1. /\ ChainsOK(acc.chains)
          /\ OneOK(acc.chains, acc.relations, n - 1)
          /\ \A t \in acc.satisfied : SeenOK(ShownOf(r, t))
      BY DEF ResultOK
    <3>2. result.chains = acc.chains \cup {Pair(p.of, ended)} \cup {Pair(difference, chain)}
          /\ result.relations = acc.relations \cup {[old |-> p.of, new |-> difference]}
          /\ result.satisfied = acc.satisfied
      BY <2>5, <2>9, <2>10
    <3>3. ChainsOK(result.chains)
      BY <2>6, <2>7, <3>1, <3>2 DEF ChainsOK, Pair
    <3>4. OneOK(result.chains, result.relations, n)
      <4>1. OneOK(acc.chains, acc.relations, n - 1)
        BY <3>1
      <4>2. PICK old : old = p.of
        OBVIOUS
      <4>3. OneOK(acc.chains \cup {Pair(old, ended)} \cup {Pair(difference, chain)},
                  acc.relations \cup {[old |-> old, new |-> difference]}, n)
        BY <2>6, <2>7, <3>1, <4>1, <4>2, OneReplaced
      <4> QED
        BY <3>2, <4>2, <4>3
    <3> QED
      BY <3>1, <3>2, <3>3, <3>4
  <2>11. ResultOK(result, r, n)
    BY <2>9, <2>10 DEF ResultOK
  <2> QED
    BY <2>3, <2>8, <2>11
<1> QED
  BY <1>4, <1>5

(* A binding.                                                              *)
LEMMA BindOneOK ==
  ASSUME NEW r, CarriesOK(r), NEW n \in Nat \ {0}, n \in DOMAIN r.bindings,
         NEW acc, ResultOK(acc, r, n - 1)
  PROVE  ResultOK(BindOne(acc, r, n), r, n)
<1>1. IsResult(acc)
  BY DEF ResultOK
<1>2. CASE BindOne(acc, r, n) = Raises(acc)
  BY <1>1, <1>2, RaisesOK
<1>3. CASE BindOne(acc, r, n) # Raises(acc)
  <2>1. PICK look : look = Selected(r, n)
    OBVIOUS
  <2>2. PICK difference : difference = DifferenceOf(r, n)
    OBVIOUS
  <2>3. difference.target = n
        /\ difference.structural[1] = Mismatch(Knowledge(look), Values(look), Operator[n])
    BY <2>1, <2>2 DEF DifferenceOf
  <2>4. acc.ok /\ Selectable(r, n) /\ Projectable(look)
    BY <1>3, <2>1 DEF BindOne
  <2>5. LookTyped(look)
    <3>1. AtRequested(r, n) # {}
      BY <2>4, FS_EmptySet DEF Selectable
    <3>2. PICK o : o = CHOOSE x \in AtRequested(r, n) : TRUE
      OBVIOUS
    <3>3. o \in AtRequested(r, n)
      BY <3>1, <3>2
    <3>4. o \in r.bindings[n].bundle /\ look = o.look
      BY <2>1, <3>2, <3>3 DEF AtRequested, Selected
    <3> QED
      BY <3>4 DEF CarriesOK
  <2>6. CASE difference.structural[1] = "SATISFIED"
    <3>1. /\ r.bindings[n].scope.complete
          /\ BindOne(acc, r, n) = [acc EXCEPT !.satisfied = @ \cup {n}]
      BY <1>3, <2>1, <2>2, <2>4, <2>6 DEF BindOne
    <3>2. PICK result : result = BindOne(acc, r, n)
      OBVIOUS
    <3>3. /\ IsResult(result) /\ result.ok = acc.ok /\ result.chains = acc.chains
          /\ result.relations = acc.relations /\ result.satisfied = acc.satisfied \cup {n}
      BY <1>1, <3>1, <3>2 DEF IsResult
    <3>4. PICK s : s = ShownOf(r, n)
      OBVIOUS
    <3>5. s.look = look /\ s.boundary = r.bindings[n].scope /\ s.operator = Operator[n]
      BY <2>1, <3>4 DEF ShownOf
    <3>6. SeenOK(s)
      BY <2>3, <2>4, <2>5, <2>6, <3>1, <3>5, SatisfiedSeen
    <3>7. \A t \in result.satisfied : SeenOK(ShownOf(r, t))
      BY <2>4, <3>3, <3>4, <3>6 DEF ResultOK
    <3>8. /\ ChainsOK(result.chains)
          /\ OneOK(result.chains, result.relations, n)
      BY <2>4, <3>3, OneNext DEF ResultOK
    <3>9. ResultOK(result, r, n)
      BY <3>3, <3>7, <3>8 DEF ResultOK
    <3> QED
      BY <3>2, <3>9
  <2>7. CASE difference.structural[1] # "SATISFIED"
    <3>1. CASE r.bindings[n].prior = {}
      <4>1. BindOne(acc, r, n) = BindFresh(acc, r, n, difference)
        BY <1>3, <2>1, <2>2, <2>4, <2>7, <3>1 DEF BindOne
      <4> QED
        BY <2>3, <4>1, BindFreshOK
    <3>2. CASE r.bindings[n].prior # {}
      <4>1. PICK p : p = CHOOSE x \in r.bindings[n].prior : TRUE
        OBVIOUS
      <4>2. p \in r.bindings[n].prior
        BY <3>2, <4>1
      <4>3. IsChain(p.chain)
        BY <4>2 DEF CarriesOK
      <4>4. /\ ValidPredecessor(p.chain)
            /\ BindOne(acc, r, n) = IF p.of = difference
                                    THEN BindSame(acc, r, n, p, difference)
                                    ELSE BindSuperseding(acc, r, n, p, difference)
        BY <1>3, <2>1, <2>2, <2>4, <2>7, <3>2, <4>1 DEF BindOne
      <4>5. CASE p.of = difference
        BY <2>3, <4>3, <4>4, <4>5, BindSameOK
      <4>6. CASE p.of # difference
        BY <2>3, <2>4, <4>3, <4>4, <4>6, BindSupersedingOK
      <4> QED
        BY <4>5, <4>6
    <3> QED
      BY <3>1, <3>2
  <2> QED
    BY <2>6, <2>7
<1> QED
  BY <1>2, <1>3

(* derive_differences.                                                     *)
LEMMA DeriveOK ==
  ASSUME NEW r, CarriesOK(r), Derive(r).ok
  PROVE  ResultOK(Derive(r), r, LastTarget)
<1>1. PICK f : /\ BoundUpto(f, r, LastTarget)
               /\ LET all == f[LastTarget] IN
                  Derive(r) = IF /\ all.ok /\ OwnScopes(all) /\ ReferencesClosed(all)
                                 /\ Related(all)
                              THEN all ELSE Raises(all)
  BY DeriveIs
<1>2. LastTarget \in Nat
  BY DerivationAssumption
<1> DEFINE Bad == {n \in 0 .. LastTarget : ~ResultOK(f[n], r, n)}
<1>3. ASSUME Bad # {} PROVE FALSE
  <2>1. Bad \in SUBSET Nat
    BY <1>2
  <2>2. PICK n \in Bad : \A m \in Bad : n <= m
    <3> HIDE DEF Bad
    <3> QED
      BY <1>3, <2>1, LeastNat
  <2>3. n \in 0 .. LastTarget /\ ~ResultOK(f[n], r, n)
    BY <2>2
  <2>4. f[n] = IF n = 0 THEN BoundFirst(r) ELSE BoundNext(f[n - 1], r, n)
    BY <1>1, <2>3 DEF BoundUpto
  <2>5. n # 0
    <3>1. SUFFICES ASSUME n = 0 PROVE FALSE
      OBVIOUS
    <3>2. PICK o : f[n] = [Empty EXCEPT !.objectives = o]
      BY <2>4, <3>1 DEF BoundFirst
    <3>3. /\ IsResult(f[n]) /\ f[n].chains = {} /\ f[n].relations = {} /\ f[n].satisfied = {}
      BY <3>2 DEF Empty, IsResult
    <3>4. ResultOK(f[n], r, n)
      BY <3>3 DEF ResultOK, ChainsOK, OneOK
    <3> QED
      BY <2>3, <3>4
  <2>6. n \in Nat \ {0} /\ n - 1 \in 0 .. LastTarget /\ n - 1 \notin Bad
    <3> HIDE DEF Bad
    <3> QED
      BY <1>2, <2>2, <2>3, <2>5
  <2>7. PICK acc : acc = f[n - 1]
    OBVIOUS
  <2>8. ResultOK(acc, r, n - 1)
    BY <2>6, <2>7
  <2>9. CASE n \in DOMAIN r.bindings
    <3>1. ResultOK(BindOne(acc, r, n), r, n)
      BY <2>6, <2>8, <2>9, BindOneOK
    <3> QED
      BY <2>3, <2>4, <2>5, <2>7, <2>9, <3>1 DEF BoundNext
  <2>10. CASE n \notin DOMAIN r.bindings
    <3>1. ResultOK(acc, r, n)
      BY <2>6, <2>8, OneNext DEF ResultOK
    <3> QED
      BY <2>3, <2>4, <2>5, <2>7, <2>10, <3>1 DEF BoundNext
  <2> QED
    BY <2>9, <2>10
<1>4. PICK all : all = f[LastTarget]
  OBVIOUS
<1>5. ResultOK(all, r, LastTarget)
  BY <1>2, <1>3, <1>4
<1>6. Raises(all).ok = FALSE
  BY <1>5 DEF Raises, ResultOK, IsResult
<1>7. Derive(r) = all
  BY <1>1, <1>4, <1>6
<1> QED
  BY <1>5, <1>7

-----------------------------------------------------------------------------
(* What callers may ask: looks that are what an Observation can show, and  *)
(* kept lineages; elsewhere any statuses are appended that are legal.      *)
DerivationRequest(r) ==
    \A t \in DOMAIN r.bindings :
       /\ \A o \in r.bindings[t].bundle : LookTyped(o.look)
       /\ r.bindings[t].prior \in Priors

DerivationAny ==
    \/ \E r : DerivationRequest(r) /\ CallDerive(r)
    \/ \E l \in held, path \in Seq(Statuses), at \in Nat : AppendElsewhere(l, path, at)

DerivationSpec == DerivationInit /\ [][DerivationAny]_derivationVars

HeldOK ==
    \A l \in held :
       /\ l = [of |-> l.of, chain |-> l.chain, objectives |-> l.objectives, records |-> l.records]
       /\ IsChain(l.chain)

DerivationOK ==
    /\ ChainsOK(derivation.chains)
    /\ OneOK(derivation.chains, derivation.relations, LastTarget)
    /\ \A s \in derivation.shown : SeenOK(s)

LEMMA CallDeriveKeeps ==
  ASSUME HeldOK, NEW r, DerivationRequest(r), CallDerive(r)
  PROVE  HeldOK' /\ DerivationOK'
<1>1. CarriesOK(r)
  <2> SUFFICES ASSUME NEW t \in DOMAIN r.bindings, NEW p \in r.bindings[t].prior
               PROVE  IsChain(p.chain)
    BY DEF CarriesOK, DerivationRequest
  <2>1. p \in held
    BY DEF DerivationRequest, Priors
  <2> QED
    BY <2>1 DEF HeldOK
<1>2. PICK result : result = Derive(r)
  OBVIOUS
<1>3. /\ result.ok
      /\ derivation' = [chains |-> result.chains, relations |-> result.relations,
                        shown |-> {[operator |-> Operator[t], boundary |-> r.bindings[t].scope,
                                    look |-> Selected(r, t)] : t \in result.satisfied}]
      /\ held' = held \cup {[of |-> c.of, chain |-> c.chain, objectives |-> result.objectives,
                             records |-> result.records] : c \in result.chains}
  BY <1>2 DEF CallDerive
<1>4. /\ ChainsOK(result.chains)
      /\ OneOK(result.chains, result.relations, LastTarget)
      /\ \A t \in result.satisfied : SeenOK(ShownOf(r, t))
  BY <1>1, <1>2, <1>3, DeriveOK DEF ResultOK
<1>5. \A s \in derivation'.shown : SeenOK(s)
  BY <1>3, <1>4 DEF ShownOf
<1>6. DerivationOK'
  <2>1. derivation'.chains = result.chains /\ derivation'.relations = result.relations
    BY <1>3
  <2> QED
    BY <1>4, <1>5, <2>1 DEF DerivationOK
<1>7. ASSUME NEW l \in held'
      PROVE  /\ l = [of |-> l.of, chain |-> l.chain, objectives |-> l.objectives,
                     records |-> l.records]
             /\ IsChain(l.chain)
  <2>1. CASE l \in held
    BY <2>1 DEF HeldOK
  <2>2. CASE l \notin held
    <3>1. PICK c \in result.chains :
            l = [of |-> c.of, chain |-> c.chain, objectives |-> result.objectives,
                 records |-> result.records]
      BY <1>3, <2>2
    <3>2. IsChain(c.chain)
      BY <1>4 DEF ChainsOK, ChainOK
    <3> QED
      BY <3>1, <3>2
  <2> QED
    BY <2>1, <2>2
<1> QED
  BY <1>6, <1>7 DEF HeldOK

LEMMA ElsewhereKeeps ==
  ASSUME HeldOK, DerivationOK, NEW l \in held, NEW path \in Seq(Statuses), NEW at,
         AppendElsewhere(l, path, at)
  PROVE  HeldOK' /\ DerivationOK'
<1>1. IsChain(Elsewhere(l.chain, path, at))
  <2> DEFINE event(to) == [kind |-> "TRANSITION", to |-> to, at |-> at, saw |-> {},
                           asks |-> to \in RequiresNextObservation]
             more == [i \in DOMAIN path |-> event(path[i])]
             Events == {event(to) : to \in Statuses}
  <2>1. PICK S : l.chain \in Seq(S)
    BY DEF HeldOK, IsChain
  <2>2. more \in Seq(Events)
    <3>1. Len(path) \in Nat /\ DOMAIN path = 1 .. Len(path) /\ \A i \in DOMAIN path : path[i] \in Statuses
      OBVIOUS
    <3>2. \A i \in DOMAIN path : event(path[i]) \in Events
      BY <3>1
    <3> HIDE DEF event, Events
    <3>3. more \in [1 .. Len(path) -> Events]
      BY <3>1, <3>2
    <3> HIDE DEF more
    <3> QED
      BY <3>1, <3>3
  <2>3. Elsewhere(l.chain, path, at) = l.chain \o more
    BY DEF Elsewhere
  <2> HIDE DEF event, more, Events
  <2>4. l.chain \in Seq(S \cup Events) /\ more \in Seq(S \cup Events)
    BY <2>1, <2>2
  <2>5. l.chain \o more \in Seq(S \cup Events)
    BY <2>4
  <2> QED
    BY <2>3, <2>5 DEF IsChain
<1>2. PICK chain : chain = Elsewhere(l.chain, path, at)
  OBVIOUS
<1>3. held' = held \cup {[l EXCEPT !.chain = chain, !.records = @ \cup CitedBy(chain)]}
      /\ derivation' = derivation
  BY <1>2 DEF AppendElsewhere
<1>4. PICK more : more = [l EXCEPT !.chain = chain, !.records = @ \cup CitedBy(chain)]
  OBVIOUS
<1>5. /\ more = [of |-> more.of, chain |-> more.chain, objectives |-> more.objectives,
                 records |-> more.records]
      /\ more.chain = chain
  <2>1. l = [of |-> l.of, chain |-> l.chain, objectives |-> l.objectives, records |-> l.records]
    BY DEF HeldOK
  <2>2. PICK records : more = [l EXCEPT !.chain = chain, !.records = records]
    BY <1>4
  <2> QED
    BY <2>1, <2>2
<1>6. HeldOK'
  BY <1>1, <1>2, <1>3, <1>4, <1>5 DEF HeldOK
<1>7. DerivationOK'
  BY <1>3 DEF DerivationOK
<1> QED
  BY <1>6, <1>7

LEMMA DerivationSteps ==
  HeldOK /\ DerivationOK /\ [DerivationAny]_derivationVars => (HeldOK /\ DerivationOK)'
<1> SUFFICES ASSUME HeldOK, DerivationOK, [DerivationAny]_derivationVars
             PROVE  HeldOK' /\ DerivationOK'
  OBVIOUS
<1>1. CASE \E r : DerivationRequest(r) /\ CallDerive(r)
  BY <1>1, CallDeriveKeeps
<1>2. CASE \E l \in held, path \in Seq(Statuses), at \in Nat : AppendElsewhere(l, path, at)
  <2>1. PICK l \in held, path \in Seq(Statuses), at \in Nat : AppendElsewhere(l, path, at)
    BY <1>2
  <2> QED
    BY <2>1, ElsewhereKeeps
<1>3. CASE UNCHANGED derivationVars
  BY <1>3 DEF derivationVars, HeldOK, DerivationOK
<1> QED
  BY <1>1, <1>2, <1>3 DEF DerivationAny

LEMMA DerivationStart == DerivationInit => HeldOK /\ DerivationOK
BY DEF DerivationInit, NoDerivation, HeldOK, DerivationOK, ChainsOK, OneOK

LEMMA DerivationOKSound ==
  DerivationOK => /\ ChainsLegal /\ SatisfiedIsSeen
                  /\ OneChainPerDifference
<1> SUFFICES ASSUME DerivationOK
             PROVE  /\ ChainsLegal /\ SatisfiedIsSeen
                    /\ OneChainPerDifference
  OBVIOUS
<1>1. ChainsLegal
  <2> SUFFICES ASSUME NEW c \in derivation.chains
               PROVE  /\ LegalChain(c.chain)
                      /\ \A i \in 1 .. Len(c.chain) - 1 : c.chain[i].to \notin Ends
    BY DEF ChainsLegal
  <2>1. ChainOK(c.chain)
    BY DEF DerivationOK, ChainsOK
  <2> QED
    BY <2>1, LegalGoesOn DEF ChainOK
<1>2. SatisfiedIsSeen
  BY DEF DerivationOK, SeenOK, SatisfiedIsSeen
<1>3. OneChainPerDifference
  BY DEF DerivationOK, OneOK, OneChainPerDifference
<1> QED
  BY <1>1, <1>2, <1>3

(* Whatever lineages are carried in for whatever targets, by whatever      *)
(* callers: every chain of a result is legal, what it supersedes has ended *)
(* and has a successor, a Difference that no other target's binding        *)
(* superseded has one chain, and a satisfied target rests on what was seen.*)
THEOREM DerivationsHold == DerivationSpec => []DerivationSound
<1>1. HeldOK /\ DerivationOK => DerivationSound
  BY DerivationOKSound DEF DerivationSound
<1> QED
  BY <1>1, DerivationStart, DerivationSteps, PTL DEF DerivationSpec
=============================================================================
