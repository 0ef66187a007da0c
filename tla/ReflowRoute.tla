----------------------------- MODULE ReflowRoute -----------------------------
(***************************************************************************)
(* reflow/route.py: callers take Differences from one lifecycle event to   *)
(* the next.  Each loads the current State, verifies in the Store what the *)
(* caller says of the lifecycle, evaluates the closure, and commits the    *)
(* event with the next State by compare-and-swap; a call that loses the    *)
(* swap is not tried again.  Others move the State and observe meanwhile.  *)
(***************************************************************************)
EXTENDS ClosureGates

CONSTANTS
    Requesters, Differences,
    Instants,           \* bound: instants that are declared
    Observable,         \* bound: observations that are made
    MaxObservations,    \* bound
    LastRevision,       \* bound: State revisions
    ClosureRequests(_, _, _)    \* what is asked on a State, of a claimed status,
                                \* when so much is observed

(* The statuses of an observation (levels.py).                             *)
ObservationStatuses == {"COMPLETE", "EMPTY"} \cup Determinate \cup Indeterminate

ASSUME ObservableAssumption ==
    \A o \in Observable : o.status \in ObservationStatuses

ASSUME RevisionsAssumption ==
    LastRevision \in Nat /\ Baseline.at \in 0 .. LastRevision /\ Instants \subseteq Nat

(* Statuses that a reflow may claim and leave. *)
Verifiable == {"VERIFYING", "BLOCKED", "RETAINED", "REOPENED"}

(* A request is of the State and the status it is made on, and what it     *)
(* shows was observed: the route derives observations and Evidence again   *)
(* from the requests they were made of.                                    *)
ASSUME ClosureRequestsAssumption ==
    \A base \in Baseline.at .. LastRevision, status \in Verifiable, seen \in SUBSET Observable :
        \A r \in ClosureRequests(base, status, seen) :
            /\ r.base = base /\ r.status = status
            /\ r.after \subseteq seen
            /\ \A e \in r.evidence : e.observation \in seen /\ e.recorded \in Nat
            /\ IsFiniteSet(r.claims)

VARIABLES
    revision, open,     \* the State: its revision, open_differences
    events,             \* committed difference_event records
    closures,           \* committed closure_evaluation records that closed
    admitted,           \* committed observations and Evidence
    observed,           \* observations made so far
    calls               \* each caller's call under way

reflowVars == <<revision, open, events, closures, admitted, observed, calls>>

-----------------------------------------------------------------------------
(* Lifecycle events; the State revision they were evaluated at identifies  *)
(* them, as no two of one Difference are committed on the same State.      *)

Event(d, number, previous, from, to, base, saw) ==
    [difference |-> d, number |-> number, previous |-> previous,
     from |-> from, to |-> to, base |-> base, saw |-> saw]

Id(e) == [number |-> e.number, base |-> e.base]

(* The event derive_differences gave the Difference first.  The first      *)
(* cycle that follows it commits it too.                                   *)
Genesis(d) == Event(d, 0, "none", "NONE", "DETECTED", Baseline.at, {Baseline})

Idle == [pc |-> "idle"]
Call(c, call) == calls' = [calls EXCEPT ![c] = call]
Answer(c) == Call(c, Idle) /\ UNCHANGED <<revision, open, events, closures, admitted, observed>>
Proceed(c, call) == Call(c, call) /\ UNCHANGED <<revision, open, events, closures, admitted, observed>>

(* load_current, first in either route; _check_expected_state is a check   *)
(* of the same copy.                                                       *)
LoadState(c) ==
    /\ calls[c].pc = "idle"
    /\ Proceed(c, [pc |-> "loaded", base |-> revision, open |-> open])

\* Seeded fault: any claim about the genesis event is believed.
GenesisBelieved(d, head, status) ==
    \/ head \in events /\ status = head.to
    \/ head = Genesis(d) /\ status = "VERIFYING"
(* _verify_lifecycle_ground_truth: the predecessor, when committed, has    *)
(* the status claimed.  One that is not is the Difference's genesis, and   *)
(* the lifecycle between it and VERIFYING is the caller's word.            *)
GroundTruth(d, head, status) ==
    \/ head \in events /\ status = head.to
    \/ head \notin events /\ head = Genesis(d) /\ status = "VERIFYING"

(* mint_transition_event *)
Minted(d, head, from, to, base, saw) ==
    Event(d, head.number + 1, Id(head), from, to, base, saw)

(* _resolve_base_kernel_source_ref: the one Kernel source among those the  *)
(* State has adopted, and a witness of it.                                 *)
KernelResolves(r) == Witnessed(r)

(* _preflight_reresolve_closure: what a CLOSED event rests on is derived   *)
(* once more.                                                              *)
ClosurePreflight(r) ==
    r.proposed = "CLOSED" =>
        /\ CandidatePresent(r)
        /\ \A id \in r.bound : Verified(id, r)
        /\ Reconstructs(r.claims)

(* _preflight_verify_reflow_provenance: an after-observation is named on   *)
(* the event too; without one, the caller names what it likes.             *)
ProvenancePreflight(r) == r.after # {} => r.named = r.after

-----------------------------------------------------------------------------
(* What is committed.  A record admitted is [kind, of].                    *)

Observation(o) == [kind |-> "observation", of |-> o]
EvidenceRecord(e) == [kind |-> "observation_evidence", of |-> e]

(* _derive_evidence_refs *)
EvidenceOf(r) == r.evidence \cup r.changes \cup r.verifying \cup r.reason

(* _self_consistent_after_observations,                                    *)
(* _admitted_observations_from_evidence_requests: verification and Change  *)
(* Evidence, and that of a reason, come with the Difference's observation. *)
ObservationsOf(r) ==
    r.after \cup {e.observation : e \in EvidenceOf(r)}
    \cup (IF r.changes \cup r.verifying \cup r.reason = {} THEN {} ELSE {Baseline})

AdmittedRecords(r) ==
    {Observation(o) : o \in ObservationsOf(r)} \cup {EvidenceRecord(e) : e \in EvidenceOf(r)}

(* _admitted_genesis_lifecycle_event *)
AdmittedEvents(event, r) ==
    {event} \cup (IF r.genesis THEN {Genesis(event.difference)} ELSE {})

(* reference_edges of an event, each to a record of the same commit or of  *)
(* the Store.                                                              *)
ReferencesResolve(newEvents, newRecords) ==
    \A e \in newEvents :
        /\ e.number > 0 =>
              \E f \in events \cup newEvents :
                  f.difference = e.difference /\ Id(f) = e.previous
        /\ \A o \in e.saw : Observation(o) \in admitted \cup newRecords

\* Seeded fault: what is not there is believed to be there.
ReferencesTrusted(newEvents, newRecords) == TRUE
(* _validate_reference_admission *)
AdmissibleTransition(newEvents, newRecords) == ReferencesResolve(newEvents, newRecords)

(* The closure_evaluation record, with what ClosedSoundly asks of it. *)
Closure(event, r, instant) ==
    [event |-> event, instant |-> instant,
     evidence |-> r.evidence, changes |-> r.changes, after |-> r.after,
     claims |-> r.claims, contradicted |-> r.contradicted]

(* commit_reflow: the Evaluation has not expired at the instant given,     *)
(* which may not be before it was made.                                    *)
InTime(r, instant) == instant >= r.evaluatedAt /\ ~Expired(r, instant)

(* What is to be committed on the State the call has loaded.               *)
Decided(c, event, newEvents, newRecords, closing) ==
    /\ AdmissibleTransition(newEvents, newRecords)
    /\ Proceed(c, [pc |-> "decided", base |-> calls[c].base, open |-> calls[c].open,
                   event |-> event, events |-> newEvents, records |-> newRecords,
                   closure |-> closing])

(* decide_transition, _admitted_records. *)
Decide(c, d, head, r, instant) ==
    LET event == Minted(d, head, r.status, r.proposed, calls[c].base, r.named)
    IN Decided(c, event, AdmittedEvents(event, r), AdmittedRecords(r),
               IF r.proposed = "CLOSED" THEN {Closure(event, r, instant)} ELSE {})

(* reflow, from the ground truth to the records: the request leads to an   *)
(* event, or the route raises.  The event_revision claimed has to be the   *)
(* predecessor's and one; the predecessor need not be the latest event.    *)
Evaluate(c, instants) ==
    /\ calls[c].pc = "loaded"
    /\ \/ Answer(c)
       \/ \E d \in Differences, status \in Verifiable :
          \E head \in {e \in events : e.difference = d} \cup {Genesis(d)} :
             /\ GroundTruth(d, head, status)
             /\ \E r \in ClosureRequests(calls[c].base, status, observed) :
                   /\ KernelResolves(r)
                   /\ Evaluates(r) /\ BlockerShown(r)
                   /\ ProvenancePreflight(r) /\ ClosurePreflight(r)
                   /\ \E i \in instants :
                         /\ InTime(r, i)
                         /\ Decide(c, d, head, r, i)

(* _resolve_closed_closure_evaluation: the event and what it closed on. *)
ClosedBy(head) ==
    /\ head \in events /\ head.to = "CLOSED"
    /\ \E k \in closures : k.event = head

(* reopen: decide_reopen; the trigger and the observations named are the   *)
(* caller's.                                                               *)
DecideReopen(c, named) ==
    /\ calls[c].pc = "loaded"
    /\ \E head \in {e \in events : ClosedBy(e)}, saw \in named :
          LET event == Minted(head.difference, head, "CLOSED", "REOPENED",
                              calls[c].base, saw)
          IN Decided(c, event, {event}, {}, {})

(* apply_reflow_bookkeeping *)
NextOpen(call) ==
    IF call.event.to \in {"CLOSED"} \cup Ends THEN call.open \ {call.event.difference}
    ELSE call.open \cup {call.event.difference}

\* Seeded fault: the State is written over, whichever it is by now.
SwapsBlindly(call) == TRUE
(* commit_state_transition, load_current: the State is still the one read. *)
Swaps(call) == revision = call.base

CommitReflow(c) ==
    /\ calls[c].pc = "decided"
    /\ IF Swaps(calls[c])
       THEN /\ revision < LastRevision
            /\ revision' = revision + 1
            /\ open' = NextOpen(calls[c])
            /\ events' = events \cup calls[c].events
            /\ admitted' = admitted \cup calls[c].records
            /\ closures' = closures \cup calls[c].closure
            /\ Call(c, Idle) /\ UNCHANGED observed
       ELSE Answer(c)

(* The Observation engine, of the State as it is. *)
Observe ==
    /\ Cardinality(observed) < MaxObservations
    /\ \E o \in Observable : o.at = revision /\ observed' = observed \cup {o}
    /\ UNCHANGED <<revision, open, events, closures, admitted, calls>>

(* A commit of any other route carries the semantic State over. *)
OthersTransition ==
    /\ revision < LastRevision
    /\ revision' = revision + 1
    /\ UNCHANGED <<open, events, closures, admitted, observed, calls>>

ReflowInit ==
    /\ revision = Baseline.at /\ open = {}
    /\ events = {} /\ closures = {} /\ admitted = {} /\ observed = {}
    /\ calls = [c \in Requesters |-> Idle]

ReflowNext(instants) ==
    \/ \E c \in Requesters :
          \/ LoadState(c)
          \/ Evaluate(c, instants)
          \/ DecideReopen(c, {{}, observed})
          \/ CommitReflow(c)
    \/ Observe
    \/ OthersTransition
-----------------------------------------------------------------------------

Latest(d) ==
    CHOOSE e \in events : e.difference = d /\ e.number > 0
        /\ \A f \in events : f.difference = d => f.base <= e.base

(* The State lists a Difference as open exactly when its last committed    *)
(* event leaves it open, though each transition copies the list from the   *)
(* State it read and another caller may move another Difference.           *)
OpenMatchesLifecycle ==
    \A d \in Differences :
        d \in open <=>
            /\ \E e \in events : e.difference = d
            /\ Latest(d).to \notin {"CLOSED"} \cup Ends

(* However many callers hold the same verifying Difference, it is closed   *)
(* at most once, and by the event that follows its genesis.                *)
ClosedOnce ==
    \A e, f \in events :
        (e.to = "CLOSED" /\ f.to = "CLOSED" /\ e.difference = f.difference) =>
            e = f /\ e.previous = Id(Genesis(e.difference))

(* What a Difference was closed on: complete Evidence, at the instant of   *)
(* the Reflow no older than the policy allows; a satisfied re-observation  *)
(* that no Change of it produced; no contradiction; a Claim series that    *)
(* ends satisfied; and when a Change resolved it, of the State it was      *)
(* found in and closed at.                                                 *)
SoundlyClosed(k) ==
    /\ k.evidence # {} /\ ~k.contradicted
    /\ \A e \in k.evidence :
          /\ e.observation.status \in {"COMPLETE", "EMPTY"}
          /\ MinimumLevel > 0 => e.observation.sourced
          /\ k.instant <= e.recorded + MaximumAge
    /\ \E o \in k.after : o.satisfied /\ o \in observed
    /\ \A c \in k.changes :
          c.observation \notin k.after /\ k.event.base = Baseline.at
    /\ \E e \in k.claims : e.number = Cardinality(k.claims) - 1
                           /\ e.status = "SATISFIED"
ClosedSoundly == \A k \in closures : SoundlyClosed(k)

(* Nothing committed refers to a record that is not: an event's             *)
(* predecessor, the observations it names and the Evidence it closed on.   *)
ReferencesCommitted ==
    /\ ReferencesResolve(events, {})
    /\ \A k \in closures : \A e \in k.evidence \cup k.changes :
          /\ EvidenceRecord(e) \in admitted
          /\ Observation(e.observation) \in admitted

(* What the committed transitions of Differences promise together.         *)
ReflowSound ==
    OpenMatchesLifecycle /\ ClosedOnce /\ ClosedSoundly /\ ReferencesCommitted
=============================================================================
