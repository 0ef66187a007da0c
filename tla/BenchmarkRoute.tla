--------------------------- MODULE BenchmarkRoute ---------------------------
(***************************************************************************)
(* The comparative benchmark (comparative_benchmark/): a protocol is       *)
(* frozen, a comparison run under it is committed as a result bundle, and  *)
(* others reproduce the bundle, within the project (a receipt) or outside  *)
(* of it (a signed submission, admitted against a pre-registered key).     *)
(*                                                                         *)
(* Each record is the one entry of a chain of its own in the coordination  *)
(* ledger: what is committed under an id stays, and another body under it  *)
(* is refused.  CoordinationLedger shows that one append is atomic and     *)
(* survives a crash, and nothing resolved here can change before the       *)
(* commit, so that a call is one step.                                     *)
(***************************************************************************)
EXTENDS Naturals, Sequences, FiniteSets

CONSTANTS
    Policies,       \* policies offered to be frozen
    EventLists,     \* raw events of a comparison: [group, task, outcome]
    Reproducers,    \* actors, within the project and outside of it
    Processes,      \* process ids
    SigningKeys,
    TrustAnchors,   \* keys offered to be registered
    Times,          \* instants a caller gives, in tenths of a second
    Never,          \* the valid_until of a key that does not expire
    MaxFiled        \* bound: records committed

ASSUME TimesAssumption ==
    /\ Times \subseteq Nat /\ Never \notin Nat
    /\ \A anchor \in TrustAnchors :
          anchor.from \in Nat /\ anchor.until \in Nat \cup {Never}

VARIABLE
    benchmark       \* the records committed: [id, body]

Outcomes ==
    {"COMPLETED_VERIFIED", "REFUSED", "RETAINED_INCOMPLETE", "FAILED", "TIMED_OUT"}

-----------------------------------------------------------------------------
(* Identities: of some of the fields; a reference has the fingerprint, of  *)
(* all of them, too.                                                       *)

FreezeId(policy) == [kind |-> "protocol_freeze", policy |-> policy]
BundleId(freeze, events) ==
    [kind |-> "result_bundle", freeze |-> freeze, events |-> events]
ReceiptId(bundle, reproducer) ==
    [kind |-> "reproduction_receipt", bundle |-> bundle, reproducer |-> reproducer]
(* Not of the key: another key for the same actor and protocol conflicts.  *)
AnchorId(actor, freeze) ==
    [kind |-> "trust_anchor", actor |-> actor, freeze |-> freeze]
SubmissionId(bundle, actor) ==
    [kind |-> "submission", bundle |-> bundle, actor |-> actor]

OfKind(kind) == {r \in benchmark : r.id.kind = kind}
Filed(id) == \E r \in benchmark : r.id = id

\* Seeded fault: the last body committed under an id is the one that counts.
Replacing(id) == TRUE
(* commit_coordination_record_at_tip on a chain of its own: the same body  *)
(* again changes nothing, another body is a RecordConflictError.           *)
Free(id) == ~Filed(id)
File(id, body) ==
    /\ Cardinality(benchmark) < MaxFiled
    /\ Free(id)
    /\ benchmark' = {r \in benchmark : r.id # id} \cup {[id |-> id, body |-> body]}

-----------------------------------------------------------------------------
(* What is derived from raw events.                                        *)

Groups(policy) == {g.id : g \in policy.groups}

(* build_protocol_freeze: MANOSUBE is present in one mechanism and absent  *)
(* from another, and what is predeclared is about declared groups.         *)
Mechanisms(policy, role) == {g.mechanism : g \in {x \in policy.groups : x.role = role}}
Freezable(policy) ==
    /\ \A g, h \in policy.groups : g.id = h.id => g = h
    /\ Mechanisms(policy, "MANOSUBE_PRESENT") # {}
    /\ Mechanisms(policy, "MANOSUBE_ABSENT") # {}
    /\ Mechanisms(policy, "MANOSUBE_PRESENT")
          \cap Mechanisms(policy, "MANOSUBE_ABSENT") = {}
    /\ {t.group : t \in policy.thresholds} \subseteq Groups(policy)
    /\ \A c \in policy.claims : c.groups \subseteq Groups(policy)

\* Seeded fault: only the tasks that a group did attempt are looked at.
AttemptedCorpus(events, policy) ==
    \A i \in DOMAIN events :
       /\ events[i].group \in Groups(policy)
       /\ \E j \in DOMAIN policy.tasks : policy.tasks[j] = events[i].task
(* verify_exact_frozen_corpus: every group, the tasks in their order; the  *)
(* place of an event is among those of its own group.                      *)
ExactCorpus(events, policy) ==
    /\ \A i \in DOMAIN events : events[i].group \in Groups(policy)
    /\ \A g \in Groups(policy) :
          LET own == {i \in DOMAIN events : events[i].group = g}
              Place(i) == Cardinality({k \in own : k <= i}) IN
          /\ Cardinality(own) = Len(policy.tasks)
          /\ \A i \in own : events[i].task = policy.tasks[Place(i)]

\* Seeded fault: an outcome nobody knows is counted nowhere.
AnyOutcome(events) == TRUE
(* aggregate_metrics has no number for another outcome, and refuses it. *)
Recognized(events) == \A i \in DOMAIN events : events[i].outcome \in Outcomes

(* aggregate_metrics *)
Counted(events, g, outcomes) ==
    Cardinality({i \in DOMAIN events :
                    events[i].group = g /\ events[i].outcome \in outcomes})
Metrics(events, policy) ==
    [g \in Groups(policy) |->
        [m \in Outcomes \cup {"raw_event_count"} |->
            Counted(events, g, IF m \in Outcomes THEN {m} ELSE Outcomes)]]

(* evaluate_numeric_thresholds; ">=" stands for the five operators. *)
Evaluations(metrics, policy) ==
    {[threshold |-> t, actual |-> metrics[t.group][t.metric],
      passed |-> metrics[t.group][t.metric] >= t.value] : t \in policy.thresholds}

(* derive_bounded_claims: of the frozen vocabulary, with their values.     *)
BoundedClaims(metrics, policy) ==
    {[claim |-> c.id, values |-> [g \in c.groups |-> metrics[g][c.metric]]] :
        c \in policy.claims}

Agreement(reproduced, original) ==
    IF DOMAIN reproduced # DOMAIN original THEN "INCOMPARABLE"
    ELSE IF reproduced = original THEN "MATCH" ELSE "DIVERGENT"

-----------------------------------------------------------------------------
(* The routes.  A caller's copy of a parent that is not the committed one  *)
(* is refused, so that the parents are chosen among those committed.       *)

CommitFreeze ==
    \E policy \in Policies, at \in Times :
       /\ Freezable(policy)
       /\ File(FreezeId(policy), [policy |-> policy, at |-> at])

(* build_result_bundle *)
Result(freeze, events, process) ==
    LET policy == freeze.body.policy
        metrics == Metrics(events, policy) IN
    [freeze |-> freeze, events |-> events, metrics |-> metrics,
     claims |-> BoundedClaims(metrics, policy),
     thresholds |-> Evaluations(metrics, policy), process |-> process]

CommitBundle ==
    \E freeze \in OfKind("protocol_freeze"), events \in EventLists,
       process \in Processes :
       /\ ExactCorpus(events, freeze.body.policy) /\ Recognized(events)
       /\ File(BundleId(freeze, events), Result(freeze, events, process))

(* What a reproduction under a freeze says of a bundle, whichever freeze   *)
(* that bundle itself was made under.                                      *)
Reproduction(freeze, bundle, events, by) ==
    LET metrics == Metrics(events, freeze.body.policy) IN
    [freeze |-> freeze, bundle |-> bundle, events |-> events, metrics |-> metrics,
     agreement |-> Agreement(metrics, bundle.body.metrics), by |-> by]

(* build_reproduction_receipt *)
SeparateProcess(process, bundle) == process # bundle.body.process

CommitReceipt ==
    \E freeze \in OfKind("protocol_freeze"), bundle \in OfKind("result_bundle"),
       events \in EventLists, actor \in Reproducers, process \in Processes :
       LET reproducer == [actor |-> actor, process |-> process] IN
       /\ ExactCorpus(events, freeze.body.policy) /\ Recognized(events)
       /\ SeparateProcess(process, bundle)
       /\ File(ReceiptId(bundle, reproducer),
               Reproduction(freeze, bundle, events, reproducer))

Second == 10

(* The place of an instant in the order of the written timestamps, which   *)
(* the code compares as strings: "00.5Z" sorts before "00Z", so that a     *)
(* whole second sorts behind its fractions (finer ones invert alike).      *)
Text(t) == IF t % Second = 0 THEN t + Second ELSE t

(* build_independent_reproducer_trust_anchor *)
AdmissibleAnchor(anchor) ==
    anchor.until # Never => Text(anchor.until) > Text(anchor.from)

(* admit_independent_reproducer_trust_anchor: the protocol it names need   *)
(* not be committed yet.                                                   *)
AdmitAnchor ==
    \E anchor \in TrustAnchors :
       /\ AdmissibleAnchor(anchor)
       /\ File(AnchorId(anchor.actor, anchor.freeze), anchor)

KeyInForce(anchor, time) ==
    /\ anchor.body.status = "ACTIVE"
    /\ Text(time) >= Text(anchor.body.from)
    /\ anchor.body.until # Never => Text(time) < Text(anchor.body.until)

\* Seeded fault: a signature is verified with the key that comes with it.
SelfDeclared(key, signer, anchor) == signer = key
(* It comes with the anchor's key, and its signer holds that key. *)
SignedFor(key, signer, anchor) == key = anchor.body.key /\ signer = anchor.body.key

(* What an external actor may submit: events, the metrics of perhaps other *)
(* events, a verdict, a time, a key and a signature.                       *)
Submissions ==
    [events : EventLists, claimed : EventLists,
     agreement : {"MATCH", "DIVERGENT", "INCOMPARABLE"},
     time : Times, key : SigningKeys, signer : SigningKeys]

\* Seeded fault: the aggregates that a submission claims are believed.
ClaimsBelieved(s, freeze, bundle) ==
    ExactCorpus(s.events, freeze.body.policy) /\ Recognized(s.events)
(* What a submission claims is what is derived from its events once more.  *)
Rederives(s, freeze, bundle) ==
    LET metrics == Metrics(s.events, freeze.body.policy) IN
    /\ ExactCorpus(s.events, freeze.body.policy) /\ Recognized(s.events)
    /\ Metrics(s.claimed, freeze.body.policy) = metrics
    /\ s.agreement = Agreement(metrics, bundle.body.metrics)

(* The submission is committed as it came. *)
AdmitSubmission ==
    \E freeze \in OfKind("protocol_freeze"), bundle \in OfKind("result_bundle"),
       anchor \in OfKind("trust_anchor"), s \in Submissions :
       LET actor == anchor.body.actor IN
       /\ anchor.id = AnchorId(actor, freeze)
       /\ KeyInForce(anchor, s.time) /\ SignedFor(s.key, s.signer, anchor)
       /\ Rederives(s, freeze, bundle)
       /\ File(SubmissionId(bundle, actor),
               [freeze |-> freeze, bundle |-> bundle, events |-> s.events,
                metrics |-> Metrics(s.claimed, freeze.body.policy),
                agreement |-> s.agreement,
                by |-> [actor |-> actor, time |-> s.time, signer |-> s.signer]])

BenchmarkNext ==
    CommitFreeze \/ CommitBundle \/ CommitReceipt \/ AdmitAnchor \/ AdmitSubmission

BenchmarkInit == benchmark = {}

BenchmarkSpec == BenchmarkInit /\ [][BenchmarkNext]_benchmark

-----------------------------------------------------------------------------

(* A reader of the ledger alone can derive every result again: the exact   *)
(* records it names are committed and nothing was put in their place, and  *)
(* its numbers, claims and verdict are those of the raw events.            *)
ResultsRederive ==
    /\ \A b \in OfKind("result_bundle") :
          LET policy == b.body.freeze.body.policy IN
          /\ b.body.freeze \in benchmark
          /\ b.body.metrics = Metrics(b.body.events, policy)
          /\ b.body.claims = BoundedClaims(b.body.metrics, policy)
    /\ \A r \in OfKind("reproduction_receipt") \cup OfKind("submission") :
          /\ r.body.freeze \in benchmark /\ r.body.bundle \in benchmark
          /\ r.body.agreement =
                Agreement(Metrics(r.body.events, r.body.freeze.body.policy),
                          r.body.bundle.body.metrics)

(* No failure is left out of a result: in every bundle and reproduction    *)
(* each group accounts for each task of the frozen corpus.                 *)
NothingLeftOut ==
    \A r \in benchmark :
       r.id.kind \in {"result_bundle", "reproduction_receipt", "submission"} =>
          \A g \in Groups(r.body.freeze.body.policy) :
             r.body.metrics[g]["raw_event_count"] = Len(r.body.freeze.body.policy.tasks)

(* The key was in force at the instant, give or take less than a second:   *)
(* as strings, instants are ordered by the second only.                    *)
HeldAbout(anchor, time) ==
    /\ anchor.body.status = "ACTIVE"
    /\ time + Second > anchor.body.from
    /\ anchor.body.until # Never => time < anchor.body.until + Second

(* A reproduction is somebody's own: within the project it ran in another  *)
(* process than the bundle, and outside of it one actor signs all it says  *)
(* under one protocol with one key, held within a second of the time that  *)
(* the key was in force.                                                   *)
ReproductionsAreOwn ==
    /\ \A r \in OfKind("reproduction_receipt") :
          r.body.by.process # r.body.bundle.body.process
    /\ \A s \in OfKind("submission") :
          /\ \E a \in OfKind("trust_anchor") :
                /\ a.body.actor = s.body.by.actor /\ a.body.freeze = s.body.freeze
                /\ a.body.key = s.body.by.signer /\ HeldAbout(a, s.body.by.time)
          /\ \A t \in OfKind("submission") :
                s.body.by.actor = t.body.by.actor /\ s.body.freeze = t.body.freeze =>
                   s.body.by.signer = t.body.by.signer

(* What a published benchmark record promises. *)
BenchmarkSound == ResultsRederive /\ NothingLeftOut /\ ReproductionsAreOwn
=============================================================================
