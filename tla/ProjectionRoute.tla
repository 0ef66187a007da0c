---------------------------- MODULE ProjectionRoute ----------------------------
(***************************************************************************)
(* projection: calls of project_to_github for one subject, kind and        *)
(* repository, the artifact they create on GitHub, and the hand-off of an  *)
(* observation to Evidence.                                                *)
(*                                                                         *)
(* The slot is one mapping key.  A call claims it (intent), searches for   *)
(* an artifact that carries the key, claims the right to create one        *)
(* (attempt), creates it, commits the envelope that binds the artifact to  *)
(* the payload, and observes it.  GitHub is searched and written outside   *)
(* of any lock: a request that was sent may be carried out after its       *)
(* caller is gone, an artifact may exist long before a search finds it,    *)
(* and anyone may edit or delete it.  Calls with other keys touch none of  *)
(* this; the State they advance is what Transition stands for.             *)
(***************************************************************************)
EXTENDS CommittedRecords

CONSTANTS
    MaxProjections, \* bound: calls of project_to_github
    MaxEdits,       \* bound: edits of an artifact by others
    Tokens,         \* the callers' attempt_claim_tokens
    Instants,       \* the callers' values of materialized_at
    Payloads,       \* payloads, by fingerprint
    Granted,        \* payloads that a committed grant is bound to
    Nothing

ASSUME GrantedAssumption == Granted \subseteq Payloads

VARIABLES
    projection,     \* each call
    artifacts,      \* requests GitHub received: [by, content, state, edits]
    evidence        \* the last hand-off: the receipt's status and the facts

projectionVars == <<projection, artifacts, evidence>>

Projections == 1..MaxProjections

(* What a caller claims a slot with. *)
Claims == [token : Tokens, at : Instants]

-----------------------------------------------------------------------------
(* Records, all under the mapping key.                                     *)

IntentKey == [kind |-> "projection_intent"]
AttemptKey == [kind |-> "projection_materialize_attempt"]
EnvelopeOf == [kind |-> "projection_envelope"]
TransactionKey == [kind |-> "transaction_of_envelope"]

(* derive_projection_intent, _attempt: no payload and no nonce. *)
Intent(claim) == Record(IntentKey, claim)
Attempt(claim) == Record(AttemptKey, claim)

(* derive_projection_envelope. *)
ProjectionEnvelope(claim, payload, artifact) ==
    Record(EnvelopeOf, [claim |-> claim, payload |-> payload,
                        artifact |-> artifact])

-----------------------------------------------------------------------------
(* GitHub.                                                                 *)

(* The requests of this key that led to an artifact that is still there.   *)
Existing == {a \in artifacts : a.state # "sent" /\ a.content # Nothing}

(* find_by_correlation_key: search lags behind creation, and of several    *)
(* the first result is taken.                                              *)
Found == {a.by : a \in {x \in Existing : x.state = "indexed"}}

(* observe_and_classify: the content now, against the committed payload.   *)
Classified(artifact, payload) ==
    IF \E a \in Existing : a.by = artifact /\ a.content = payload
    THEN "VERIFIED" ELSE "FAILED"

(* ... or GitHub does not answer. *)
Observations(artifact, payload) == {Classified(artifact, payload), "UNAVAILABLE"}

Edit(a, b) == artifacts' = (artifacts \ {a}) \cup {b}

GitHubStep ==
    /\ \E a \in artifacts :
          \/ a.state = "sent" /\ Edit(a, [a EXCEPT !.state = "created"])
          \/ a.state = "created" /\ Edit(a, [a EXCEPT !.state = "indexed"])
          \/ /\ a.state # "sent" /\ a.edits < MaxEdits /\ a.content # Nothing
             /\ \E p \in (Payloads \cup {Nothing}) \ {a.content} :
                   Edit(a, [a EXCEPT !.content = p, !.edits = @ + 1])
    /\ UNCHANGED <<storeVars, projection, evidence>>

-----------------------------------------------------------------------------

NoProjection == [pc |-> "idle", claim |-> Nothing, payload |-> Nothing,
                 artifact |-> Nothing, base |-> Nothing,
                 receipt |-> Nothing, reuse |-> FALSE, shared |-> FALSE]

On(p, pc) == projection[p].pc = pc

Set(p, r) == projection' = [projection EXCEPT ![p] = r]

Proceed(p, pc) == Set(p, [projection[p] EXCEPT !.pc = pc])

Refused(p) ==
    Set(p, [NoProjection EXCEPT !.pc = "raised", !.shared = projection[p].shared])

Over == {"idle", "returned", "raised"}

(* Another call with the same token is under way. *)
Shared(p, claim) ==
    \E q \in Projections \ {p} :
        /\ projection[q].pc \notin Over
        /\ projection[q].claim.token = claim.token

(* Calls are numbered as they begin.                                       *)
(* The caller's claim, payload and grants; the subject's fingerprint, the  *)
(* human authority and the binding are checked against immutable records.  *)
Project(p, claim, payload, reuse) ==
    /\ On(p, "idle") /\ \A q \in 1..(p - 1) : ~On(q, "idle")
    /\ Set(p, [NoProjection EXCEPT !.pc = "authorize", !.claim = claim,
                 !.payload = payload, !.reuse = reuse,
                 !.shared = Shared(p, claim)])
    /\ UNCHANGED <<storeVars, artifacts, evidence>>

(* _authorize_projection: the grant is bound to the payload's fingerprint. *)
Authorized(payload) == payload \in Granted

(* An envelope is there: its payload and its token must be the caller's    *)
(* (or reuse is permitted), and nothing is created: it is observed again.  *)
Reusable(p) ==
    /\ Body(EnvelopeOf).payload = projection[p].payload
    /\ \/ Body(EnvelopeOf).claim.token = projection[p].claim.token
       \/ projection[p].reuse

Authorize(p) ==
    /\ On(p, "authorize")
    /\ IF ~Authorized(projection[p].payload) THEN Refused(p)
       ELSE IF ~Committed(EnvelopeOf) THEN Proceed(p, "intent")
       ELSE IF Reusable(p)
            THEN Set(p, [projection[p] EXCEPT !.pc = "observe",
                           !.artifact = Body(EnvelopeOf).artifact])
            ELSE Refused(p)
    /\ UNCHANGED <<storeVars, artifacts, evidence>>

(* _claim_slot: the same body is taken for this call's own earlier claim,  *)
(* another is a concurrent claim.                                          *)
ClaimSlot(p, record, next) ==
    \/ CommitRecords({record}) /\ Proceed(p, next)
    \/ Conflicts({record}) /\ Refused(p) /\ UNCHANGED storeVars

ClaimIntent(p) ==
    /\ On(p, "intent")
    /\ ClaimSlot(p, Intent(projection[p].claim), "search")
    /\ UNCHANGED <<artifacts, evidence>>

(* An artifact that is found is adopted; its content is not looked at.     *)
SearchFinds(p) ==
    /\ On(p, "search")
    /\ \E a \in Found :
          Set(p, [projection[p] EXCEPT !.pc = "load", !.artifact = a])
    /\ UNCHANGED <<storeVars, artifacts, evidence>>

(* ... none is found, and the attempt is looked up. *)
SearchFails(p) ==
    /\ On(p, "search") /\ Found = {}
    /\ Proceed(p, "attempted")
    /\ UNCHANGED <<storeVars, artifacts, evidence>>

\* Seeded fault: an attempt that left no artifact is made again.
MayCreateAgain == TRUE
(* ProjectionReconciliationRequiredError: an attempt whose artifact cannot *)
(* be found is not made again.                                             *)
MayCreate == ~Committed(AttemptKey)

CheckAttempt(p) ==
    /\ On(p, "attempted")
    /\ IF MayCreate THEN Proceed(p, "attempt") ELSE Refused(p)
    /\ UNCHANGED <<storeVars, artifacts, evidence>>

ClaimAttempt(p) ==
    /\ On(p, "attempt")
    /\ ClaimSlot(p, Attempt(projection[p].claim), "post")
    /\ UNCHANGED <<artifacts, evidence>>

(* materialize: the request is sent ... *)
Materialize(p) ==
    /\ On(p, "post")
    /\ artifacts' = artifacts \cup {[by |-> p, state |-> "sent", edits |-> 0,
                                     content |-> projection[p].payload]}
    /\ Proceed(p, "answer")
    /\ UNCHANGED <<storeVars, evidence>>

(* ... and answered once it was carried out. *)
MaterializeAnswers(p) ==
    /\ On(p, "answer")
    /\ \E a \in artifacts : a.by = p /\ a.state # "sent"
    /\ Set(p, [projection[p] EXCEPT !.pc = "load", !.artifact = p])
    /\ UNCHANGED <<storeVars, artifacts, evidence>>

(* The envelope's commit is tried once, on the State loaded here ...       *)
LoadForEnvelope(p) ==
    /\ On(p, "load")
    /\ Set(p, [projection[p] EXCEPT !.pc = "envelope", !.base = Revision])
    /\ UNCHANGED <<storeVars, artifacts, evidence>>

OwnEnvelope(p) ==
    ProjectionEnvelope(projection[p].claim, projection[p].payload,
                       projection[p].artifact)

(* ... under a transaction id that does not name it: the same transaction  *)
(* of the same State is a replay, anything else a stale State, another     *)
(* event under the id or another body under the key.                       *)
CommitEnvelope(p) ==
    LET base == Record(TransactionKey, projection[p].base)
        replay == {OwnEnvelope(p), base} \subseteq records
    IN
    /\ On(p, "envelope")
    /\ \/ /\ ~replay /\ ~Committed(EnvelopeOf) /\ projection[p].base = Revision
          /\ CommitRecords({OwnEnvelope(p), base}) /\ Proceed(p, "observe")
       \/ replay /\ Proceed(p, "observe") /\ UNCHANGED storeVars
       \/ /\ ~replay /\ (Committed(EnvelopeOf) \/ projection[p].base # Revision)
          /\ Refused(p) /\ UNCHANGED storeVars
    /\ UNCHANGED <<artifacts, evidence>>

(* _observe: the receipt that is returned with the envelope. *)
Observe(p) ==
    /\ On(p, "observe")
    /\ \E status \in Observations(projection[p].artifact, projection[p].payload) :
          Set(p, [projection[p] EXCEPT !.pc = "returned", !.receipt = status])
    /\ UNCHANGED <<storeVars, artifacts, evidence>>

(* The process dies, or the adapter, the reporter or the Store raises: the *)
(* call ends where it is, and a request that was sent stays sent.          *)
ProjectionEnds(p) ==
    /\ projection[p].pc \notin Over
    /\ Refused(p)
    /\ UNCHANGED <<storeVars, artifacts, evidence>>

\* Seeded fault: the receipt is believed.
Believed(p) == {projection[p].receipt}
(* route_observation_receipt_to_evidence: the artifact of the committed    *)
(* envelope is observed again, and the receipt must say the same.          *)
Reobserved(p) ==
    {projection[p].receipt} \cap
        Observations(Body(EnvelopeOf).artifact, Body(EnvelopeOf).payload)

HandOffReceipt(p) ==
    /\ On(p, "returned")
    /\ projection[p].artifact = Body(EnvelopeOf).artifact
    /\ \E status \in Reobserved(p) :
          evidence' = [status |-> status,
                       true |-> Classified(Body(EnvelopeOf).artifact,
                                           Body(EnvelopeOf).payload)]
    /\ UNCHANGED <<storeVars, projection, artifacts>>

ProjectionInit ==
    /\ projection = [p \in Projections |-> NoProjection]
    /\ artifacts = {}
    /\ evidence = [status |-> Nothing, true |-> Nothing]

ProjectionStep(p) ==
    \/ \E c \in Claims, x \in Payloads, r \in BOOLEAN : Project(p, c, x, r)
    \/ Authorize(p) \/ ClaimIntent(p) \/ SearchFinds(p) \/ SearchFails(p)
    \/ CheckAttempt(p) \/ ClaimAttempt(p) \/ Materialize(p)
    \/ MaterializeAnswers(p) \/ LoadForEnvelope(p) \/ CommitEnvelope(p)
    \/ Observe(p) \/ ProjectionEnds(p) \/ HandOffReceipt(p)

ProjectionNext == (\E p \in Projections : ProjectionStep(p)) \/ GitHubStep

-----------------------------------------------------------------------------

(* One artifact for one subject: however calls with different claims       *)
(* overlap, die, lose answers and are repeated, and however long GitHub    *)
(* takes to carry out a request or to find its artifact, one request at    *)
(* most is ever sent.  Two calls with one token that run at once are       *)
(* excluded: both find no attempt, commit the same one and create.         *)
OnePost ==
    (\A p \in Projections : ~projection[p].shared) =>
        Cardinality(artifacts) <= 1

(* The slot has one owner from the claim to the envelope: whoever bound an *)
(* artifact to the subject is who claimed the intent and the attempt that  *)
(* created it, and the artifact comes of a request that was really sent.   *)
OneOwner ==
    Committed(EnvelopeOf) =>
        /\ Committed(IntentKey) /\ Committed(AttemptKey)
        /\ Body(IntentKey) = Body(EnvelopeOf).claim
        /\ Body(AttemptKey) = Body(EnvelopeOf).claim
        /\ \E a \in artifacts :
              a.by = Body(EnvelopeOf).artifact /\ a.state # "sent"

(* What reaches Evidence as verified is so at that moment, although the    *)
(* receipt was made long before and the artifact may have been edited or   *)
(* deleted since.                                                          *)
EvidenceIsCurrent == evidence.status = "VERIFIED" => evidence.true = "VERIFIED"

(* What a projection promises of its slot, from the claim to Evidence.     *)
ProjectionSound == OnePost /\ OneOwner /\ EvidenceIsCurrent
=============================================================================
