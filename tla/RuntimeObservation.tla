-------------------------- MODULE RuntimeObservation --------------------------
(***************************************************************************)
(* runtime/route.py, adapter.py, transport_control.py, evidence_handoff.py *)
(* and network.py: bounded observations of a running deployment.           *)
(*                                                                         *)
(* A call of observe_runtime_target resolves the target's declaration in   *)
(* the State it booted, lets an adapter probe the target, and commits an   *)
(* envelope of what was seen.  The probe takes time; the declaration may   *)
(* be superseded or revoked, and the grant may expire, while it runs.      *)
(* Time is a clock that any step may find advanced.                        *)
(***************************************************************************)
EXTENDS TransitionChain

CONSTANTS
    Observers,      \* calls of observe_runtime_target under way
    Boundaries,     \* the boundaries they are given
    RunGrants,      \* the observation grants their adapters are given
    Reports,        \* what a target answers a probe with
    MaxClock        \* bound: instants

ASSUME MaxClockAssumption == MaxClock \in Nat
ASSUME WindowsAssumption ==
    \A w \in Boundaries \cup RunGrants : w.from \in Nat /\ w.until \in Nat

VARIABLES
    clock,
    observer        \* each call, and what it handed to the evidence

observationVars == <<clock, observer>>

NoObservation == [pc |-> "idle"]

-----------------------------------------------------------------------------
(* The grant of a bounded SSH observation.                                 *)

(* require_valid_grant: its shape, its own window and the signature of the *)
(* Human Authority that Boot restores.                                     *)
ValidGrant(g) ==
    /\ g.from < g.until
    /\ g.redaction \subseteq g.permitted /\ g.permitted # {}
    /\ g.signed

(* require_grant_permits_transport, require_grant_not_expired. *)
Permits(g, transport) == ValidGrant(g) /\ transport \in g.transports
NotExpired(g, now) == ValidGrant(g) /\ g.from <= now /\ now <= g.until

\* Seeded fault: what the grant redacts is left to the boundary.
MatchesLoosely(g, b) ==
    b.permitted \subseteq g.permitted /\ g.from <= b.from /\ b.until <= g.until
(* require_grant_matches_attempt. *)
MatchesAttempt(g, b) ==
    /\ b.permitted \subseteq g.permitted
    /\ g.redaction \subseteq b.redaction
    /\ b.timeout <= g.timeout
    /\ g.from <= b.from /\ b.until <= g.until

(* require_boundary_within_live_window. *)
WithinLiveWindow(b, now) == b.from <= now /\ now <= b.until

(* The adapters, and the transport each may be constructed with: HTTP      *)
(* needs no grant, a Human's captured report needs one for MANUAL_SSH.     *)
Adapters == {"http", "ssh", "captured"}
TransportOf(adapter) ==
    IF adapter = "captured" THEN "MANUAL_SSH" ELSE "PREAUTHORIZED_UNATTENDED_SSH"

(* SshRuntimeAdapter.__init__, CapturedProbeReportRuntimeAdapter.__init__. *)
Constructed(adapter, g, now) ==
    adapter = "http" \/ (Permits(g, TransportOf(adapter)) /\ NotExpired(g, now))

\* Seeded fault: the grant is verified at the instant the adapter was built.
ReverifiedThen(o, now) ==
    observer[o].adapter = "http"
    \/ MatchesAttempt(observer[o].grant, observer[o].boundary)
(* _reverify_live_grant, when the probe is due. *)
Reverified(o, now) ==
    LET call == observer[o] IN
    \/ call.adapter = "http"
    \/ /\ Permits(call.grant, TransportOf(call.adapter))
       /\ NotExpired(call.grant, now)
       /\ MatchesAttempt(call.grant, call.boundary)
       /\ WithinLiveWindow(call.boundary, now)

-----------------------------------------------------------------------------
(* What the probe answers.                                                 *)

(* _run_bounded_subprocess: killed at the timeout or past the bound on its *)
(* output; _parse_probe_report: the last line is one complete report.      *)
Bounded(report) == report.size <= 1
Parsed(report) == report.parsed

(* Pinned to the script and configuration the grant names. *)
Pinned(report, g) == report.script = g.script /\ report.config = g.config

(* Excerpts that the target counted as they are, within max_lines. *)
Counted(report) == report.counted

(* SshRuntimeAdapter.observe and _classify_probe_result. *)
SshOutcome(report, g) ==
    IF report.code = "timeout" THEN "TIMEOUT"
    ELSE IF ~Bounded(report) THEN "MALFORMED"
    ELSE IF report.code = "denied" THEN "PERMISSION_DENIED"
    ELSE IF report.code = "unreachable" THEN "UNAVAILABLE"
    ELSE IF ~(report.code = "zero" /\ Parsed(report) /\ Pinned(report, g))
         THEN "MALFORMED"
    ELSE IF ~report.ok THEN report.reason
    ELSE IF Counted(report) THEN "OBSERVED" ELSE "MALFORMED"

(* LocalHttpRuntimeAdapter.observe, which follows no redirect. *)
HttpOutcome(report) ==
    IF report.code = "timeout" THEN "TIMEOUT"
    ELSE IF report.code = "denied" THEN "PERMISSION_DENIED"
    ELSE IF report.code = "unreachable" THEN "UNAVAILABLE"
    ELSE IF report.code = "missing" THEN "NOT_FOUND"
    ELSE IF Parsed(report) THEN "OBSERVED" ELSE "MALFORMED"

TransportOutcome(o, report) ==
    IF observer[o].adapter = "http" THEN HttpOutcome(report)
    ELSE SshOutcome(report, observer[o].grant)

(* The adapter's selection, _project_to_permitted_fields and _redact. *)
Projected(b) == b.permitted
Shown(b) == [f \in Projected(b) |->
                IF f \in b.redaction THEN "redacted" ELSE "clear"]

(* The outcome of an answer: another deployment than the declared one, a   *)
(* value other than the expected one, or an observation.                   *)
Classified(report, b, declared) ==
    IF report.identity # declared.fingerprint THEN "IDENTITY_MISMATCH"
    ELSE IF b.expects /\ ~report.expected THEN "NEGATIVE"
    ELSE "OBSERVED"

(* derive_runtime_observation_envelope. *)
ObservationEnvelope(o, report) ==
    LET call == observer[o]
        outcome == TransportOutcome(o, report)
        declared == Resolved(call.declaration) IN
    [declaration |-> call.declaration, at |-> call.at,
     boundary |-> call.boundary,
     outcome |-> IF outcome = "OBSERVED"
                 THEN Classified(report, call.boundary, declared) ELSE outcome,
     fields |-> IF outcome = "OBSERVED" THEN Shown(call.boundary) ELSE NoId]

ObservedKey(e) == [kind |-> "runtime_observation_envelope", observed |-> e]

-----------------------------------------------------------------------------
(* observe_runtime_target.                                                 *)

(* _require_boundary and the scopes of network.py. *)
BoundaryAccepted(b) == b.scoped

(* _require_within_time_window. *)
WithinWindow(b, at) == b.from < b.until /\ b.from <= at /\ at <= b.until

(* _require_current_deployment_declaration. *)
DeclarationCurrent(id, state) == HeadOf(state, "deployment") = id

(* _resolve_deployment_declaration, of the State that Boot restored. *)
DeclarationResolved(id, state, at) ==
    /\ Committed(ChainKey(id))
    /\ LET d == Resolved(id) IN
       /\ SelfConsistent(d) /\ d.status = "ACTIVE" /\ DeclarationVerified(d)
       /\ d.from <= at /\ at <= d.until
    /\ DeclarationCurrent(id, state)

(* The instant the caller gives: now, or when the report was captured. *)
ObservedAt(adapter) == IF adapter = "captured" THEN 0..clock ELSE {clock}

(* The call up to the adapter, the adapter constructed before it. *)
Begins(o, adapter, g, b, at) ==
    /\ Constructed(adapter, g, clock)
    /\ BoundaryAccepted(b) /\ WithinWindow(b, at)
    /\ \E r \in Issued :
          /\ r.chain = "deployment"
          /\ DeclarationResolved(r.id, Snapshot, at)
          /\ observer' = [observer EXCEPT ![o] =
                [pc |-> "resolved", adapter |-> adapter, grant |-> g,
                 boundary |-> b, at |-> at, declaration |-> r.id]]

BeginObservation(o) ==
    /\ observer[o] = NoObservation
    /\ \E adapter \in Adapters, g \in RunGrants, b \in Boundaries :
          /\ adapter = "http" => g = CHOOSE any \in RunGrants : TRUE
          /\ \E at \in ObservedAt(adapter) : Begins(o, adapter, g, b, at)
    /\ UNCHANGED <<clock, storeVars>>

(* The State an attempt to commit works on, or no attempt. *)
LoadsEnvelope(o, call, retries) ==
    observer' = [observer EXCEPT ![o] =
       IF retries > 0 /\ DeclarationCurrent(call.declaration, Snapshot)
       THEN [pc |-> "commit", adapter |-> call.adapter, grant |-> call.grant,
             envelope |-> call.envelope, probed |-> call.probed,
             boundary |-> call.boundary, declaration |-> call.declaration,
             base |-> Snapshot, retries |-> retries]
       ELSE NoObservation]

(* adapter.observe and the classification of its answer, then the first    *)
(* attempt of _commit_envelope; the adapter raises when its grant does not *)
(* cover the attempt any more.                                             *)
Probe(o) ==
    /\ observer[o].pc = "resolved"
    /\ \/ /\ ~Reverified(o, clock)
          /\ observer' = [observer EXCEPT ![o] = NoObservation]
       \/ /\ Reverified(o, clock)
          /\ \E report \in Reports :
                LET call == observer[o] IN
                LoadsEnvelope(o,
                   [adapter |-> call.adapter, grant |-> call.grant,
                    boundary |-> call.boundary, probed |-> clock,
                    declaration |-> call.declaration,
                    envelope |-> ObservationEnvelope(o, report)], MaxRetries)
    /\ UNCHANGED <<clock, storeVars>>

SwapEnvelope(o) ==
    LET call == observer[o] IN
    /\ call.pc = "commit" /\ call.base.revision = Revision
    /\ CommitRecords({Record(ObservedKey(call.envelope), call.envelope)})
    /\ observer' = [observer EXCEPT ![o] =
          [pc |-> "received", adapter |-> call.adapter, grant |-> call.grant,
           envelope |-> call.envelope]]
    /\ UNCHANGED clock

\* Seeded fault: a retry takes the new State as it is.
RetriesBlindly(o) ==
    /\ observer[o].pc = "commit" /\ observer[o].base.revision # Revision
    /\ observer' = [observer EXCEPT ![o].base = Snapshot]
    /\ UNCHANGED <<clock, storeVars>>
(* StaleStateError: the declaration is looked up again in the new State. *)
RetryEnvelope(o) ==
    /\ observer[o].pc = "commit" /\ observer[o].base.revision # Revision
    /\ LoadsEnvelope(o, observer[o], observer[o].retries - 1)
    /\ UNCHANGED <<clock, storeVars>>

-----------------------------------------------------------------------------
(* evidence_handoff.py.                                                    *)

(* RUNTIME_OUTCOME_TO_RECEIPT_STATUS. *)
ReceiptStatus(outcome) ==
    IF outcome = "OBSERVED" THEN "VERIFIED"
    ELSE IF outcome \in {"NEGATIVE", "NOT_FOUND", "IDENTITY_MISMATCH"}
         THEN "FAILED" ELSE "UNAVAILABLE"

(* _construct_provenance, of the committed envelope. *)
Provenance(e) ==
    [envelope |-> e, status |-> ReceiptStatus(e.outcome), at |-> e.at]

(* route_runtime_observation_to_evidence: the provenance is built from the *)
(* envelope in the Store, with which the receipt must agree.               *)
HandOff(o) ==
    LET e == observer[o].envelope IN
    /\ observer[o].pc = "received"
    /\ Committed(ObservedKey(e))
    /\ observer' = [observer EXCEPT ![o] =
          [pc |-> "handed", provenance |-> Provenance(Body(ObservedKey(e)))]]
    /\ UNCHANGED <<clock, storeVars>>

Tick ==
    /\ clock < MaxClock
    /\ clock' = clock + 1
    /\ UNCHANGED <<observer, storeVars>>

ObservationNext ==
    \/ Tick
    \/ \E o \in Observers :
          \/ BeginObservation(o) \/ Probe(o) \/ SwapEnvelope(o)
          \/ RetryEnvelope(o) \/ HandOff(o)

ObservationInit ==
    /\ clock = 0
    /\ observer = [o \in Observers |-> NoObservation]

-----------------------------------------------------------------------------

Envelopes(recs) ==
    {r.body : r \in {x \in recs : x.key.kind = "runtime_observation_envelope"}}

(* An envelope enters the Store only on a State whose current declaration  *)
(* of the target is the active one it was observed under, however long the *)
(* probe took and however often the commit was retried (route.py,          *)
(* _commit_envelope).                                                      *)
EnvelopesAnchored ==
    [][\A e \in Envelopes(records') \ Envelopes(records) :
          /\ history[Revision]["deployment"] = e.declaration
          /\ Resolved(e.declaration).status = "ACTIVE"]_<<records, history>>

(* A field that a grant redacts or does not permit never reaches an        *)
(* envelope in clear, through any boundary the caller states.              *)
NothingRedactedShown ==
    \A o \in Observers :
       observer[o].pc \in {"commit", "received"} /\ observer[o].adapter # "http" =>
          LET fields == observer[o].envelope.fields
              g == observer[o].grant IN
          fields # NoId => \A f \in DOMAIN fields :
             f \in g.permitted /\ (f \in g.redaction => fields[f] = "redacted")

(* A granted probe runs at an instant the grant and the boundary both      *)
(* cover, whenever the adapter was constructed (adapter.py: verified fresh *)
(* immediately before every observation).                                  *)
ProbesAreLive ==
    \A o \in Observers :
       observer[o].pc = "commit" /\ observer[o].adapter # "http" =>
          LET call == observer[o] IN
          /\ call.grant.from <= call.probed /\ call.probed <= call.grant.until
          /\ call.boundary.from <= call.probed /\ call.probed <= call.boundary.until
          /\ call.grant.signed

(* What an observation promises of its probe, of what it shows and of the  *)
(* declaration it is committed under.                                      *)
ObservationSound ==
    [](ProbesAreLive /\ NothingRedactedShown) /\ EnvelopesAnchored
=============================================================================
