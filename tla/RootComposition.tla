--------------------------- MODULE RootComposition ---------------------------
(***************************************************************************)
(* runtime/bootstrap.py: the composition of a deployment with its root     *)
(* admission, the requests that ask it for a capability, and the           *)
(* capability itself (projection/execution.py).                            *)
(*                                                                         *)
(* The service is composed once, under the admission that is current then. *)
(* A request boots the Project when it starts and again before it issues;  *)
(* the capability boots once more when it is constructed, before each call *)
(* of the adapter, and after each call, to take the State the call left.   *)
(***************************************************************************)
EXTENDS TransitionChain

CONSTANTS
    Requests,       \* the requests to the composed service
    GrantRequests,  \* what they ask with: [grants, declarations]
    MaxExecutions   \* bound: executions of a capability

VARIABLES
    service,        \* the admission the service is bound to
    request         \* each request and the capability it obtained

rootVars == <<service, request>>

Unbound == [id |-> NoId]
NoRequest == [pc |-> "idle"]

-----------------------------------------------------------------------------

(* _require_currently_admitted. *)
CurrentlyAdmitted(id, state) ==
    /\ Committed(ChainKey(id))
    /\ LET admission == Resolved(id) IN
       /\ admission.chain = "admission" /\ SelfConsistent(admission)
       /\ admission.status = "ACTIVE" /\ AdmissionVerified(admission)
    /\ HeadOf(state, "admission") = id

(* _require_bound_admission_still_current: the same record to the last     *)
(* field, its signature included.                                          *)
StillCurrent(state) ==
    /\ HeadOf(state, "admission") = service.id
    /\ Committed(ChainKey(service.id))
    /\ Resolved(service.id) = service.commitment
    /\ Resolved(service.id).status = "ACTIVE"

(* _resolve_grant, _resolve_declaration, _resolve_subject. *)
ResolvedGrant(g) == g.identified
ResolvedDeclaration(d) == d.identified
ResolvedSubject(g) == g.subject = g.fingerprint

(* One grant for each kind of projection, one declaration for each grant,  *)
(* and an authorization by the decision of GrantDecision.                  *)
Granted1(ask) ==
    /\ ask.grants # {}
    /\ \A g \in ask.grants : ResolvedGrant(g)
    /\ \A d \in ask.declarations : ResolvedDeclaration(d)
    /\ \A g \in ask.grants :
          /\ \A h \in ask.grants : h.kind = g.kind => h = g
          /\ ResolvedSubject(g)
          /\ \E d \in ask.declarations :
                /\ d.grant = g.id
                /\ \A e \in ask.declarations : e.grant = g.id => e = d
                /\ d.authorized

-----------------------------------------------------------------------------

(* compose_trusted_runtime_deployment_authority, under any reference. *)
Compose ==
    /\ service = Unbound
    /\ \E r \in Issued :
          /\ CurrentlyAdmitted(r.id, Snapshot)
          /\ service' = [id |-> r.id, commitment |-> Resolved(r.id)]
    /\ UNCHANGED <<request, storeVars>>

(* bootstrap_projection_execution_capability, up to its decisions. *)
BeginRequest(q) ==
    /\ request[q] = NoRequest
    /\ service # Unbound /\ StillCurrent(Snapshot)
    /\ \E ask \in GrantRequests :
          Granted1(ask)
          /\ request' = [request EXCEPT ![q] =
                [pc |-> "decided",
                 authorities |-> {g.kind : g \in ask.grants}]]
    /\ UNCHANGED <<service, storeVars>>

\* Seeded fault: the State is taken afresh but not looked at.
UncheckedFinalBoot(q) ==
    /\ request[q].pc = "decided"
    /\ request' = [request EXCEPT ![q] =
          [pc |-> "issuing", base |-> Snapshot,
           authorities |-> request[q].authorities]]
    /\ UNCHANGED <<service, storeVars>>
(* The pre-issuance barrier; the State of this boot is the context's. *)
FinalBoot(q) ==
    /\ request[q].pc = "decided"
    /\ request' = [request EXCEPT ![q] =
          IF StillCurrent(Snapshot)
          THEN [pc |-> "issuing", base |-> Snapshot,
                authorities |-> request[q].authorities]
          ELSE NoRequest]
    /\ UNCHANGED <<service, storeVars>>

(* execution_context_still_current. *)
ContextCurrent(base) == Snapshot = base

(* ProjectionExecutionCapability.__init__. *)
Issue(q) ==
    LET held == request[q] IN
    /\ held.pc = "issuing"
    /\ request' = [request EXCEPT ![q] =
          IF ContextCurrent(held.base)
          THEN [pc |-> "held", base |-> held.base, issued |-> held.base,
                authorities |-> held.authorities, runs |-> 0]
          ELSE NoRequest]
    /\ UNCHANGED <<service, storeVars>>

(* ProjectionExecutionCapability.execute: a stale capability refuses. *)
Execute(q) ==
    LET held == request[q] IN
    /\ held.pc = "held" /\ held.runs < MaxExecutions
    /\ ContextCurrent(held.base)
    /\ request' = [request EXCEPT ![q].pc = "projecting", ![q].runs = @ + 1]
    /\ UNCHANGED <<service, storeVars>>

(* project_to_github reaches the adapter and commits what it did, ... *)
Project(q) ==
    /\ request[q].pc = "projecting"
    /\ CommitRecords({})
    /\ request' = [request EXCEPT ![q].pc = "projected"]
    /\ UNCHANGED service

(* ... or raises, before or after a commit of its own, and the capability  *)
(* keeps the snapshot it had.                                              *)
ProjectRaises(q) ==
    /\ request[q].pc = "projecting"
    /\ request' = [request EXCEPT ![q].pc = "held"]
    /\ CommitRecords({}) \/ UNCHANGED storeVars
    /\ UNCHANGED service

(* The State this call left, with whatever others committed meanwhile. *)
Refresh(q) ==
    /\ request[q].pc = "projected"
    /\ request' = [request EXCEPT ![q].pc = "held", ![q].base = Snapshot]
    /\ UNCHANGED <<service, storeVars>>

RequestNext ==
    \E q \in Requests :
       \/ BeginRequest(q) \/ FinalBoot(q) \/ Issue(q)
       \/ Execute(q) \/ Project(q) \/ ProjectRaises(q) \/ Refresh(q)

RootNext == Compose \/ RequestNext

RootInit ==
    /\ service = Unbound
    /\ request = [q \in Requests |-> NoRequest]

-----------------------------------------------------------------------------

Capability(q) == request[q].pc \in {"held", "projecting", "projected"}

(* Every capability was issued at a State whose current root admission was *)
(* the one the service was composed under, active and signed by the trust  *)
(* anchor: a rotation or revocation that lands while a request is decided  *)
(* prevents its issue.                                                     *)
IssuedUnderAdmission ==
    \A q \in Requests : Capability(q) =>
       /\ history[request[q].issued.revision]["admission"] = service.id
       /\ service.commitment.status = "ACTIVE"
       /\ AdmissionVerified(service.commitment)

(* What the chain of admissions promises, and who was served under it.     *)
AdmissionSound == HeadsAdvanceLegally /\ IssuedUnderAdmission
=============================================================================
