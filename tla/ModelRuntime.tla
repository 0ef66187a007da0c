---------------------------- MODULE ModelRuntime ----------------------------
(***************************************************************************)
(* model_runtime: temporary agents that open work units, have a model      *)
(* adapter execute them, record that one model replaced another, and       *)
(* recover a work unit in a new session.                                   *)
(*                                                                         *)
(* A call checks its agent's contract against a fresh one, resolves what   *)
(* it needs, may be away in the adapter for long, and commits its records  *)
(* last; other writers commit between any two of these.  Record ids are    *)
(* content addresses, so that a key here is what the body is determined    *)
(* by.  Bindings, boundaries, grants and signatures are settled before     *)
(* (the authority modules have them), bodies are abstracted to what later  *)
(* checks compare.                                                         *)
(***************************************************************************)
EXTENDS CommittedRecords

CONSTANTS
    Sessions,       \* concurrent sessions, each with a temporary agent
    Adapters,       \* adapter identities
    Candidates,     \* fingerprints of normalized candidates
    None

(* _normalize: no candidate is no fingerprint. *)
ASSUME CandidatesAssumption == None \notin Candidates

VARIABLE session    \* each session's agent and call

-----------------------------------------------------------------------------
(* Records.                                                                *)

(* derive_model_work_unit: opened on an exact State. *)
WorkUnit(opened) == Record([kind |-> "work_unit", opened |-> opened], opened)

WorkUnits == {r.key : r \in {x \in records : x.key.kind = "work_unit"}}

(* derive_model_execution_envelope: executed on a State, by an adapter,    *)
(* with an outcome and the candidate when it was accepted.                 *)
EnvelopeKey(unit, on, adapter, outcome, candidate) ==
    [kind |-> "envelope", unit |-> unit, on |-> on, adapter |-> adapter,
     outcome |-> outcome, candidate |-> candidate]

Envelope(key) == Record(key, key)

Envelopes == {r.key : r \in {x \in records : x.key.kind = "envelope"}}

(* _normalize: the candidate of permitted kind and fields, or none: the    *)
(* adapter refused, or what it returned has no permitted field.            *)
Normalized ==
    [outcome : {"CANDIDATE_ACCEPTED"}, candidate : Candidates]
    \cup [outcome : {"INCOMPLETE_EVIDENCE"}, candidate : {None}]

-----------------------------------------------------------------------------
(* The execution contract.                                                 *)

(* _require_contract_state_admissible. *)
Admissible(held) ==
    /\ held.revision <= Revision
    /\ held.revision = Revision => held.content = Snapshot.content

(* ... with require_exact. *)
Exact(held) == Admissible(held) /\ held = Snapshot

(* _resume_from_store: a unit opened on a State its agent has reached.     *)
Resumes(held, unit) ==
    /\ Committed(unit)
    /\ unit.opened.revision <= Revision
    /\ unit.opened.revision <= held.revision

-----------------------------------------------------------------------------
(* Sessions.                                                               *)

NoSession == [pc |-> "released", held |-> None, seen |-> None,
              unit |-> None, pending |-> {}]

Be(s, r) == session' = [session EXCEPT ![s] = r]

Idle(s) == session[s].pc = "active"

StartAgent(s) ==
    /\ session[s].pc = "released"
    /\ Be(s, [NoSession EXCEPT !.pc = "active", !.held = Snapshot])
    /\ UNCHANGED storeVars

(* release(), at any time: calls of a released agent raise. *)
Release(s) == Idle(s) /\ Be(s, NoSession) /\ UNCHANGED storeVars

Prepared(s, new) ==
    /\ Be(s, [session[s] EXCEPT !.pc = "committing", !.pending = new])
    /\ UNCHANGED storeVars

(* _open_model_work_unit_body: only under an exact contract; the           *)
(* authorization decision is committed with the unit.                      *)
Opens(held) == Exact(held)
UnitRecords(held) == {WorkUnit(held)}

(* open_model_work_unit, up to its commit. *)
OpenWorkUnit(s) ==
    /\ Idle(s) /\ Opens(session[s].held)
    /\ Prepared(s, UnitRecords(session[s].held))

\* Seeded fault: the envelope names the revision found and the State held.
MixedState(s) == [session[s].held EXCEPT !.revision = Revision]
(* execute_model_work_unit without a pin: the State found by this call.    *)
ExecutionState(s) == Snapshot

(* ... up to the adapter's call. *)
Execute(s, unit) ==
    /\ Idle(s) /\ Admissible(session[s].held) /\ Resumes(session[s].held, unit)
    /\ Be(s, [session[s] EXCEPT !.pc = "adapter", !.unit = unit,
                                !.seen = ExecutionState(s)])
    /\ UNCHANGED storeVars

AdapterReturns(s, adapter, n) ==
    /\ session[s].pc = "adapter"
    /\ Prepared(s, {Envelope(EnvelopeKey(session[s].unit, session[s].seen,
                                         adapter, n.outcome, n.candidate))})

(* The adapter raises, or returns what is no mapping, an outcome or a kind *)
(* not permitted, or fields that are not.                                  *)
AdapterRaises(s) ==
    /\ session[s].pc = "adapter"
    /\ Be(s, [session[s] EXCEPT !.pc = "active"])
    /\ UNCHANGED storeVars

\* Seeded fault: the order of the two executions is not compared.
SwapAny(before, after) ==
    before.unit = after.unit /\ before.adapter # after.adapter
(* The two envelopes are of one unit, the models differ, time goes on.     *)
Swaps(before, after) ==
    /\ before.unit = after.unit
    /\ before.adapter # after.adapter
    /\ before.on.revision <= after.on.revision

(* record_model_swap. *)
RecordSwap(s, before, after) ==
    /\ Idle(s) /\ Admissible(session[s].held)
    /\ Resumes(session[s].held, before.unit) /\ Swaps(before, after)
    /\ Prepared(s, {Record([kind |-> "swap", from |-> before, to |-> after],
                           before.unit)})

(* recover_model_execution_session. *)
Recover(s, unit) ==
    /\ Idle(s) /\ Admissible(session[s].held) /\ Resumes(session[s].held, unit)
    /\ Prepared(s, {Record([kind |-> "recovery", unit |-> unit,
                            on |-> Snapshot], unit)})

CommitPending(s) ==
    /\ session[s].pc = "committing"
    /\ CommitRecords(session[s].pending) \/ CommitRaises
    /\ Be(s, [session[s] EXCEPT !.pc = "active", !.pending = {}])

RuntimeInit == session = [s \in Sessions |-> NoSession]

RuntimeNext ==
    \E s \in Sessions :
        \/ StartAgent(s) \/ Release(s) \/ OpenWorkUnit(s)
        \/ \E u \in WorkUnits : Execute(s, u) \/ Recover(s, u)
        \/ \E a \in Adapters, n \in Normalized : AdapterReturns(s, a, n)
        \/ AdapterRaises(s)
        \/ \E before, after \in Envelopes : RecordSwap(s, before, after)
        \/ CommitPending(s)

-----------------------------------------------------------------------------

(* Every snapshot a committed record names is a State the Store really had *)
(* at that revision, and not one put together from two reads: the opened   *)
(* State of a unit, the executed State of an envelope, the recovered one.  *)
Real(snapshot) ==
    /\ snapshot.revision \in DOMAIN history
    /\ history[snapshot.revision] = snapshot.content

SnapshotsAreReal ==
    \A r \in records :
        CASE r.key.kind = "work_unit" -> Real(r.key.opened)
          [] r.key.kind \in {"envelope", "recovery"} -> Real(r.key.on)
          [] OTHER -> TRUE

(* A work unit is carried from session to session, model to model, only    *)
(* forward: no envelope, and no end of a swap, was executed on a State     *)
(* older than the one its unit was opened on, and along a swap the         *)
(* executed State never goes back.                                         *)
OnlyForward ==
    /\ \A e \in Envelopes :
          Committed(e.unit) /\ e.unit.opened.revision <= e.on.revision
    /\ \A r \in records :
          r.key.kind = "swap" =>
              /\ Committed(r.key.from) /\ Committed(r.key.to)
              /\ r.key.from.on.revision <= r.key.to.on.revision

(* What the records of a work unit say of the States it was carried over.  *)
SessionsSound == SnapshotsAreReal /\ OnlyForward
=============================================================================
