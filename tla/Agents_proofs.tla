---------------------------- MODULE Agents_proofs ----------------------------
(***************************************************************************)
(* Proofs about temporary agents: the sessions of the model runtime        *)
(* (ModelRuntime) and the dynamic execution of a plan (MultiAgentPlan),    *)
(* for any sessions, adapters, candidates, risk and number of calls, all   *)
(* in one Store and beside every other writer of the project; of the       *)
(* reviews that are launched, in a ledger of their own (ReviewControl);    *)
(* and of the lineage of the acceptance policy (AcceptancePolicy).         *)
(*                                                                         *)
(* Committed records stay committed and a past State stays what it was     *)
(* (StoreGrows), so that what a call saw before its adapter ran is still   *)
(* so when it commits.  Of a plan, each slot's claim, output and release   *)
(* receipt have one body for good (BodiesUnique); the thread that has the  *)
(* gate is one that its call waits for (CallOK); and a call that nobody    *)
(* overlaps is the only one that can claim or settle its slot (AloneOK).   *)
(* Of the reviews, a claim has one launcher past its claim and its review  *)
(* one process, and the claim, the launcher, the process and an operator's *)
(* cancellation agree on the pid (LedgerInv).                              *)
(* Of the policy, one more adoption is one more fold (PolicyAppends): what *)
(* a call commits is a step of the policy that it simulated (PolicyInv).   *)
(***************************************************************************)
EXTENDS MultiAgentPlan, AcceptancePolicy, ReviewControl, WellOrder,
        FiniteSetTheorems, SequenceTheorems, TLAPS

(* What every route relies on of the Store. *)
HistoryOK == history \in Seq(Contents) /\ history # <<>>

(* Every State the Store had, it had; every committed key stays committed. *)
StoreGrows ==
    /\ HistoryOK' /\ Revision <= Revision'
    /\ \A i \in DOMAIN history : i \in DOMAIN history' /\ history'[i] = history[i]
    /\ \A key : Committed(key) => Committed(key)'

(* A commit adds records, and one State with the content of the last. *)
LEMMA CommitGrows ==
  ASSUME HistoryOK, NEW new, CommitRecords(new)
  PROVE  /\ StoreGrows
         /\ new \subseteq records' /\ \A r \in records' : r \in records \/ r \in new
<1>1. /\ Len(history) \in Nat \ {0} /\ history[Len(history)] \in Contents
      /\ history' = Append(history, history[Len(history)])
  BY DEF HistoryOK, CommitRecords, Revision
<1>2. HistoryOK' /\ Revision <= Revision'
  BY <1>1 DEF HistoryOK, Revision
<1>3. \A i \in DOMAIN history : i \in DOMAIN history' /\ history'[i] = history[i]
  BY <1>1 DEF HistoryOK
<1>4. records' = {r \in records : \A n \in new : r.key # n.key} \cup new
  BY DEF CommitRecords
<1>5. ASSUME NEW key, Committed(key) PROVE Committed(key)'
  <2>1. PICK r \in records : r.key = key
    BY <1>5 DEF Committed
  <2>2. CASE \E n \in new : r.key = n.key
    BY <1>4, <2>1, <2>2, Zenon DEF Committed
  <2>3. CASE \A n \in new : r.key # n.key
    BY <1>4, <2>1, <2>3, Zenon DEF Committed
  <2> QED
    BY <2>2, <2>3
<1> QED
  BY <1>2, <1>3, <1>4, <1>5 DEF StoreGrows

(* Another writer's State is added behind the others. *)
LEMMA TransitionGrows ==
  ASSUME HistoryOK, NEW c \in Contents, Transition(c)
  PROVE  StoreGrows /\ records' = records
<1>1. HistoryOK' /\ Revision <= Revision' /\ records' = records
      /\ \A i \in DOMAIN history : i \in DOMAIN history' /\ history'[i] = history[i]
  BY DEF HistoryOK, Transition, Revision
<1> QED
  BY <1>1 DEF StoreGrows, Committed

(* A step that leaves the Store alone. *)
LEMMA StoreStays ==
  ASSUME HistoryOK, UNCHANGED storeVars
  PROVE  StoreGrows /\ records' = records
BY DEF HistoryOK, storeVars, StoreGrows, Committed, Revision

-----------------------------------------------------------------------------
(* Sessions. *)

Snap == [revision : Nat, content : Contents]

(* The adapter of the plan. *)
PlanAdapter == CHOOSE a \in Adapters : TRUE

UnitKeys == [kind : {"work_unit"}, opened : Snap]
EnvelopeKeys ==
    [kind : {"envelope"}, unit : UnitKeys, on : Snap,
     adapter : Adapters \cup {PlanAdapter},
     outcome : {"CANDIDATE_ACCEPTED", "INCOMPLETE_EVIDENCE"},
     candidate : Candidates \cup {None}]
SwapKeys == [kind : {"swap"}, from : EnvelopeKeys, to : EnvelopeKeys]
RecoveryKeys == [kind : {"recovery"}, unit : UnitKeys, on : Snap]

SessionRecords ==
    [key : UnitKeys \cup EnvelopeKeys \cup SwapKeys \cup RecoveryKeys,
     body : Snap \cup EnvelopeKeys \cup UnitKeys]

SessionType ==
    [pc : {"released", "active", "adapter", "committing"}, held : Snap \cup {None},
     seen : Snap \cup {None}, unit : UnitKeys \cup {None},
     pending : SUBSET SessionRecords]

(* An execution carries its unit forward. *)
EnvelopeForward(e) ==
    /\ e \in EnvelopeKeys
    /\ Real(e.on) /\ Committed(e.unit) /\ e.unit.opened.revision <= e.on.revision

(* What a record says of the States it names, before its commit and after. *)
RecordOK(r) ==
    /\ r.key.kind = "work_unit" => r.key \in UnitKeys /\ Real(r.key.opened)
    /\ r.key.kind = "envelope" => EnvelopeForward(r.key)
    /\ r.key.kind = "recovery" => Real(r.key.on)
    /\ r.key.kind = "swap" =>
          /\ Committed(r.key.from) /\ Committed(r.key.to)
          /\ r.key.from.on.revision <= r.key.to.on.revision

RecordsOK == \A r \in records : RecordOK(r)

SessionOK(s) ==
    /\ session[s].pc # "released" => session[s].held \in Snap /\ Real(session[s].held)
    /\ session[s].pc = "adapter" =>
          /\ session[s].seen \in Snap /\ Real(session[s].seen)
          /\ session[s].unit \in UnitKeys /\ Committed(session[s].unit)
          /\ session[s].unit.opened.revision <= session[s].seen.revision
    /\ session[s].pc = "committing" => \A n \in session[s].pending : RecordOK(n)

SessionsInv ==
    /\ HistoryOK /\ RecordsOK
    /\ session \in [Sessions -> SessionType]
    /\ \A s \in Sessions : SessionOK(s)

(* What is true of a record stays so. *)
LEMMA RecordStays ==
  ASSUME StoreGrows
  PROVE  /\ \A snapshot : Real(snapshot) => Real(snapshot)'
         /\ \A e : EnvelopeForward(e) => EnvelopeForward(e)'
         /\ \A r : RecordOK(r) => RecordOK(r)'
<1>1. \A snapshot : Real(snapshot) => Real(snapshot)'
  BY DEF StoreGrows, Real
<1>2. \A key : Committed(key) => Committed(key)'
  BY DEF StoreGrows
<1>3. \A e : EnvelopeForward(e) => EnvelopeForward(e)'
  BY <1>1, <1>2 DEF EnvelopeForward
<1> QED
  BY <1>1, <1>2, <1>3 DEF RecordOK

(* What start_temporary_agent holds is the State there is.               *)
LEMMA SnapshotReal ==
  ASSUME HistoryOK
  PROVE  Snapshot \in Snap /\ Real(Snapshot) /\ Snapshot.revision = Revision /\ Revision \in Nat
<1>1. Revision \in DOMAIN history /\ Revision \in Nat /\ history[Revision] \in Contents
  BY DEF HistoryOK, Revision
<1> QED
  BY <1>1 DEF Snapshot, Snap, Real

(* The records that a commit adds to sound ones are sound. *)
LEMMA RecordsCommit ==
  ASSUME HistoryOK, RecordsOK, NEW new, CommitRecords(new), \A n \in new : RecordOK(n)
  PROVE  RecordsOK'
<1>1. StoreGrows /\ \A r \in records' : r \in records \/ r \in new
  BY CommitGrows
<1>2. \A r : RecordOK(r) => RecordOK(r)'
  BY <1>1, RecordStays
<1>3. \A r \in records' : RecordOK(r)'
  BY <1>1, <1>2 DEF RecordsOK
<1> QED
  BY <1>3 DEF RecordsOK

(* A step of others, whatever they add that says nothing false. *)
LEMMA SessionsKeep ==
  ASSUME SessionsInv, StoreGrows, RecordsOK', UNCHANGED session
  PROVE  SessionsInv'
<1>1. /\ \A snapshot : Real(snapshot) => Real(snapshot)'
      /\ \A r : RecordOK(r) => RecordOK(r)'
      /\ \A key : Committed(key) => Committed(key)'
  BY RecordStays DEF StoreGrows
<1>2. \A s \in Sessions : SessionOK(s)'
  BY <1>1 DEF SessionsInv, SessionOK
<1> QED
  BY <1>2 DEF SessionsInv, StoreGrows

(* A step of one session that leaves the Store alone. *)
LEMMA SessionStepKeeps ==
  ASSUME SessionsInv, UNCHANGED storeVars, NEW s \in Sessions, NEW r \in SessionType, Be(s, r),
         r.pc # "released" => r.held \in Snap /\ Real(r.held),
         r.pc = "adapter" =>
           /\ r.seen \in Snap /\ Real(r.seen) /\ r.unit \in UnitKeys /\ Committed(r.unit)
           /\ r.unit.opened.revision <= r.seen.revision,
         r.pc = "committing" => \A n \in r.pending : RecordOK(n)
  PROVE  SessionsInv'
<1>1. StoreGrows /\ records' = records
  BY StoreStays DEF SessionsInv
<1>2. /\ \A snapshot : Real(snapshot) => Real(snapshot)'
      /\ \A x : RecordOK(x) => RecordOK(x)'
      /\ \A key : Committed(key) => Committed(key)'
  BY <1>1, RecordStays DEF StoreGrows
<1>3. /\ session' \in [Sessions -> SessionType] /\ session'[s] = r
      /\ \A t \in Sessions \ {s} : session'[t] = session[t]
  BY DEF SessionsInv, Be
<1>4. ASSUME NEW t \in Sessions PROVE SessionOK(t)'
  <2>1. CASE t = s
    BY <1>2, <1>3, <2>1 DEF SessionOK
  <2>2. CASE t # s
    BY <1>2, <1>3, <2>2 DEF SessionsInv, SessionOK
  <2> QED
    BY <2>1, <2>2
<1>5. HistoryOK' /\ RecordsOK'
  BY <1>1, <1>2 DEF SessionsInv, RecordsOK, StoreGrows
<1> QED
  BY <1>3, <1>4, <1>5 DEF SessionsInv

(* A call prepares the records of its commit. *)
LEMMA PreparedKeeps ==
  ASSUME SessionsInv, NEW s \in Sessions, session[s].pc # "released",
         NEW new \in SUBSET SessionRecords, Prepared(s, new), \A n \in new : RecordOK(n)
  PROVE  SessionsInv'
<1>1. PICK r : r = [session[s] EXCEPT !.pc = "committing", !.pending = new]
  OBVIOUS
<1>2. session[s] \in SessionType /\ session[s].held \in Snap /\ Real(session[s].held)
  BY DEF SessionsInv, SessionOK
<1>3. /\ r \in SessionType /\ r.pc = "committing" /\ r.held = session[s].held
      /\ r.pending = new
  BY <1>1, <1>2 DEF SessionType
<1>4. Be(s, r) /\ UNCHANGED storeVars
  BY <1>1, Zenon DEF Prepared
<1> QED
  BY <1>2, <1>3, <1>4, SessionStepKeeps

(* A work unit that a committed key names is one. *)
LEMMA UnitsTyped ==
  ASSUME SessionsInv
  PROVE  /\ \A u \in WorkUnits : u \in UnitKeys /\ Committed(u)
         /\ \A e \in Envelopes : EnvelopeForward(e) /\ Committed(e)
<1>1. ASSUME NEW u \in WorkUnits PROVE u \in UnitKeys /\ Committed(u)
  <2>1. PICK r \in records : r.key = u /\ r.key.kind = "work_unit"
    BY DEF WorkUnits
  <2> QED
    BY <2>1 DEF SessionsInv, RecordsOK, RecordOK, Committed
<1>2. ASSUME NEW e \in Envelopes PROVE EnvelopeForward(e) /\ Committed(e)
  <2>1. PICK r \in records : r.key = e /\ r.key.kind = "envelope"
    BY DEF Envelopes
  <2> QED
    BY <2>1 DEF SessionsInv, RecordsOK, RecordOK, Committed
<1> QED
  BY <1>1, <1>2

(* What the records of each kind say. *)
LEMMA UnitRecordOK ==
  ASSUME NEW held \in Snap, Real(held)
  PROVE  /\ UnitRecords(held) \subseteq SessionRecords
         /\ \A n \in UnitRecords(held) : RecordOK(n)
         /\ WorkUnit(held).key \in UnitKeys /\ WorkUnit(held).key.opened = held
         /\ WorkUnit(held).key.kind = "work_unit" /\ UnitRecords(held) = {WorkUnit(held)}
<1>1. PICK key : key = [kind |-> "work_unit", opened |-> held]
  OBVIOUS
<1>2. key \in UnitKeys /\ key.kind = "work_unit" /\ key.opened = held
  BY <1>1 DEF UnitKeys
<1>3. PICK r : r = [key |-> key, body |-> held]
  OBVIOUS
<1>4. r.key = key /\ r \in SessionRecords
  BY <1>2, <1>3 DEF SessionRecords
<1>5. RecordOK(r)
  BY <1>2, <1>4 DEF RecordOK
<1>6. WorkUnit(held) = r /\ UnitRecords(held) = {r}
  BY <1>1, <1>3 DEF WorkUnit, Record, UnitRecords
<1> QED
  BY <1>2, <1>4, <1>5, <1>6

(* An execution on a State its unit has reached says nothing false.      *)
LEMMA EnvelopeRecordOK ==
  ASSUME NEW unit \in UnitKeys, NEW on \in Snap, Real(on), Committed(unit),
         unit.opened.revision <= on.revision,
         NEW adapter \in Adapters \cup {PlanAdapter}, NEW n \in Normalized
  PROVE  LET e == EnvelopeKey(unit, on, adapter, n.outcome, n.candidate) IN
         /\ e \in EnvelopeKeys /\ e.unit = unit /\ e.on = on
         /\ e.outcome = n.outcome /\ e.candidate = n.candidate
         /\ Envelope(e) \in SessionRecords /\ Envelope(e).key = e
         /\ EnvelopeForward(e) /\ RecordOK(Envelope(e))
<1>1. PICK e : e = EnvelopeKey(unit, on, adapter, n.outcome, n.candidate)
  OBVIOUS
<1>2. /\ n.outcome \in {"CANDIDATE_ACCEPTED", "INCOMPLETE_EVIDENCE"}
      /\ n.candidate \in Candidates \cup {None}
  BY DEF Normalized
<1>3. /\ e \in EnvelopeKeys /\ e.unit = unit /\ e.on = on /\ e.kind = "envelope"
      /\ e.outcome = n.outcome /\ e.candidate = n.candidate
  BY <1>1, <1>2 DEF EnvelopeKey, EnvelopeKeys
<1>4. Envelope(e) \in SessionRecords /\ Envelope(e).key = e
  BY <1>3 DEF Envelope, Record, SessionRecords
<1>5. EnvelopeForward(e)
  BY <1>3 DEF EnvelopeForward
<1>6. RecordOK(Envelope(e))
  BY <1>3, <1>4, <1>5 DEF RecordOK
<1> QED
  BY <1>1, <1>3, <1>4, <1>5, <1>6

(* A swap is of two committed executions, in the order of their States.  *)
LEMMA SwapRecordOK ==
  ASSUME SessionsInv, NEW before \in Envelopes, NEW after \in Envelopes,
         Swaps(before, after)
  PROVE  LET r == Record([kind |-> "swap", from |-> before, to |-> after], before.unit) IN
         r \in SessionRecords /\ RecordOK(r)
<1>1. PICK key : key = [kind |-> "swap", from |-> before, to |-> after]
  OBVIOUS
<1>2. /\ before \in EnvelopeKeys /\ after \in EnvelopeKeys
      /\ Committed(before) /\ Committed(after)
  BY UnitsTyped DEF EnvelopeForward
<1>3. key \in SwapKeys /\ key.kind = "swap" /\ key.from = before /\ key.to = after
  BY <1>1, <1>2 DEF SwapKeys
<1>4. before.unit \in UnitKeys
  BY <1>2 DEF EnvelopeKeys
<1>5. PICK r : r = Record(key, before.unit)
  OBVIOUS
<1>6. r \in SessionRecords /\ r.key = key
  BY <1>3, <1>4, <1>5 DEF Record, SessionRecords
<1>7. RecordOK(r)
  BY <1>2, <1>3, <1>6 DEF RecordOK, Swaps
<1> QED
  BY <1>1, <1>5, <1>6, <1>7

(* A recovery names the State it was made on.                            *)
LEMMA RecoveryRecordOK ==
  ASSUME NEW unit \in UnitKeys, NEW on \in Snap, Real(on)
  PROVE  LET r == Record([kind |-> "recovery", unit |-> unit, on |-> on], unit) IN
         r \in SessionRecords /\ RecordOK(r)
<1>1. PICK key : key = [kind |-> "recovery", unit |-> unit, on |-> on]
  OBVIOUS
<1>2. key \in RecoveryKeys /\ key.kind = "recovery" /\ key.on = on
  BY <1>1 DEF RecoveryKeys
<1>3. PICK r : r = Record(key, unit)
  OBVIOUS
<1>4. r \in SessionRecords /\ r.key = key
  BY <1>2, <1>3 DEF Record, SessionRecords
<1>5. RecordOK(r)
  BY <1>2, <1>4 DEF RecordOK
<1> QED
  BY <1>1, <1>3, <1>4, <1>5

(* An agent is started on the State there is, and released at any time. *)
LEMMA AgentKeeps ==
  ASSUME SessionsInv, NEW s \in Sessions, StartAgent(s) \/ Release(s) \/ AdapterRaises(s)
  PROVE  SessionsInv'
<1>1. NoSession \in SessionType /\ NoSession.pc = "released"
  BY DEF NoSession, SessionType
<1>2. UNCHANGED storeVars
  BY DEF StartAgent, Release, AdapterRaises
<1>3. CASE StartAgent(s)
  <2>1. PICK held \in Snap : held = Snapshot /\ Real(held)
    BY SnapshotReal DEF SessionsInv
  <2>2. PICK r : r = [NoSession EXCEPT !.pc = "active", !.held = held]
    OBVIOUS
  <2>3. r \in SessionType /\ r.pc = "active" /\ r.held = held
    BY <1>1, <2>2 DEF SessionType
  <2>4. Be(s, r)
    BY <1>3, <2>1, <2>2 DEF StartAgent
  <2> QED
    BY <1>2, <2>1, <2>3, <2>4, SessionStepKeeps
<1>4. CASE Release(s)
  BY <1>1, <1>2, <1>4, SessionStepKeeps DEF Release
<1>5. CASE AdapterRaises(s)
  <2>1. PICK r : r = [session[s] EXCEPT !.pc = "active"]
    OBVIOUS
  <2>2. /\ session[s] \in SessionType /\ session[s].held \in Snap
        /\ Real(session[s].held)
    BY <1>5 DEF SessionsInv, SessionOK, AdapterRaises
  <2>3. r \in SessionType /\ r.pc = "active" /\ r.held = session[s].held
    BY <2>1, <2>2 DEF SessionType
  <2>4. Be(s, r)
    BY <1>5, <2>1 DEF AdapterRaises
  <2> QED
    BY <1>2, <2>2, <2>3, <2>4, SessionStepKeeps
<1> QED
  BY <1>3, <1>4, <1>5

(* A unit is executed on the State found by the call, which its agent and  *)
(* the unit are not ahead of.                                              *)
LEMMA ExecuteKeeps ==
  ASSUME SessionsInv, NEW s \in Sessions, NEW u \in WorkUnits, Execute(s, u)
  PROVE  SessionsInv'
<1>1. PICK seen \in Snap : seen = Snapshot /\ Real(seen) /\ seen.revision = Revision
  BY SnapshotReal DEF SessionsInv
<1>2. u \in UnitKeys /\ Committed(u) /\ u.opened.revision <= seen.revision
  BY <1>1, UnitsTyped DEF Execute, Resumes
<1>3. /\ session[s] \in SessionType /\ session[s].held \in Snap
      /\ Real(session[s].held)
  BY DEF SessionsInv, SessionOK, Execute, Idle
<1>4. PICK r : r = [session[s] EXCEPT !.pc = "adapter", !.unit = u, !.seen = seen]
  OBVIOUS
<1>5. /\ r \in SessionType /\ r.pc = "adapter" /\ r.held = session[s].held
      /\ r.unit = u /\ r.seen = seen
  BY <1>2, <1>3, <1>4 DEF SessionType
<1>6. Be(s, r) /\ UNCHANGED storeVars
  BY <1>1, <1>4, Zenon DEF Execute, ExecutionState
<1> QED
  BY <1>1, <1>2, <1>3, <1>5, <1>6, SessionStepKeeps

(* The records of a call are committed, or the call raises. *)
LEMMA CommitPendingKeeps ==
  ASSUME SessionsInv, NEW s \in Sessions, CommitPending(s)
  PROVE  SessionsInv'
<1>1. PICK r : r = [session[s] EXCEPT !.pc = "active", !.pending = {}]
  OBVIOUS
<1>2. /\ session[s] \in SessionType /\ session[s].held \in Snap
      /\ Real(session[s].held) /\ \A n \in session[s].pending : RecordOK(n)
  BY DEF SessionsInv, SessionOK, CommitPending
<1>3. r \in SessionType /\ r.pc = "active" /\ r.held = session[s].held
  BY <1>1, <1>2 DEF SessionType
<1>4. Be(s, r)
  BY <1>1, Zenon DEF CommitPending
<1>5. CASE CommitRaises
  BY <1>2, <1>3, <1>4, <1>5, SessionStepKeeps DEF CommitRaises
<1>6. CASE CommitRecords(session[s].pending)
  <2>1. StoreGrows /\ RecordsOK'
    BY <1>2, <1>6, CommitGrows, RecordsCommit DEF SessionsInv
  <2>2. /\ \A snapshot : Real(snapshot) => Real(snapshot)'
        /\ \A x : RecordOK(x) => RecordOK(x)'
        /\ \A key : Committed(key) => Committed(key)'
    BY <2>1, RecordStays DEF StoreGrows
  <2>3. /\ session' \in [Sessions -> SessionType] /\ session'[s] = r
        /\ \A t \in Sessions \ {s} : session'[t] = session[t]
    BY <1>3, <1>4 DEF SessionsInv, Be
  <2>4. ASSUME NEW t \in Sessions PROVE SessionOK(t)'
    <3>1. CASE t = s
      BY <1>2, <1>3, <2>2, <2>3, <3>1 DEF SessionOK
    <3>2. CASE t # s
      BY <2>2, <2>3, <3>2 DEF SessionsInv, SessionOK
    <3> QED
      BY <3>1, <3>2
  <2> QED
    BY <2>1, <2>3, <2>4 DEF SessionsInv, StoreGrows
<1> QED
  BY <1>5, <1>6 DEF CommitPending

(* Every step of the sessions. *)
LEMMA RuntimeKeeps == SessionsInv /\ RuntimeNext => SessionsInv'
<1> SUFFICES ASSUME SessionsInv, NEW s \in Sessions,
               \/ StartAgent(s) \/ Release(s) \/ OpenWorkUnit(s)
               \/ \E u \in WorkUnits : Execute(s, u) \/ Recover(s, u)
               \/ \E a \in Adapters, n \in Normalized : AdapterReturns(s, a, n)
               \/ AdapterRaises(s)
               \/ \E before, after \in Envelopes : RecordSwap(s, before, after)
               \/ CommitPending(s)
             PROVE  SessionsInv'
  BY DEF RuntimeNext
<1>1. CASE OpenWorkUnit(s)
  <2>1. session[s].held \in Snap /\ Real(session[s].held) /\ session[s].pc = "active"
    BY <1>1 DEF SessionsInv, SessionOK, OpenWorkUnit, Idle
  <2>2. /\ UnitRecords(session[s].held) \in SUBSET SessionRecords
        /\ \A n \in UnitRecords(session[s].held) : RecordOK(n)
    BY <2>1, UnitRecordOK
  <2> QED
    BY <1>1, <2>1, <2>2, PreparedKeeps DEF OpenWorkUnit
<1>2. ASSUME NEW u \in WorkUnits, Recover(s, u) PROVE SessionsInv'
  <2>1. PICK r : r = Record([kind |-> "recovery", unit |-> u, on |-> Snapshot], u)
    OBVIOUS
  <2>2. r \in SessionRecords /\ RecordOK(r)
    BY <2>1, UnitsTyped, SnapshotReal, RecoveryRecordOK DEF SessionsInv
  <2>3. Prepared(s, {r}) /\ session[s].pc # "released"
    BY <1>2, <2>1 DEF Recover, Idle
  <2>4. {r} \in SUBSET SessionRecords /\ \A n \in {r} : RecordOK(n)
    BY <2>2
  <2> QED
    BY <2>3, <2>4, PreparedKeeps
<1>3. ASSUME NEW a \in Adapters, NEW n \in Normalized, AdapterReturns(s, a, n)
      PROVE  SessionsInv'
  <2>1. PICK e : e = EnvelopeKey(session[s].unit, session[s].seen, a, n.outcome, n.candidate)
    OBVIOUS
  <2>2. /\ session[s].seen \in Snap /\ Real(session[s].seen)
        /\ session[s].unit \in UnitKeys /\ Committed(session[s].unit)
        /\ session[s].unit.opened.revision <= session[s].seen.revision
    BY <1>3 DEF AdapterReturns, SessionsInv, SessionOK
  <2>3. Envelope(e) \in SessionRecords /\ RecordOK(Envelope(e))
    BY <2>1, <2>2, EnvelopeRecordOK
  <2>4. Prepared(s, {Envelope(e)}) /\ session[s].pc # "released"
    BY <1>3, <2>1 DEF AdapterReturns
  <2>5. {Envelope(e)} \in SUBSET SessionRecords /\ \A x \in {Envelope(e)} : RecordOK(x)
    BY <2>3
  <2> QED
    BY <2>4, <2>5, PreparedKeeps
<1>4. ASSUME NEW before \in Envelopes, NEW after \in Envelopes, RecordSwap(s, before, after)
      PROVE  SessionsInv'
  <2>1. PICK r : r = Record([kind |-> "swap", from |-> before, to |-> after], before.unit)
    OBVIOUS
  <2>2. r \in SessionRecords /\ RecordOK(r)
    BY <1>4, <2>1, SwapRecordOK DEF RecordSwap
  <2>3. Prepared(s, {r}) /\ session[s].pc # "released"
    BY <1>4, <2>1 DEF RecordSwap, Idle
  <2>4. {r} \in SUBSET SessionRecords /\ \A n \in {r} : RecordOK(n)
    BY <2>2
  <2> QED
    BY <2>3, <2>4, PreparedKeeps
<1> QED
  BY <1>1, <1>2, <1>3, <1>4, AgentKeeps, ExecuteKeeps, CommitPendingKeeps

(* The invariant says what is checked. *)
LEMMA SessionsInvSound == SessionsInv => SessionsSound
<1> SUFFICES ASSUME SessionsInv PROVE SessionsSound
  OBVIOUS
<1>1. SnapshotsAreReal
  BY DEF SessionsInv, RecordsOK, RecordOK, EnvelopeForward, SnapshotsAreReal
<1>2. \A e \in Envelopes : EnvelopeForward(e)
  BY UnitsTyped
<1>3. OnlyForward
  BY <1>2 DEF SessionsInv, RecordsOK, RecordOK, EnvelopeForward, OnlyForward
<1> QED
  BY <1>1, <1>3 DEF SessionsSound

-----------------------------------------------------------------------------
(* The plan and its calls: the invariant. *)

ResultType ==
    {x \in [by : Calls, envelope : EnvelopeKeys] :
        x.envelope.candidate = None <=> x.envelope.outcome # "CANDIDATE_ACCEPTED"}

FoundType ==
    {x \in [outcome : {"CANDIDATE_ACCEPTED", "INCOMPLETE_EVIDENCE", "TIMEOUT", "UNAVAILABLE"},
            candidate : Candidates \cup {None}, envelope : EnvelopeKeys \cup {None}] :
        x.candidate = None <=> x.outcome # "CANDIDATE_ACCEPTED"}

OpenerType == [pc : {"active", "unit", "plan", "done"}, held : Snap, unit : Snap \cup {None}]

CallType ==
    [pc : Ended \cup {"output", "claim", "start", "wait", "blocked", "failed",
                      "settle", "conflicts", "aggregate"},
     proc : Calls \cup {None}, slot : 0..Slots + 1, found : FoundType \cup {None},
     crowded : BOOLEAN]

ThreadType ==
    [pc : {"none", "adapter", "answered", "committing", "done", "raised"},
     gate : {"free", "thread", "coordinator"}, result : ResultType \cup {None}]

Waiting == {"wait", "blocked"}
Deciding == {"claim", "start", "wait", "blocked", "failed", "settle"}

(* The keys whose bodies a later step reads: one body each. *)
PlanKeys ==
    {PlanKey} \cup {ClaimKey(s) : s \in SlotSet}
    \cup {OutputKey(s) : s \in SlotSet} \cup {ReleaseKey(s) : s \in SlotSet}

BodiesUnique ==
    \A r, n \in records : r.key \in PlanKeys /\ r.key = n.key => r.body = n.body

(* A plan pins one State, which the Store had. *)
PlanBodyOK(p) ==
    p.boot \in Snap /\ p.unit = p.boot /\ Real(p.boot) /\ p.adapter = PlanAdapter

ClaimsOK == \A s \in SlotSet : Claimed(s) => Claim(s) \in ResultType

(* What the plan's records say. *)
PlanRecordsOK ==
    /\ BodiesUnique /\ ClaimsOK
    /\ Committed(PlanKey) => PlanBodyOK(Plan)
    /\ AcceptedIsWitnessed /\ EvidenceUnanimous

OpenerOK ==
    /\ opener \in OpenerType /\ Real(opener.held)
    /\ opener.pc = "plan" => opener.unit = opener.held

(* What a call is about to settle a slot with names the slot's claim, or   *)
(* no envelope.                                                            *)
FoundOK(s, o) ==
    /\ o \in FoundType
    /\ o.envelope # None => Claimed(s) /\ o.envelope = Claim(s).envelope

(* A thread past its adapter has a result; it commits only with the gate,  *)
(* and is done only when its claim is there.                               *)
ThreadOK(s, t) ==
    /\ t.pc \in {"answered", "committing", "done"} =>
          t.result \in ResultType /\ EnvelopeForward(t.result.envelope)
    /\ t.pc = "done" => Claimed(s) /\ Claim(s) = t.result
    /\ t.gate = "thread" => t.pc \in {"committing", "done", "raised"}
    /\ t.pc \in {"committing", "done"} => t.gate = "thread"

(* A call and its threads: a thread that the coordinator has not given up  *)
(* is the one that its call waits for.                                     *)
CallOK(k, row) ==
    /\ k.pc \in Deciding \cup {"output"} => k.slot \in SlotSet
    /\ k.pc = "idle" => ~k.crowded
    /\ k.pc \in Waiting =>
          row[k.slot].pc # "none" /\ row[k.slot].gate # "coordinator"
    /\ k.pc = "blocked" => row[k.slot].pc \in {"committing", "done", "raised"}
    /\ k.pc = "settle" => FoundOK(k.slot, k.found)
    /\ \A s \in SlotSet :
          /\ ThreadOK(s, row[s])
          /\ row[s].pc # "none" /\ row[s].gate # "coordinator" =>
                k.pc \in Waiting /\ k.slot = s

(* A call that nobody overlaps knows its slot: no output before its own,   *)
(* no claim but its own thread's or the one it has found.                  *)
AloneOK(k, row) ==
    /\ k.pc \in Deciding => ~Settled(k.slot)
    /\ k.pc = "start" => ~Claimed(k.slot)
    /\ k.pc = "wait" /\ row[k.slot].gate = "free" => ~Claimed(k.slot)
    /\ k.pc = "settle" /\ Claimed(k.slot) =>
          k.found.envelope = Claim(k.slot).envelope

SlotFact(s) ==
    Claimed(s) /\ Settled(s) => SlotOutput(s).envelope = Claim(s).envelope

CallsInv ==
    /\ call \in [Calls -> CallType]
    /\ thread \in [Calls -> [SlotSet -> ThreadType]]
    /\ \A c \in Calls : CallOK(call[c], thread[c])
    /\ NeverCrowded =>
          /\ \A c, d \in InFlight : c = d
          /\ \A c \in Calls : AloneOK(call[c], thread[c])
          /\ \A s \in SlotSet : SlotFact(s)

PlanInv == SessionsInv /\ PlanRecordsOK /\ OpenerOK /\ CallsInv

-----------------------------------------------------------------------------
(* The plan's records. *)

(* The keys of a plan differ from one another and from all other kinds.    *)
LEMMA PlanKeysDiffer ==
  /\ PlanKey.kind = "plan"
  /\ \A s \in SlotSet :
        /\ ClaimKey(s).kind = "claim" /\ ClaimKey(s).slot = s
        /\ OutputKey(s).kind = "slot_output" /\ OutputKey(s).slot = s
        /\ ReleaseKey(s).kind = "release_receipt" /\ ReleaseKey(s).slot = s
  /\ \A key \in PlanKeys :
        key.kind \in {"plan", "claim", "slot_output", "release_receipt"}
BY DEF PlanKey, ClaimKey, OutputKey, ReleaseKey, PlanKeys

(* A committed body is the one its record has. *)
LEMMA BodyIs ==
  ASSUME BodiesUnique, NEW r \in records, r.key \in PlanKeys
  PROVE  Body(r.key) = r.body
<1>1. PICK c : c = (CHOOSE s \in records : s.key = r.key)
  OBVIOUS
<1>2. c \in records /\ c.key = r.key
  BY <1>1
<1>3. c.body = r.body
  BY <1>2 DEF BodiesUnique
<1> QED
  BY <1>1, <1>3 DEF Body

(* One key after a step: as before, or committed by it. *)
KeyStays(key) ==
    /\ Committed(key)' <=> Committed(key)
    /\ Committed(key) => Body(key)' = Body(key)

(* What a commit does to the plan's keys. *)
LEMMA PlanCommit ==
  ASSUME HistoryOK, BodiesUnique, NEW new, CommitRecords(new),
         \A m, n \in new : m.key \in PlanKeys /\ m.key = n.key => m.body = n.body
  PROVE  /\ BodiesUnique'
         /\ \A key \in PlanKeys :
               /\ Committed(key)' <=> Committed(key) \/ \E n \in new : n.key = key
               /\ Committed(key) => (Body(key))' = Body(key)
         /\ \A n \in new : n.key \in PlanKeys => (Body(n.key))' = n.body
         /\ \A key \in PlanKeys : (\A n \in new : n.key # key) => KeyStays(key)
<1>1. /\ new \subseteq records' /\ \A r \in records' : r \in records \/ r \in new
      /\ \A key : Committed(key) => Committed(key)'
  BY CommitGrows DEF StoreGrows
<1>2. /\ \A r \in new, s \in records : r.key = s.key => r.body = s.body
      /\ records' = {r \in records : \A n \in new : r.key # n.key} \cup new
  BY DEF CommitRecords, Conflicts
<1>3. BodiesUnique'
  <2>1. ASSUME NEW r \in records', NEW s \in records', r.key \in PlanKeys, r.key = s.key
        PROVE  r.body = s.body
    BY <1>1, <1>2, <2>1 DEF BodiesUnique
  <2> QED
    BY <2>1 DEF BodiesUnique, PlanKeys, PlanKey, ClaimKey, OutputKey, ReleaseKey
<1>4. ASSUME NEW r \in records', r.key \in PlanKeys PROVE (Body(r.key))' = r.body
  <2>1. PICK c : c = (CHOOSE s \in records' : s.key = r.key)
    OBVIOUS
  <2>2. c \in records' /\ c.key = r.key
    BY <2>1
  <2>3. c.body = r.body
    BY <1>3, <1>4, <2>2 DEF BodiesUnique, PlanKeys, PlanKey, ClaimKey, OutputKey, ReleaseKey
  <2> QED
    BY <2>1, <2>3 DEF Body
<1>5. ASSUME NEW key \in PlanKeys, Committed(key) PROVE (Body(key))' = Body(key)
  <2>1. PICK r \in records : r.key = key
    BY <1>5 DEF Committed
  <2>2. CASE \E n \in new : n.key = key
    <3>1. PICK n \in new : n.key = key
      BY <2>2
    <3>2. n.body = r.body /\ n \in records'
      BY <1>1, <1>2, <2>1, <3>1
    <3>3. (Body(n.key))' = n.body /\ Body(r.key) = r.body
      BY <1>4, <2>1, <3>1, <3>2, BodyIs
    <3> QED
      BY <2>1, <3>1, <3>2, <3>3
  <2>3. CASE \A n \in new : n.key # key
    <3>1. r \in records'
      BY <1>2, <2>1, <2>3
    <3>2. (Body(r.key))' = r.body /\ Body(r.key) = r.body
      BY <1>4, <2>1, <3>1, BodyIs
    <3> QED
      BY <2>1, <3>2
  <2> QED
    BY <2>2, <2>3
<1>6. \A key \in PlanKeys : Committed(key)' <=> Committed(key) \/ \E n \in new : n.key = key
  BY <1>1 DEF Committed
<1>7. \A n \in new : n.key \in PlanKeys => (Body(n.key))' = n.body
  BY <1>1, <1>4
<1>8. \A key \in PlanKeys : (\A n \in new : n.key # key) => KeyStays(key)
  BY <1>5, <1>6 DEF KeyStays
<1> QED
  BY <1>3, <1>5, <1>6, <1>7, <1>8

(* The receipts of a hand-off stay what they are: all it names is settled. *)
ReceiptOK(b) ==
    /\ \A s \in SlotSet : Settled(s) /\ Committed(ReleaseKey(s))
    /\ b.evidence # {} => Cardinality(Fingerprints) = 1
    /\ \A e \in b.evidence : \E s \in SlotSet : SlotOutput(s).envelope = e

(* Committed bodies do not change. *)
PlanGrows ==
    \A key \in PlanKeys : Committed(key) => Committed(key)' /\ Body(key)' = Body(key)

(* What a hand-off found is settled, and so is there for good.           *)
LEMMA ReceiptStays ==
  ASSUME PlanGrows, NEW b, ReceiptOK(b)
  PROVE  ReceiptOK(b)'
<1>1. \A s \in SlotSet : OutputKey(s) \in PlanKeys /\ ReleaseKey(s) \in PlanKeys
  BY DEF PlanKeys
<1>2. \A s \in SlotSet : Settled(s)' /\ Committed(ReleaseKey(s))' /\ SlotOutput(s)' = SlotOutput(s)
  BY <1>1 DEF ReceiptOK, PlanGrows, Settled, SlotOutput
<1>3. Accepted' = Accepted
  BY <1>2 DEF Accepted
<1>4. Fingerprints' = Fingerprints
  <2>1. \A s \in Accepted : s \in SlotSet
    BY DEF Accepted
  <2> QED
    BY <1>2, <1>3, <2>1 DEF Fingerprints
<1> QED
  BY <1>2, <1>4 DEF ReceiptOK

(* EvidenceUnanimous, record by record.                                  *)
LEMMA EvidenceIs ==
  EvidenceUnanimous <=> \A r \in records : r.key.kind = "orchestration_receipt" => ReceiptOK(r.body)
BY DEF EvidenceUnanimous, ReceiptOK

(* The records a commit adds to sound ones: what each must see to.         *)
LEMMA PlanRecordsCommit ==
  ASSUME HistoryOK, PlanRecordsOK, NEW new, CommitRecords(new),
         \A m, n \in new : m.key \in PlanKeys /\ m.key = n.key => m.body = n.body,
         \A n \in new : n.key = PlanKey => PlanBodyOK(n.body),
         \A n \in new, s \in SlotSet : n.key = ClaimKey(s) => n.body \in ResultType,
         \A n \in new, s \in SlotSet : n.key = OutputKey(s) /\ n.body.envelope # None =>
            Claimed(s) /\ n.body.envelope = Claim(s).envelope,
         \A n \in new : n.key.kind = "orchestration_receipt" => ReceiptOK(n.body)
  PROVE  PlanRecordsOK' /\ PlanGrows
<1>1. /\ StoreGrows /\ \A r \in records' : r \in records \/ r \in new
  BY CommitGrows
<1>2. /\ BodiesUnique'
      /\ \A key \in PlanKeys :
            /\ Committed(key)' <=> Committed(key) \/ \E n \in new : n.key = key
            /\ Committed(key) => Body(key)' = Body(key)
      /\ \A n \in new : n.key \in PlanKeys => Body(n.key)' = n.body
  BY PlanCommit DEF PlanRecordsOK
<1>3. PlanGrows
  BY <1>2 DEF PlanGrows
<1>4. PlanKey \in PlanKeys
      /\ \A s \in SlotSet : ClaimKey(s) \in PlanKeys /\ OutputKey(s) \in PlanKeys
  BY DEF PlanKeys
<1>5. ClaimsOK'
  <2>1. ASSUME NEW s \in SlotSet, Claimed(s)' PROVE Claim(s)' \in ResultType
    <3>1. CASE Claimed(s)
      BY <1>2, <1>4, <3>1 DEF Claimed, Claim, ClaimsOK, PlanRecordsOK
    <3>2. CASE ~Claimed(s)
      <4>1. PICK n \in new : n.key = ClaimKey(s)
        BY <1>2, <1>4, <2>1, <3>2 DEF Claimed
      <4> QED
        BY <1>2, <1>4, <4>1 DEF Claim
    <3> QED
      BY <3>1, <3>2
  <2> QED
    BY <2>1 DEF ClaimsOK
<1>6. Committed(PlanKey)' => PlanBodyOK(Plan)'
  <2>1. \A p : PlanBodyOK(p) => PlanBodyOK(p)'
    BY <1>1, RecordStays DEF PlanBodyOK
  <2>2. CASE Committed(PlanKey)
    BY <1>2, <1>4, <2>1, <2>2 DEF Plan, PlanRecordsOK
  <2>3. CASE Committed(PlanKey)' /\ ~Committed(PlanKey)
    <3>1. PICK n \in new : n.key = PlanKey
      BY <1>2, <1>4, <2>3
    <3>2. Plan' = n.body
      BY <1>2, <1>4, <3>1 DEF Plan
    <3>3. PlanBodyOK(n.body)
      BY <3>1
    <3> QED
      BY <2>1, <3>2, <3>3
  <2> QED
    BY <2>2, <2>3
<1>7. AcceptedIsWitnessed'
  <2>1. ASSUME NEW s \in SlotSet, Settled(s)', SlotOutput(s)'.envelope # None
        PROVE  Claimed(s)' /\ SlotOutput(s)'.envelope = Claim(s)'.envelope
    <3>1. Claimed(s) => Claimed(s)' /\ Claim(s)' = Claim(s)
      BY <1>2, <1>4 DEF Claimed, Claim
    <3>2. CASE Settled(s)
      <4>1. SlotOutput(s)' = SlotOutput(s)
        BY <1>2, <1>4, <3>2 DEF Settled, SlotOutput
      <4> QED
        BY <2>1, <3>1, <3>2, <4>1 DEF AcceptedIsWitnessed, PlanRecordsOK
    <3>3. CASE ~Settled(s)
      <4>1. PICK n \in new : n.key = OutputKey(s)
        BY <1>2, <1>4, <2>1, <3>3 DEF Settled
      <4>2. SlotOutput(s)' = n.body
        BY <1>2, <1>4, <4>1 DEF SlotOutput
      <4> QED
        BY <2>1, <3>1, <4>1, <4>2
    <3> QED
      BY <3>2, <3>3
  <2> QED
    BY <2>1 DEF AcceptedIsWitnessed
<1>8. EvidenceUnanimous'
  <2>1. \A b : ReceiptOK(b) => ReceiptOK(b)'
    BY <1>3, ReceiptStays
  <2>2. \A r \in records' : r.key.kind = "orchestration_receipt" => ReceiptOK(r.body)'
    BY <1>1, <2>1, EvidenceIs DEF PlanRecordsOK
  <2> QED
    BY <2>2 DEF EvidenceUnanimous, ReceiptOK
<1> QED
  BY <1>2, <1>3, <1>5, <1>6, <1>7, <1>8 DEF PlanRecordsOK

(* A step that adds neither a claim nor an output. *)
PlanStays == \A s \in SlotSet : KeyStays(ClaimKey(s)) /\ KeyStays(OutputKey(s))

(* ... and of the records that were there, nothing changes.              *)
LEMMA PlanRecordsStay ==
  ASSUME PlanRecordsOK, StoreGrows, records' = records
  PROVE  PlanRecordsOK' /\ PlanGrows /\ PlanStays
<1>1. \A key : (Committed(key)' <=> Committed(key)) /\ Body(key)' = Body(key)
  BY DEF Committed, Body
<1>2. PlanGrows /\ PlanStays
  BY <1>1 DEF PlanGrows, PlanStays, KeyStays
<1>3. BodiesUnique'
  BY DEF PlanRecordsOK, BodiesUnique, PlanKeys, PlanKey, ClaimKey, OutputKey, ReleaseKey
<1>4. ClaimsOK' /\ AcceptedIsWitnessed'
  BY <1>1 DEF PlanRecordsOK, ClaimsOK, AcceptedIsWitnessed, Claimed, Claim, Settled, SlotOutput
<1>5. Committed(PlanKey)' => PlanBodyOK(Plan)'
  <2>1. \A p : PlanBodyOK(p) => PlanBodyOK(p)'
    BY RecordStays DEF PlanBodyOK
  <2> QED
    BY <1>1, <2>1 DEF PlanRecordsOK, Plan
<1>6. EvidenceUnanimous'
  <2>1. \A b : ReceiptOK(b) => ReceiptOK(b)'
    BY <1>2, ReceiptStays
  <2>2. \A r \in records' : r.key.kind = "orchestration_receipt" => ReceiptOK(r.body)'
    BY <2>1, EvidenceIs DEF PlanRecordsOK
  <2> QED
    BY <2>2 DEF EvidenceUnanimous, ReceiptOK
<1> QED
  BY <1>2, <1>3, <1>4, <1>5, <1>6 DEF PlanRecordsOK

(* Records of other kinds leave the plan's alone. *)
LEMMA PlanRecordsBeside ==
  ASSUME HistoryOK, PlanRecordsOK, NEW new, CommitRecords(new),
         \A n \in new : n.key.kind \notin
           {"plan", "claim", "slot_output", "release_receipt", "orchestration_receipt"}
  PROVE  PlanRecordsOK' /\ PlanGrows /\ PlanStays
<1>1. \A n \in new : n.key \notin PlanKeys /\ n.key.kind # "orchestration_receipt"
  BY PlanKeysDiffer
<1>2. PlanKey \in PlanKeys
      /\ \A s \in SlotSet : ClaimKey(s) \in PlanKeys /\ OutputKey(s) \in PlanKeys
  BY DEF PlanKeys
<1>3. PlanRecordsOK' /\ PlanGrows
  BY <1>1, <1>2, PlanRecordsCommit
<1>4. PlanStays
  BY <1>1, <1>2, PlanCommit DEF PlanStays, PlanRecordsOK
<1> QED
  BY <1>3, <1>4

-----------------------------------------------------------------------------
(* The calls of a plan. *)

(* select_agent_slots: one to three.                                     *)
LEMMA SlotsAre == Slots \in Nat /\ Slots \in 1..3 /\ SlotSet = 1..Slots
BY RiskAssumption DEF Slots, SlotSet

(* A claim is never replaced.                                            *)
LEMMA ClaimGrows ==
  ASSUME PlanGrows, NEW s \in SlotSet, Claimed(s)
  PROVE  Claimed(s)' /\ Claim(s)' = Claim(s)
BY DEF PlanGrows, PlanKeys, Claimed, Claim

(* ... and without a claim or an output added, each slot stays as it is. *)
LEMMA SlotStays ==
  ASSUME PlanStays, NEW s \in SlotSet
  PROVE  /\ Claimed(s)' <=> Claimed(s)
         /\ Claimed(s) => Claim(s)' = Claim(s)
         /\ Settled(s)' <=> Settled(s)
         /\ Settled(s) => SlotOutput(s)' = SlotOutput(s)
BY DEF PlanStays, KeyStays, Claimed, Claim, Settled, SlotOutput

(* What is true of a call and its threads stays so when records are added. *)
LEMMA CallStays ==
  ASSUME StoreGrows, PlanGrows, NEW k, NEW row, CallOK(k, row)
  PROVE  CallOK(k, row)'
<1>1. \A s \in SlotSet : Claimed(s) => Claimed(s)' /\ Claim(s)' = Claim(s)
  BY ClaimGrows
<1>2. \A e : EnvelopeForward(e) => EnvelopeForward(e)'
  BY RecordStays
<1>3. \A s \in SlotSet : \A o : FoundOK(s, o) => FoundOK(s, o)'
  BY <1>1 DEF FoundOK
<1>4. \A s \in SlotSet : \A t : ThreadOK(s, t) => ThreadOK(s, t)'
  BY <1>1, <1>2 DEF ThreadOK
<1>5. k.pc = "settle" => FoundOK(k.slot, k.found)'
  BY <1>3 DEF CallOK, Deciding
<1> QED
  BY <1>4, <1>5 DEF CallOK

(* ... and of a call that nobody overlaps, when none is the plan's.        *)
LEMMA AloneStays ==
  ASSUME PlanStays, NEW k, NEW row, CallOK(k, row), AloneOK(k, row)
  PROVE  AloneOK(k, row)'
<1>1. \A s \in SlotSet :
         /\ Claimed(s)' <=> Claimed(s)
         /\ Claimed(s) => Claim(s)' = Claim(s)
         /\ Settled(s)' <=> Settled(s)
  BY SlotStays
<1> QED
  BY <1>1 DEF AloneOK, CallOK, Deciding

(* The one terminal fact of a slot is not lost by others.                *)
LEMMA SlotFactStays ==
  ASSUME PlanStays, NEW s \in SlotSet, SlotFact(s)
  PROVE  SlotFact(s)'
BY SlotStays DEF SlotFact

(* A step of none of the calls. *)
LEMMA CallsStay ==
  ASSUME CallsInv, StoreGrows, PlanGrows, PlanStays, UNCHANGED <<call, thread>>
  PROVE  CallsInv'
<1>1. \A c \in Calls : CallOK(call[c], thread[c])'
  BY CallStays DEF CallsInv
<1>2. NeverCrowded' => NeverCrowded
  BY DEF NeverCrowded
<1>3. NeverCrowded => \A c \in Calls : AloneOK(call[c], thread[c])'
  BY AloneStays DEF CallsInv
<1>4. NeverCrowded => \A s \in SlotSet : SlotFact(s)'
  BY SlotFactStays DEF CallsInv
<1>5. InFlight' = InFlight
  BY DEF InFlight
<1> QED
  BY <1>1, <1>2, <1>3, <1>4, <1>5 DEF CallsInv

(* A step of one call or of one of its threads.  It may settle or claim    *)
(* only when the call is in flight, and so the only one, if none overlap.  *)
LEMMA CallKeeps ==
  ASSUME CallsInv, StoreGrows, PlanGrows, NEW c \in Calls, NEW r \in CallType,
         NEW row \in [SlotSet -> ThreadType],
         call' = [call EXCEPT ![c] = r], thread' = [thread EXCEPT ![c] = row],
         r.crowded = call[c].crowded, CallOK(r, row)',
         r.pc \notin Ended => c \in InFlight,
         c \in InFlight \/ PlanStays,
         NeverCrowded => AloneOK(r, row)' /\ \A s \in SlotSet : SlotFact(s)'
  PROVE  CallsInv'
<1>1. /\ call' \in [Calls -> CallType] /\ thread' \in [Calls -> [SlotSet -> ThreadType]]
      /\ call'[c] = r /\ thread'[c] = row
      /\ \A d \in Calls \ {c} : call'[d] = call[d] /\ thread'[d] = thread[d]
  BY DEF CallsInv
<1>2. ASSUME NEW d \in Calls PROVE CallOK(call[d], thread[d])'
  <2>1. CASE d = c
    BY <1>1, <2>1
  <2>2. CASE d # c
    <3>1. CallOK(call[d], thread[d])
      BY DEF CallsInv
    <3>2. \A k, t : CallOK(k, t) => CallOK(k, t)'
      BY CallStays
    <3> QED
      BY <1>1, <2>2, <3>1, <3>2
  <2> QED
    BY <2>1, <2>2
<1>3. NeverCrowded' => NeverCrowded
  BY <1>1 DEF NeverCrowded
<1>4. \A d \in InFlight' : d \in InFlight
  BY <1>1 DEF InFlight
<1>5. ASSUME NeverCrowded, NEW d \in Calls PROVE AloneOK(call[d], thread[d])'
  <2>1. CASE d = c
    BY <1>1, <1>5, <2>1
  <2>2. CASE d # c /\ c \in InFlight
    <3>1. call[d].pc \in Ended
      BY <1>5, <2>2 DEF CallsInv, InFlight
    <3>2. call'[d].pc \in Ended
      BY <1>1, <2>2, <3>1
    <3> QED
      BY <3>2 DEF AloneOK, Ended, Deciding
  <2>3. CASE d # c /\ PlanStays
    <3>1. CallOK(call[d], thread[d]) /\ AloneOK(call[d], thread[d])
      BY <1>5 DEF CallsInv
    <3>2. \A k, t : CallOK(k, t) /\ AloneOK(k, t) => AloneOK(k, t)'
      BY <2>3, AloneStays
    <3> QED
      BY <1>1, <2>3, <3>1, <3>2
  <2> QED
    BY <2>1, <2>2, <2>3
<1> QED
  BY <1>1, <1>2, <1>3, <1>4, <1>5 DEF CallsInv

(* One thread of a call is replaced. *)
LEMMA TurnIs ==
  ASSUME thread \in [Calls -> [SlotSet -> ThreadType]], NEW c \in Calls, NEW s \in SlotSet,
         NEW t \in ThreadType, Turn(c, s, t)
  PROVE  \E row \in [SlotSet -> ThreadType] :
            /\ row = [thread[c] EXCEPT ![s] = t]
            /\ thread' = [thread EXCEPT ![c] = row]
            /\ row[s] = t /\ \A x \in SlotSet \ {s} : row[x] = thread[c][x]
<1>1. PICK row : row = [thread[c] EXCEPT ![s] = t]
  OBVIOUS
<1>2. thread[c] \in [SlotSet -> ThreadType]
  OBVIOUS
<1>3. /\ row \in [SlotSet -> ThreadType] /\ row[s] = t
      /\ \A x \in SlotSet \ {s} : row[x] = thread[c][x]
  BY <1>1, <1>2
<1>4. thread' = [thread EXCEPT ![c] = row]
  BY <1>1, Zenon DEF Turn
<1> QED
  BY <1>1, <1>3, <1>4

(* A step of a call or its thread that leaves the Store alone. *)
LEMMA CallMoves ==
  ASSUME PlanInv, UNCHANGED storeVars, NEW c \in Calls, NEW r \in CallType,
         NEW row \in [SlotSet -> ThreadType],
         call' = [call EXCEPT ![c] = r], thread' = [thread EXCEPT ![c] = row],
         r.crowded = call[c].crowded, r.pc \notin Ended => c \in InFlight,
         CallOK(r, row), NeverCrowded => AloneOK(r, row)
  PROVE  CallsInv'
<1>1. StoreGrows /\ records' = records
  BY StoreStays DEF PlanInv, SessionsInv
<1>2. PlanGrows /\ PlanStays
  BY <1>1, PlanRecordsStay DEF PlanInv
<1>3. CallOK(r, row)'
  BY <1>1, <1>2, CallStays
<1>4. NeverCrowded => AloneOK(r, row)'
  BY <1>2, AloneStays
<1>5. NeverCrowded => \A s \in SlotSet : SlotFact(s)'
  BY <1>2, SlotFactStays DEF PlanInv, CallsInv
<1> QED
  BY <1>1, <1>2, <1>3, <1>4, <1>5, CallKeeps DEF PlanInv

(* ... of the coordinator while no thread of its own is waited for. *)
LEMMA CoordinatorMoves ==
  ASSUME PlanInv, UNCHANGED <<storeVars, thread>>, NEW c \in Calls, NEW r \in CallType,
         call' = [call EXCEPT ![c] = r], r.crowded = call[c].crowded,
         call[c].pc \notin Ended \cup Waiting, r.pc \notin {"idle"} \cup Waiting,
         r.pc \in Deciding \cup {"output"} => r.slot \in SlotSet,
         r.pc = "settle" => FoundOK(r.slot, r.found),
         NeverCrowded => AloneOK(r, thread[c])
  PROVE  CallsInv'
<1>1. /\ thread[c] \in [SlotSet -> ThreadType] /\ thread' = [thread EXCEPT ![c] = thread[c]]
      /\ CallOK(call[c], thread[c])
  BY DEF PlanInv, CallsInv
<1>2. CallOK(r, thread[c])
  BY <1>1 DEF CallOK, Waiting
<1>3. c \in InFlight
  BY DEF InFlight
<1> QED
  BY <1>1, <1>2, <1>3, CallMoves

(* The rest of the invariant, when neither the sessions nor the opener step.*)
LEMMA PlanKeeps ==
  ASSUME PlanInv, StoreGrows, RecordsOK', PlanRecordsOK', CallsInv',
         UNCHANGED <<session, opener>>
  PROVE  PlanInv'
<1>1. SessionsInv'
  BY SessionsKeep DEF PlanInv
<1>2. OpenerOK'
  BY RecordStays DEF PlanInv, OpenerOK
<1> QED
  BY <1>1, <1>2 DEF PlanInv

(* The same, when the Store is left alone.                               *)
LEMMA PlanKeepsStill ==
  ASSUME PlanInv, UNCHANGED storeVars, CallsInv', UNCHANGED <<session, opener>>
  PROVE  PlanInv'
<1>1. StoreGrows /\ records' = records
  BY StoreStays DEF PlanInv, SessionsInv
<1>2. PlanRecordsOK'
  BY <1>1, PlanRecordsStay DEF PlanInv
<1>3. RecordsOK'
  BY <1>1, RecordStays DEF PlanInv, SessionsInv, RecordsOK
<1> QED
  BY <1>1, <1>2, <1>3, PlanKeeps

(* What a call becomes. *)
LEMMA GotoIs ==
  ASSUME PlanInv, NEW c \in Calls, NEW pc, Goto(c, pc),
         pc \in Ended \cup Deciding \cup {"output", "conflicts", "aggregate"}
  PROVE  \E r \in CallType :
            /\ call' = [call EXCEPT ![c] = r] /\ r.pc = pc
            /\ r.slot = call[c].slot /\ r.found = call[c].found
            /\ r.crowded = call[c].crowded
<1>1. PICK r : r = [call[c] EXCEPT !.pc = pc]
  OBVIOUS
<1>2. call[c] \in CallType
  BY DEF PlanInv, CallsInv
<1>3. /\ r \in CallType /\ r.pc = pc /\ r.slot = call[c].slot
      /\ r.found = call[c].found /\ r.crowded = call[c].crowded
  BY <1>1, <1>2 DEF CallType, Deciding, Ended
<1>4. call' = [call EXCEPT ![c] = r]
  BY <1>1, Zenon DEF Goto, Become
<1> QED
  BY <1>3, <1>4

(* ... when it is about to settle its slot with o.                       *)
LEMMA SettleIs ==
  ASSUME PlanInv, NEW c \in Calls, NEW o \in FoundType, Settle(c, o)
  PROVE  \E r \in CallType :
            /\ call' = [call EXCEPT ![c] = r] /\ r.pc = "settle"
            /\ r.slot = call[c].slot /\ r.found = o /\ r.crowded = call[c].crowded
<1>1. PICK r : r = [call[c] EXCEPT !.pc = "settle", !.found = o]
  OBVIOUS
<1>2. call[c] \in CallType
  BY DEF PlanInv, CallsInv
<1>3. /\ r \in CallType /\ r.pc = "settle" /\ r.slot = call[c].slot
      /\ r.found = o /\ r.crowded = call[c].crowded
  BY <1>1, <1>2 DEF CallType
<1>4. call' = [call EXCEPT ![c] = r]
  BY <1>1, Zenon DEF Settle, Become
<1> QED
  BY <1>3, <1>4

(* ... and when the slot is settled: the next slot, the conflicts, or an error. *)
LEMMA NextIs ==
  ASSUME PlanInv, NEW c \in Calls, call[c].slot \in SlotSet, NextSlot(c)
  PROVE  \E r \in CallType :
            /\ call' = [call EXCEPT ![c] = r] /\ r.crowded = call[c].crowded
            /\ r.pc \in {"output", "conflicts", "raised"}
            /\ r.pc = "output" => r.slot \in SlotSet
<1>1. CASE Goto(c, "raised")
  <2>1. "raised" \in Ended \cup Deciding \cup {"output", "conflicts", "aggregate"}
    BY DEF Ended
  <2>2. PICK r \in CallType :
            /\ call' = [call EXCEPT ![c] = r] /\ r.pc = "raised"
            /\ r.crowded = call[c].crowded
    BY <1>1, <2>1, GotoIs
  <2> QED
    BY <2>2
<1>2. CASE ~Goto(c, "raised")
  <2>1. PICK pc : pc = IF call[c].slot = Slots THEN "conflicts" ELSE "output"
    OBVIOUS
  <2>2. PICK r : r = [call[c] EXCEPT !.slot = @ + 1, !.found = None, !.pc = pc]
    OBVIOUS
  <2>3. call[c] \in CallType
    BY DEF PlanInv, CallsInv
  <2>4. call[c].slot + 1 \in 0..Slots + 1 /\ (pc = "output" => call[c].slot + 1 \in SlotSet)
        /\ pc \in {"output", "conflicts"}
    BY <2>1, SlotsAre
  <2>5. /\ r \in CallType /\ r.pc = pc /\ r.slot = call[c].slot + 1
        /\ r.crowded = call[c].crowded
    BY <2>2, <2>3, <2>4 DEF CallType
  <2>6. call' = [call EXCEPT ![c] = r]
    BY <1>2, <2>1, <2>2, Zenon DEF NextSlot, Become
  <2> QED
    BY <2>4, <2>5, <2>6
<1> QED
  BY <1>1, <1>2

(* A settled slot is passed over; another is looked at for a claim. *)
LEMMA FindOutputKeeps ==
  ASSUME PlanInv, NEW c \in Calls, FindOutput(c)
  PROVE  CallsInv'
<1>1. /\ call[c].pc = "output" /\ UNCHANGED <<storeVars, thread>>
      /\ call[c].slot \in SlotSet
  BY DEF FindOutput, At, PlanInv, CallsInv, CallOK
<1>2. call[c].pc \notin Ended \cup Waiting
  BY <1>1 DEF Ended, Waiting
<1>3. CASE Settled(call[c].slot)
  <2>1. PICK r \in CallType :
            /\ call' = [call EXCEPT ![c] = r] /\ r.crowded = call[c].crowded
            /\ r.pc \in {"output", "conflicts", "raised"}
            /\ r.pc = "output" => r.slot \in SlotSet
    BY <1>1, <1>3, NextIs DEF FindOutput
  <2>2. AloneOK(r, thread[c]) /\ r.pc \notin {"idle"} \cup Waiting /\ r.pc # "settle"
        /\ (r.pc \in Deciding \cup {"output"} => r.slot \in SlotSet)
    BY <2>1 DEF AloneOK, Deciding, Waiting
  <2> QED
    BY <1>1, <1>2, <2>1, <2>2, CoordinatorMoves
<1>4. CASE ~Settled(call[c].slot)
  <2>1. "claim" \in Ended \cup Deciding \cup {"output", "conflicts", "aggregate"}
    BY DEF Deciding
  <2>2. PICK r \in CallType :
            /\ call' = [call EXCEPT ![c] = r] /\ r.pc = "claim"
            /\ r.slot = call[c].slot /\ r.crowded = call[c].crowded
    BY <1>4, <2>1, GotoIs DEF FindOutput
  <2>3. AloneOK(r, thread[c]) /\ r.pc \notin {"idle"} \cup Waiting
    BY <1>4, <2>2 DEF AloneOK, Waiting
  <2> QED
    BY <1>1, <1>2, <2>2, <2>3, CoordinatorMoves
<1> QED
  BY <1>3, <1>4

(* What a claim bears witness to. *)
LEMMA WitnessedIs ==
  ASSUME NEW x \in ResultType
  PROVE  Witnessed(x) \in FoundType /\ Witnessed(x).envelope = x.envelope
<1>1. PICK o : o = Witnessed(x)
  OBVIOUS
<1>2. x.envelope \in EnvelopeKeys
      /\ (x.envelope.candidate = None <=> x.envelope.outcome # "CANDIDATE_ACCEPTED")
  BY DEF ResultType
<1>3. /\ x.envelope.outcome \in {"CANDIDATE_ACCEPTED", "INCOMPLETE_EVIDENCE"}
      /\ x.envelope.candidate \in Candidates \cup {None}
  BY <1>2 DEF EnvelopeKeys
<1>4. o = [outcome |-> x.envelope.outcome, candidate |-> x.envelope.candidate,
           envelope |-> x.envelope]
  BY <1>1 DEF Witnessed
<1>5. /\ o.outcome = x.envelope.outcome /\ o.candidate = x.envelope.candidate
      /\ o.envelope = x.envelope
      /\ o \in [outcome : {"CANDIDATE_ACCEPTED", "INCOMPLETE_EVIDENCE", "TIMEOUT", "UNAVAILABLE"},
                candidate : Candidates \cup {None}, envelope : EnvelopeKeys \cup {None}]
  BY <1>2, <1>3, <1>4
<1>6. o \in FoundType
  BY <1>2, <1>5 DEF FoundType
<1> QED
  BY <1>1, <1>5, <1>6

(* A timeout, or no claim at all: no envelope is named.                  *)
LEMMA UnheardIs ==
  ASSUME NEW outcome \in {"TIMEOUT", "UNAVAILABLE"}
  PROVE  Unheard(outcome) \in FoundType /\ Unheard(outcome).envelope = None
BY DEF Unheard, FoundType

(* A claim without output is adopted; without either, the slot is started. *)
LEMMA FindClaimKeeps ==
  ASSUME PlanInv, NEW c \in Calls, FindClaim(c)
  PROVE  CallsInv'
<1>1. /\ call[c].pc = "claim" /\ UNCHANGED <<storeVars, thread>>
      /\ call[c].slot \in SlotSet
      /\ NeverCrowded => ~Settled(call[c].slot)
  BY DEF FindClaim, At, PlanInv, CallsInv, CallOK, AloneOK, Deciding
<1>2. call[c].pc \notin Ended \cup Waiting
  BY <1>1 DEF Ended, Waiting
<1>3. CASE Claimed(call[c].slot)
  <2>1. PICK o \in FoundType : o = Witnessed(Claim(call[c].slot))
                               /\ o.envelope = Claim(call[c].slot).envelope
    BY <1>1, <1>3, WitnessedIs DEF PlanInv, PlanRecordsOK, ClaimsOK
  <2>2. PICK r \in CallType :
            /\ call' = [call EXCEPT ![c] = r] /\ r.pc = "settle"
            /\ r.slot = call[c].slot /\ r.found = o /\ r.crowded = call[c].crowded
    BY <1>3, <2>1, SettleIs DEF FindClaim, Adoptable
  <2>3. NeverCrowded => AloneOK(r, thread[c])
    BY <1>1, <2>1, <2>2 DEF AloneOK
  <2>4. r.pc \notin {"idle"} \cup Waiting /\ FoundOK(r.slot, r.found)
    BY <1>3, <2>1, <2>2 DEF FoundOK, Waiting
  <2> QED
    BY <1>1, <1>2, <2>2, <2>3, <2>4, CoordinatorMoves
<1>4. CASE ~Claimed(call[c].slot)
  <2>1. "start" \in Ended \cup Deciding \cup {"output", "conflicts", "aggregate"}
    BY DEF Deciding
  <2>2. PICK r \in CallType :
            /\ call' = [call EXCEPT ![c] = r] /\ r.pc = "start"
            /\ r.slot = call[c].slot /\ r.crowded = call[c].crowded
    BY <1>4, <2>1, GotoIs DEF FindClaim, Adoptable
  <2>3. NeverCrowded => AloneOK(r, thread[c])
    BY <1>1, <1>4, <2>2 DEF AloneOK
  <2>4. r.pc \notin {"idle"} \cup Waiting
    BY <2>2 DEF Waiting
  <2> QED
    BY <1>1, <1>2, <2>2, <2>3, <2>4, CoordinatorMoves
<1> QED
  BY <1>3, <1>4

(* An attempt has a thread and a gate of its own, or fails at once. *)
LEMMA StartAttemptKeeps ==
  ASSUME PlanInv, NEW c \in Calls, StartAttempt(c)
  PROVE  CallsInv'
<1> DEFINE s == call[c].slot
<1>1. /\ call[c].pc = "start" /\ UNCHANGED storeVars /\ s \in SlotSet
      /\ thread[c] \in [SlotSet -> ThreadType] /\ CallOK(call[c], thread[c])
      /\ NeverCrowded => ~Settled(s) /\ ~Claimed(s)
  BY DEF StartAttempt, At, PlanInv, CallsInv, CallOK, AloneOK, Deciding
<1>2. call[c].pc \notin Ended \cup Waiting /\ c \in InFlight
  BY <1>1 DEF Ended, Waiting, InFlight
<1>3. CASE Goto(c, "wait") /\ Turn(c, s, NewThread)
  <2>1. "wait" \in Ended \cup Deciding \cup {"output", "conflicts", "aggregate"}
    BY DEF Deciding
  <2>2. PICK r \in CallType :
            /\ call' = [call EXCEPT ![c] = r] /\ r.pc = "wait"
            /\ r.slot = s /\ r.crowded = call[c].crowded
    BY <1>3, <2>1, GotoIs
  <2>3. /\ NewThread \in ThreadType /\ NewThread.pc = "adapter" /\ NewThread.gate = "free"
    BY DEF NewThread, NoThread, ThreadType
  <2>4. PICK row \in [SlotSet -> ThreadType] :
            /\ thread' = [thread EXCEPT ![c] = row] /\ row[s] = NewThread
            /\ \A x \in SlotSet \ {s} : row[x] = thread[c][x]
    BY <1>1, <1>3, <2>3, TurnIs DEF PlanInv, CallsInv
  <2>5. CallOK(r, row)
    BY <1>1, <2>2, <2>3, <2>4 DEF CallOK, ThreadOK, Waiting, Deciding
  <2>6. NeverCrowded => AloneOK(r, row)
    BY <1>1, <2>2 DEF AloneOK
  <2> QED
    BY <1>1, <1>2, <2>2, <2>4, <2>5, <2>6, CallMoves
<1>4. CASE Goto(c, "failed") /\ UNCHANGED thread
  <2>1. "failed" \in Ended \cup Deciding \cup {"output", "conflicts", "aggregate"}
    BY DEF Deciding
  <2>2. PICK r \in CallType :
            /\ call' = [call EXCEPT ![c] = r] /\ r.pc = "failed"
            /\ r.slot = s /\ r.crowded = call[c].crowded
    BY <1>4, <2>1, GotoIs
  <2>3. NeverCrowded => AloneOK(r, thread[c])
    BY <1>1, <2>2 DEF AloneOK
  <2>4. r.pc \notin {"idle"} \cup Waiting /\ r.pc # "settle"
    BY <2>2 DEF Waiting
  <2> QED
    BY <1>1, <1>2, <1>4, <2>2, <2>3, <2>4, CoordinatorMoves
<1> QED
  BY <1>3, <1>4 DEF StartAttempt

(* What is known of a call that waits: its thread, and with nobody beside  *)
(* it, that the slot has no output yet.                                    *)
LEMMA WaitingIs ==
  ASSUME PlanInv, NEW c \in Calls, call[c].pc \in Waiting
  PROVE  /\ call[c].slot \in SlotSet /\ thread[c] \in [SlotSet -> ThreadType]
         /\ CallOK(call[c], thread[c]) /\ ThreadOK(call[c].slot, ThreadOf(c))
         /\ c \in InFlight /\ call[c].pc \notin Ended
         /\ NeverCrowded => AloneOK(call[c], thread[c]) /\ ~Settled(call[c].slot)
         /\ \A x \in SlotSet \ {call[c].slot} :
               thread[c][x].pc = "none" \/ thread[c][x].gate = "coordinator"
BY DEF PlanInv, CallsInv, CallOK, AloneOK, ThreadOf, Waiting, Deciding, InFlight, Ended

(* The result of a thread that is done is in the slot's claim. *)
LEMMA TakeResultKeeps ==
  ASSUME PlanInv, NEW c \in Calls, TakeResult(c)
  PROVE  CallsInv'
<1> DEFINE s == call[c].slot
<1>1. call[c].pc \in Waiting /\ UNCHANGED storeVars /\ ThreadOf(c).pc = "done"
  BY DEF TakeResult, Waiting
<1>2. /\ s \in SlotSet /\ thread[c] \in [SlotSet -> ThreadType]
      /\ CallOK(call[c], thread[c]) /\ ThreadOK(s, ThreadOf(c)) /\ c \in InFlight
      /\ NeverCrowded => ~Settled(s)
      /\ \A x \in SlotSet \ {s} : thread[c][x].pc = "none" \/ thread[c][x].gate = "coordinator"
  BY <1>1, WaitingIs
<1>3. /\ ThreadOf(c).result \in ResultType
      /\ Claimed(s) /\ Claim(s) = ThreadOf(c).result
  BY <1>1, <1>2 DEF ThreadOK
<1>4. PICK o \in FoundType : o = Witnessed(ThreadOf(c).result) /\ o.envelope = Claim(s).envelope
  BY <1>3, WitnessedIs
<1>5. PICK r \in CallType :
          /\ call' = [call EXCEPT ![c] = r] /\ r.pc = "settle"
          /\ r.slot = s /\ r.found = o /\ r.crowded = call[c].crowded
  BY <1>4, SettleIs DEF TakeResult
<1>6. NoThread \in ThreadType /\ NoThread.pc = "none" /\ NoThread.gate = "free"
  BY DEF NoThread, ThreadType
<1>7. PICK row \in [SlotSet -> ThreadType] :
          /\ thread' = [thread EXCEPT ![c] = row] /\ row[s] = NoThread
          /\ \A x \in SlotSet \ {s} : row[x] = thread[c][x]
  BY <1>2, <1>6, TurnIs DEF TakeResult, PlanInv, CallsInv
<1>8. FoundOK(s, o)
  BY <1>3, <1>4 DEF FoundOK
<1>9. CallOK(r, row)
  BY <1>2, <1>5, <1>6, <1>7, <1>8 DEF CallOK, ThreadOK, Waiting
<1>10. NeverCrowded => AloneOK(r, row)
  BY <1>2, <1>4, <1>5 DEF AloneOK
<1> QED
  BY <1>1, <1>2, <1>5, <1>7, <1>9, <1>10, CallMoves

(* What its thread raised, the call handles. *)
LEMMA TakeErrorKeeps ==
  ASSUME PlanInv, NEW c \in Calls, TakeError(c)
  PROVE  CallsInv'
<1> DEFINE s == call[c].slot
<1>1. call[c].pc \in Waiting /\ UNCHANGED storeVars
  BY DEF TakeError, Waiting
<1>2. /\ s \in SlotSet /\ thread[c] \in [SlotSet -> ThreadType]
      /\ CallOK(call[c], thread[c]) /\ c \in InFlight
      /\ NeverCrowded => ~Settled(s)
      /\ \A x \in SlotSet \ {s} : thread[c][x].pc = "none" \/ thread[c][x].gate = "coordinator"
  BY <1>1, WaitingIs
<1>3. "failed" \in Ended \cup Deciding \cup {"output", "conflicts", "aggregate"}
  BY DEF Deciding
<1>4. PICK r \in CallType :
          /\ call' = [call EXCEPT ![c] = r] /\ r.pc = "failed"
          /\ r.slot = s /\ r.crowded = call[c].crowded
  BY <1>3, GotoIs DEF TakeError
<1>5. NoThread \in ThreadType /\ NoThread.pc = "none" /\ NoThread.gate = "free"
  BY DEF NoThread, ThreadType
<1>6. PICK row \in [SlotSet -> ThreadType] :
          /\ thread' = [thread EXCEPT ![c] = row] /\ row[s] = NoThread
          /\ \A x \in SlotSet \ {s} : row[x] = thread[c][x]
  BY <1>2, <1>5, TurnIs DEF TakeError, PlanInv, CallsInv
<1>7. CallOK(r, row)
  BY <1>2, <1>4, <1>5, <1>6 DEF CallOK, ThreadOK, Waiting
<1>8. NeverCrowded => AloneOK(r, row)
  BY <1>2, <1>4 DEF AloneOK
<1> QED
  BY <1>1, <1>2, <1>4, <1>6, <1>7, <1>8, CallMoves

(* A timeout that takes the gate settles the slot before any claim; one    *)
(* that does not waits for the commit of the thread that has the gate.     *)
LEMMA TimeOutKeeps ==
  ASSUME PlanInv, NEW c \in Calls, TimeOut(c)
  PROVE  CallsInv'
<1> DEFINE s == call[c].slot
<1>1. call[c].pc = "wait" /\ call[c].pc \in Waiting /\ UNCHANGED storeVars
  BY DEF TimeOut, At, Waiting
<1>2. /\ s \in SlotSet /\ thread[c] \in [SlotSet -> ThreadType]
      /\ CallOK(call[c], thread[c]) /\ ThreadOK(s, ThreadOf(c)) /\ c \in InFlight
      /\ NeverCrowded => AloneOK(call[c], thread[c]) /\ ~Settled(s)
      /\ \A x \in SlotSet \ {s} : thread[c][x].pc = "none" \/ thread[c][x].gate = "coordinator"
  BY <1>1, WaitingIs
<1>3. CASE GateFree(c, s)
  <2>1. NeverCrowded => ~Claimed(s)
    BY <1>1, <1>2, <1>3 DEF AloneOK, GateFree
  <2>2. PICK o \in FoundType : o = Unheard("TIMEOUT") /\ o.envelope = None
    BY UnheardIs
  <2>3. PICK r \in CallType :
            /\ call' = [call EXCEPT ![c] = r] /\ r.pc = "settle"
            /\ r.slot = s /\ r.found = o /\ r.crowded = call[c].crowded
    BY <1>3, <2>2, SettleIs DEF TimeOut
  <2>4. PICK t : t = [ThreadOf(c) EXCEPT !.gate = "coordinator"]
    OBVIOUS
  <2>5. ThreadOf(c) \in ThreadType
    BY <1>2 DEF ThreadOf
  <2>6. /\ t \in ThreadType /\ t.pc = ThreadOf(c).pc /\ t.gate = "coordinator"
        /\ t.result = ThreadOf(c).result
    BY <2>4, <2>5 DEF ThreadType
  <2>7. Turn(c, s, t)
    BY <1>3, <2>4, Zenon DEF TimeOut
  <2>8. PICK row \in [SlotSet -> ThreadType] :
            /\ thread' = [thread EXCEPT ![c] = row] /\ row[s] = t
            /\ \A x \in SlotSet \ {s} : row[x] = thread[c][x]
    BY <1>2, <2>6, <2>7, TurnIs DEF PlanInv, CallsInv
  <2>9. FoundOK(s, o)
    BY <2>2 DEF FoundOK
  <2>10. t.pc \notin {"committing", "done"}
    BY <1>2, <1>3, <2>6 DEF ThreadOK, GateFree, ThreadOf
  <2>11. ThreadOK(s, t)
    BY <1>2, <2>6, <2>10 DEF ThreadOK
  <2>12. CallOK(r, row)
    BY <1>2, <2>3, <2>6, <2>8, <2>9, <2>11 DEF CallOK, Waiting
  <2>13. NeverCrowded => AloneOK(r, row)
    BY <1>2, <2>1, <2>3 DEF AloneOK
  <2> QED
    BY <1>1, <1>2, <2>3, <2>8, <2>12, <2>13, CallMoves
<1>4. CASE ~GateFree(c, s)
  <2>1. "blocked" \in Ended \cup Deciding \cup {"output", "conflicts", "aggregate"}
    BY DEF Deciding
  <2>2. PICK r \in CallType :
            /\ call' = [call EXCEPT ![c] = r] /\ r.pc = "blocked"
            /\ r.slot = s /\ r.crowded = call[c].crowded
    BY <1>4, <2>1, GotoIs DEF TimeOut
  <2>3. thread' = [thread EXCEPT ![c] = thread[c]]
    BY <1>4 DEF TimeOut, PlanInv, CallsInv
  <2>4. thread[c][s].pc \in {"committing", "done", "raised"} /\ thread[c][s].gate # "coordinator"
        /\ thread[c][s].pc # "none"
    <3>1. thread[c][s].gate \in {"free", "thread", "coordinator"}
      BY <1>2 DEF ThreadType
    <3>2. thread[c][s].gate # "coordinator" /\ thread[c][s].gate # "free"
      BY <1>1, <1>2, <1>4 DEF CallOK, GateFree
    <3> QED
      BY <1>2, <3>1, <3>2 DEF ThreadOK, ThreadOf
  <2>5. CallOK(r, thread[c])
    BY <1>1, <1>2, <2>2, <2>4 DEF CallOK, Waiting
  <2>6. NeverCrowded => AloneOK(r, thread[c])
    BY <1>2, <2>2 DEF AloneOK
  <2> QED
    BY <1>1, <1>2, <2>2, <2>3, <2>5, <2>6, CallMoves
<1> QED
  BY <1>3, <1>4

(* A claim that is there after all is adopted. *)
LEMMA AttemptFailedKeeps ==
  ASSUME PlanInv, NEW c \in Calls, AttemptFailed(c)
  PROVE  CallsInv'
<1> DEFINE s == call[c].slot
<1>1. /\ call[c].pc = "failed" /\ UNCHANGED <<storeVars, thread>> /\ s \in SlotSet
      /\ NeverCrowded => ~Settled(s)
  BY DEF AttemptFailed, At, PlanInv, CallsInv, CallOK, AloneOK, Deciding
<1>2. call[c].pc \notin Ended \cup Waiting
  BY <1>1 DEF Ended, Waiting
<1>3. PICK o \in FoundType :
         /\ o = Recovered(s)
         /\ Claimed(s) => o.envelope = Claim(s).envelope
         /\ ~Claimed(s) => o.envelope = None
  <2>1. CASE Claimed(s)
    <3>1. Claim(s) \in ResultType
      BY <1>1, <2>1 DEF PlanInv, PlanRecordsOK, ClaimsOK
    <3>2. Recovered(s) = Witnessed(Claim(s))
      BY <2>1 DEF Recovered
    <3> QED
      BY <2>1, <3>1, <3>2, WitnessedIs
  <2>2. CASE ~Claimed(s)
    <3>1. Recovered(s) = Unheard("UNAVAILABLE")
      BY <2>2 DEF Recovered
    <3> QED
      BY <2>2, <3>1, UnheardIs
  <2> QED
    BY <2>1, <2>2
<1>4. PICK r \in CallType :
          /\ call' = [call EXCEPT ![c] = r] /\ r.pc = "settle"
          /\ r.slot = s /\ r.found = o /\ r.crowded = call[c].crowded
  BY <1>3, SettleIs DEF AttemptFailed
<1>5. NeverCrowded => AloneOK(r, thread[c])
  BY <1>1, <1>3, <1>4 DEF AloneOK
<1>6. r.pc \notin {"idle"} \cup Waiting /\ FoundOK(r.slot, r.found)
  BY <1>3, <1>4 DEF FoundOK, Waiting
<1> QED
  BY <1>1, <1>2, <1>4, <1>5, <1>6, CoordinatorMoves

(* The commit of a call raises. *)
LEMMA RaisesKeeps ==
  ASSUME PlanInv, NEW c \in Calls, call[c].pc \notin Ended \cup Waiting,
         CommitRaises, Goto(c, "raised"), UNCHANGED <<thread, opener, session>>
  PROVE  PlanInv'
<1>1. "raised" \in Ended \cup Deciding \cup {"output", "conflicts", "aggregate"}
  BY DEF Ended
<1>2. PICK r \in CallType :
          /\ call' = [call EXCEPT ![c] = r] /\ r.pc = "raised"
          /\ r.crowded = call[c].crowded
  BY <1>1, GotoIs
<1>3. AloneOK(r, thread[c]) /\ r.pc \notin {"idle"} \cup Waiting \cup Deciding \cup {"output", "settle"}
  BY <1>2 DEF AloneOK, Waiting, Deciding
<1>4. CallsInv'
  BY <1>2, <1>3, CoordinatorMoves DEF CommitRaises
<1> QED
  BY <1>4, PlanKeepsStill DEF CommitRaises

(* Records that say nothing of a State. *)
LEMMA OtherRecordsOK ==
  ASSUME HistoryOK, RecordsOK, NEW new, CommitRecords(new),
         \A n \in new : n.key.kind \notin {"work_unit", "envelope", "swap", "recovery"}
  PROVE  StoreGrows /\ RecordsOK'
<1>1. \A n \in new : RecordOK(n)
  BY DEF RecordOK
<1> QED
  BY <1>1, CommitGrows, RecordsCommit

(* The call settles its slot, with what the claim bears witness to when    *)
(* there is one.                                                           *)
LEMMA CommitOutputKeeps ==
  ASSUME PlanInv, NEW c \in Calls, CommitOutput(c), UNCHANGED session
  PROVE  PlanInv'
<1>0. PICK s : s = call[c].slot
  OBVIOUS
<1> DEFINE out == Record(OutputKey(s), Output(c, call[c].found))
           receipt == Record(ReleaseKey(s), [by |-> c])
           new == {out, receipt}
<1>1. /\ call[c].pc = "settle" /\ s \in SlotSet /\ FoundOK(s, call[c].found)
      /\ CallOK(call[c], thread[c]) /\ thread[c] \in [SlotSet -> ThreadType]
      /\ NeverCrowded => AloneOK(call[c], thread[c]) /\ ~Settled(s)
      /\ UNCHANGED <<opener, thread>>
  BY <1>0 DEF CommitOutput, At, PlanInv, CallsInv, CallOK, AloneOK, Deciding
<1>2. call[c].pc \notin Ended \cup Waiting /\ c \in InFlight
  BY <1>1 DEF Ended, Waiting, InFlight
<1>3. CASE CommitRaises /\ Goto(c, "raised")
  BY <1>1, <1>2, <1>3, RaisesKeeps
<1>4. CASE CommitRecords(new) /\ NextSlot(c)
  <2>1. /\ out.key = OutputKey(s) /\ out.body.envelope = call[c].found.envelope
        /\ receipt.key = ReleaseKey(s)
    BY DEF Record, Output
  <2>2. /\ out.key.kind = "slot_output" /\ receipt.key.kind = "release_receipt"
        /\ out.key.slot = s
        /\ out.key \in PlanKeys
    BY <1>1, <2>1, PlanKeysDiffer DEF PlanKeys
  <2> HIDE DEF out, receipt
  <2>3. \A m, n \in new : m.key = n.key => m = n
    BY <2>2
  <2>4. \A n \in new : n.key # PlanKey /\ n.key.kind # "orchestration_receipt"
                       /\ \A x \in SlotSet : n.key # ClaimKey(x)
    BY <2>2, PlanKeysDiffer
  <2>5. \A n \in new, x \in SlotSet : n.key = OutputKey(x) => n = out /\ x = s
    BY <2>2, PlanKeysDiffer
  <2>6. \A n \in new, x \in SlotSet : n.key = OutputKey(x) /\ n.body.envelope # None =>
            Claimed(x) /\ n.body.envelope = Claim(x).envelope
    BY <1>1, <2>1, <2>5 DEF FoundOK
  <2>7. PlanRecordsOK' /\ PlanGrows
    BY <1>4, <2>3, <2>4, <2>6, PlanRecordsCommit DEF PlanInv, SessionsInv
  <2>8. StoreGrows /\ RecordsOK'
    BY <1>4, <2>2, OtherRecordsOK DEF PlanInv, SessionsInv
  <2>9. /\ \A key \in PlanKeys : (\A n \in new : n.key # key) => KeyStays(key)
        /\ \A n \in new : n.key \in PlanKeys => Body(n.key)' = n.body
    BY <1>4, <2>3, PlanCommit DEF PlanInv, SessionsInv, PlanRecordsOK
  <2>10. SlotOutput(s)'.envelope = call[c].found.envelope
    BY <2>1, <2>2, <2>9 DEF SlotOutput
  <2>11. \A x \in SlotSet : KeyStays(ClaimKey(x)) /\ (x # s => KeyStays(OutputKey(x)))
    BY <2>4, <2>5, <2>9 DEF PlanKeys
  <2>12. NeverCrowded => \A x \in SlotSet : SlotFact(x)'
    <3> SUFFICES ASSUME NeverCrowded, NEW x \in SlotSet PROVE SlotFact(x)'
      OBVIOUS
    <3>1. SlotFact(x)
      BY DEF PlanInv, CallsInv
    <3>2. CASE x = s
      <4>1. Claimed(s)' => Claimed(s) /\ Claim(s)' = Claim(s)
        BY <1>1, <2>11 DEF KeyStays, Claimed, Claim
      <4>2. Claimed(s) => call[c].found.envelope = Claim(s).envelope
        BY <1>0, <1>1 DEF AloneOK
      <4> QED
        BY <2>10, <3>2, <4>1, <4>2 DEF SlotFact
    <3>3. CASE x # s
      BY <2>11, <3>1, <3>3 DEF SlotFact, KeyStays, Claimed, Claim, Settled, SlotOutput
    <3> QED
      BY <3>2, <3>3
  <2>13. PICK r \in CallType :
            /\ call' = [call EXCEPT ![c] = r] /\ r.crowded = call[c].crowded
            /\ r.pc \in {"output", "conflicts", "raised"}
            /\ r.pc = "output" => r.slot \in SlotSet
    BY <1>0, <1>1, <1>4, NextIs
  <2>14. PICK row \in [SlotSet -> ThreadType] :
            row = thread[c] /\ thread' = [thread EXCEPT ![c] = row]
    BY <1>1 DEF PlanInv, CallsInv
  <2>15. CallOK(r, row)
    BY <1>1, <2>13, <2>14 DEF CallOK, Waiting, Deciding
  <2>16. CallOK(r, row)'
    BY <2>7, <2>8, <2>15, CallStays
  <2>17. AloneOK(r, row)'
    BY <2>13 DEF AloneOK, Deciding
  <2>18. CallsInv'
    BY <1>2, <2>7, <2>8, <2>12, <2>13, <2>14, <2>16, <2>17, CallKeeps DEF PlanInv
  <2> QED
    BY <1>1, <2>7, <2>8, <2>18, PlanKeeps
<1>5. (CommitRecords(new) /\ NextSlot(c)) \/ (CommitRaises /\ Goto(c, "raised"))
  BY <1>0, Zenon DEF CommitOutput
<1> QED
  BY <1>3, <1>4, <1>5

(* A call commits records that are not its slots': the conflict set and    *)
(* the aggregation.                                                        *)
LEMMA ClassificationKeeps ==
  ASSUME PlanInv, NEW c \in Calls, NEW key, NEW body, NEW pc,
         call[c].pc \in {"conflicts", "aggregate"}, pc \in {"aggregate", "returned"},
         key.kind \in {"conflict_set", "aggregation_input"},
         CommitRecords({Record(key, body)}), Goto(c, pc),
         UNCHANGED <<opener, thread, session>>
  PROVE  PlanInv'
<1>1. PICK new : new = {Record(key, body)} /\ \A n \in new : n.key = key
  BY DEF Record
<1>2. CommitRecords(new)
  BY <1>1
<1>3. /\ \A n \in new : n.key.kind \notin
           {"plan", "claim", "slot_output", "release_receipt", "orchestration_receipt"}
      /\ \A n \in new : n.key.kind \notin {"work_unit", "envelope", "swap", "recovery"}
  BY <1>1
<1>4. StoreGrows /\ RecordsOK'
  BY <1>2, <1>3, OtherRecordsOK DEF PlanInv, SessionsInv
<1>5. PlanRecordsOK' /\ PlanGrows /\ PlanStays
  BY <1>2, <1>3, PlanRecordsBeside DEF PlanInv, SessionsInv
<1>6. pc \in Ended \cup Deciding \cup {"output", "conflicts", "aggregate"}
  BY DEF Ended
<1>7. PICK r \in CallType :
          /\ call' = [call EXCEPT ![c] = r] /\ r.pc = pc /\ r.crowded = call[c].crowded
  BY <1>6, GotoIs
<1>8. PICK row \in [SlotSet -> ThreadType] :
          row = thread[c] /\ thread' = [thread EXCEPT ![c] = row]
  BY DEF PlanInv, CallsInv
<1>9. CallOK(call[c], row) /\ c \in InFlight
  BY <1>8 DEF PlanInv, CallsInv, InFlight, Ended
<1>10. CallOK(r, row)
  BY <1>7, <1>9 DEF CallOK, Waiting, Deciding
<1>11. CallOK(r, row)'
  BY <1>4, <1>5, <1>10, CallStays
<1>12. AloneOK(r, row)'
  BY <1>7 DEF AloneOK, Deciding
<1>13. NeverCrowded => \A x \in SlotSet : SlotFact(x)'
  BY <1>5, SlotFactStays DEF PlanInv, CallsInv
<1>14. CallsInv'
  BY <1>4, <1>5, <1>7, <1>8, <1>9, <1>11, <1>12, <1>13, CallKeeps DEF PlanInv
<1> QED
  BY <1>4, <1>5, <1>14, PlanKeeps

(* _commit_conflict_set and the aggregation: committed, or the call raises. *)
LEMMA CommitConflictsKeeps ==
  ASSUME PlanInv, NEW c \in Calls, CommitConflicts(c) \/ CommitAggregation(c),
         UNCHANGED session
  PROVE  PlanInv'
<1>1. /\ call[c].pc \in {"conflicts", "aggregate"} /\ UNCHANGED <<opener, thread>>
      /\ call[c].pc \notin Ended \cup Waiting
  BY DEF CommitConflicts, CommitAggregation, At, Ended, Waiting
<1>2. ConflictSetKey(Members).kind = "conflict_set"
      /\ AggregationKey(Aggregation).kind = "aggregation_input"
  BY DEF ConflictSetKey, AggregationKey
<1>3. CASE CommitRaises /\ Goto(c, "raised")
  BY <1>1, <1>3, RaisesKeeps
<1>4. CASE CommitRecords({Record(ConflictSetKey(Members), Members)}) /\ Goto(c, "aggregate")
  BY <1>1, <1>2, <1>4, ClassificationKeeps
<1>5. CASE CommitRecords({Record(AggregationKey(Aggregation), Aggregation)})
           /\ Goto(c, "returned")
  BY <1>1, <1>2, <1>5, ClassificationKeeps
<1> QED
  BY <1>3, <1>4, <1>5 DEF CommitConflicts, CommitAggregation

(* What goes to Evidence is what the settled slots agree on. *)
LEMMA HandOffKeeps ==
  ASSUME PlanInv, HandOff, UNCHANGED session
  PROVE  PlanInv'
<1>1. PICK body : body = [outcome |-> IF Aggregation.unresolved
                                      THEN "COMPLETED_WITH_UNRESOLVED_CAPABILITY"
                                      ELSE "COMPLETED_ALL_RELEASED",
                          evidence |-> {SlotOutput(s).envelope : s \in Admitted}]
  OBVIOUS
<1>2. PICK key : key = ReceiptKey(Aggregation)
  OBVIOUS
<1>3. PICK new : new = {Record(key, body)}
  OBVIOUS
<1>4. CommitRecords(new) /\ UNCHANGED planVars
  BY <1>1, <1>2, <1>3, Zenon DEF HandOff
<1>5. /\ key.kind = "orchestration_receipt"
       /\ \A n \in new : n.key = key /\ n.body = body
  BY <1>2, <1>3 DEF ReceiptKey, Record
<1>6. ReceiptOK(body)
  <2>1. \A s \in SlotSet : Settled(s) /\ Committed(ReleaseKey(s))
    BY DEF HandOff, TerminalGraph
  <2>2. body.evidence = {SlotOutput(s).envelope : s \in Admitted}
    BY <1>1
  <2>3. Admitted \subseteq SlotSet /\ (Admitted # {} => Cardinality(Fingerprints) = 1)
    BY DEF Admitted, Accepted
  <2> QED
    BY <2>1, <2>2, <2>3 DEF ReceiptOK
<1>7. \A n \in new : n.key \notin PlanKeys
  BY <1>5, PlanKeysDiffer
<1>8. PlanKey \in PlanKeys
      /\ \A s \in SlotSet : ClaimKey(s) \in PlanKeys /\ OutputKey(s) \in PlanKeys
  BY DEF PlanKeys
<1>9. PlanRecordsOK' /\ PlanGrows
  BY <1>5, <1>4, <1>6, <1>7, <1>8, PlanRecordsCommit DEF PlanInv, SessionsInv
<1>10. PlanStays
  BY <1>4, <1>7, <1>8, PlanCommit DEF PlanStays, PlanInv, SessionsInv, PlanRecordsOK
<1>11. StoreGrows /\ RecordsOK'
  BY <1>4, <1>5, OtherRecordsOK DEF PlanInv, SessionsInv
<1>12. CallsInv'
  BY <1>4, <1>9, <1>10, <1>11, CallsStay DEF PlanInv, planVars
<1> QED
  BY <1>4, <1>9, <1>11, <1>12, PlanKeeps DEF planVars

(* A step of a thread that has not committed yet. *)
LEMMA ThreadMoves ==
  ASSUME PlanInv, UNCHANGED <<storeVars, call>>, NEW c \in Calls, NEW s \in SlotSet,
         NEW t \in ThreadType, Turn(c, s, t),
         thread[c][s].pc \in {"adapter", "answered"}, t.pc # "none", ThreadOK(s, t),
         t.gate = "coordinator" <=> thread[c][s].gate = "coordinator",
         t.gate = "free" => thread[c][s].gate = "free"
  PROVE  CallsInv'
<1>1. PICK row \in [SlotSet -> ThreadType] :
          /\ thread' = [thread EXCEPT ![c] = row] /\ row[s] = t
          /\ \A x \in SlotSet \ {s} : row[x] = thread[c][x]
  BY TurnIs DEF PlanInv, CallsInv
<1>2. /\ call[c] \in CallType /\ call' = [call EXCEPT ![c] = call[c]]
      /\ CallOK(call[c], thread[c]) /\ (NeverCrowded => AloneOK(call[c], thread[c]))
  BY DEF PlanInv, CallsInv
<1>3. CallOK(call[c], row)
  <2>1. \A x \in SlotSet :
           /\ ThreadOK(x, row[x])
           /\ row[x].pc # "none" /\ row[x].gate # "coordinator" =>
                 call[c].pc \in Waiting /\ call[c].slot = x
    BY <1>1, <1>2 DEF CallOK
  <2>2. call[c].pc \in Waiting => call[c].slot \in SlotSet
    BY <1>2 DEF CallOK, Waiting, Deciding
  <2>3. /\ call[c].pc \in Waiting =>
              row[call[c].slot].pc # "none" /\ row[call[c].slot].gate # "coordinator"
        /\ call[c].pc = "blocked" =>
              row[call[c].slot].pc \in {"committing", "done", "raised"}
    BY <1>1, <1>2, <2>2 DEF CallOK, Waiting
  <2> QED
    BY <1>2, <2>1, <2>3 DEF CallOK
<1>4. NeverCrowded => AloneOK(call[c], row)
  BY <1>1, <1>2 DEF AloneOK, CallOK, Deciding
<1>5. call[c].pc \notin Ended => c \in InFlight
  BY DEF InFlight
<1> QED
  BY <1>1, <1>2, <1>3, <1>4, <1>5, CallMoves

(* The adapter answers: the envelope is of the plan's State. *)
LEMMA ThreadAnswersKeeps ==
  ASSUME PlanInv, NEW c \in Calls, NEW s \in SlotSet, ThreadAnswers(c, s)
  PROVE  CallsInv'
<1>1. /\ thread[c][s].pc = "adapter" /\ UNCHANGED <<storeVars, call>>
      /\ Committed(PlanKey) /\ Committed(WorkUnit(Plan.unit).key) /\ PlanBodyOK(Plan)
      /\ thread[c][s] \in ThreadType /\ ThreadOK(s, thread[c][s])
  BY DEF ThreadAnswers, CanonicalPlan, PlanInv, PlanRecordsOK, CallsInv, CallOK
<1>2. PICK n \in Normalized :
          Turn(c, s, [thread[c][s] EXCEPT
                        !.pc = "answered",
                        !.result = [by |-> c, envelope |->
                            EnvelopeKey(WorkUnit(Plan.unit).key, Plan.boot,
                                Plan.adapter, n.outcome, n.candidate)]])
  BY DEF ThreadAnswers
<1>3. PICK unit \in UnitKeys : unit = WorkUnit(Plan.unit).key /\ unit.opened = Plan.boot
  BY <1>1, UnitRecordOK DEF PlanBodyOK
<1>4. Plan.boot.revision <= Plan.boot.revision /\ Plan.boot \in Snap
  BY <1>1 DEF PlanBodyOK, Snap
<1>5. PICK e : e = EnvelopeKey(unit, Plan.boot, Plan.adapter, n.outcome, n.candidate)
  OBVIOUS
<1>6. /\ e \in EnvelopeKeys /\ e.outcome = n.outcome /\ e.candidate = n.candidate
      /\ EnvelopeForward(e)
  BY <1>1, <1>3, <1>4, <1>5, EnvelopeRecordOK DEF PlanBodyOK
<1>7. e.candidate = None <=> e.outcome # "CANDIDATE_ACCEPTED"
  BY <1>6, CandidatesAssumption DEF Normalized
<1>8. PICK x : x = [by |-> c, envelope |-> e]
  OBVIOUS
<1>9. x \in ResultType /\ x.envelope = e
  BY <1>6, <1>7, <1>8 DEF ResultType
<1>10. PICK t : t = [thread[c][s] EXCEPT !.pc = "answered", !.result = x]
  OBVIOUS
<1>11. /\ t \in ThreadType /\ t.pc = "answered" /\ t.result = x
       /\ t.gate = thread[c][s].gate
  BY <1>1, <1>9, <1>10 DEF ThreadType
<1>12. Turn(c, s, t)
  BY <1>2, <1>3, <1>5, <1>8, <1>10, Zenon
<1>13. ThreadOK(s, t)
  BY <1>1, <1>6, <1>9, <1>11 DEF ThreadOK
<1> QED
  BY <1>1, <1>11, <1>12, <1>13, ThreadMoves

(* The adapter or a check of its thread raises.                          *)
LEMMA ThreadRaisesKeeps ==
  ASSUME PlanInv, NEW c \in Calls, NEW s \in SlotSet, ThreadRaises(c, s)
  PROVE  CallsInv'
<1>1. /\ thread[c][s].pc = "adapter" /\ UNCHANGED <<storeVars, call>>
      /\ thread[c][s] \in ThreadType /\ ThreadOK(s, thread[c][s])
  BY DEF ThreadRaises, PlanInv, CallsInv, CallOK
<1>2. PICK t : t = [thread[c][s] EXCEPT !.pc = "raised"]
  OBVIOUS
<1>3. t \in ThreadType /\ t.pc = "raised" /\ t.gate = thread[c][s].gate
  BY <1>1, <1>2 DEF ThreadType
<1>4. Turn(c, s, t)
  BY <1>2, Zenon DEF ThreadRaises
<1>5. ThreadOK(s, t)
  BY <1>3 DEF ThreadOK
<1> QED
  BY <1>1, <1>3, <1>4, <1>5, ThreadMoves

(* The thread takes the gate, if the coordinator has not. *)
LEMMA ThreadChecksKeeps ==
  ASSUME PlanInv, NEW c \in Calls, NEW s \in SlotSet, ThreadChecks(c, s)
  PROVE  CallsInv'
<1>1. /\ thread[c][s].pc = "answered" /\ UNCHANGED <<storeVars, call>>
      /\ thread[c][s] \in ThreadType /\ ThreadOK(s, thread[c][s])
  BY DEF ThreadChecks, PlanInv, CallsInv, CallOK
<1>2. CASE GateFree(c, s)
  <2>1. PICK t1 : t1 = [thread[c][s] EXCEPT !.pc = "committing"]
    OBVIOUS
  <2>2. PICK t : t = [t1 EXCEPT !.gate = "thread"]
    OBVIOUS
  <2>3. /\ t \in ThreadType /\ t.pc = "committing" /\ t.gate = "thread"
        /\ t.result = thread[c][s].result
    BY <1>1, <2>1, <2>2 DEF ThreadType
  <2>4. Turn(c, s, t)
    BY <1>2, <2>1, <2>2, Zenon DEF ThreadChecks, ClaimsGate
  <2>5. ThreadOK(s, t)
    BY <1>1, <2>3 DEF ThreadOK
  <2> QED
    BY <1>1, <1>2, <2>3, <2>4, <2>5, ThreadMoves DEF GateFree
<1>3. CASE ~GateFree(c, s)
  <2>1. PICK t : t = [thread[c][s] EXCEPT !.pc = "raised"]
    OBVIOUS
  <2>2. t \in ThreadType /\ t.pc = "raised" /\ t.gate = thread[c][s].gate
    BY <1>1, <2>1 DEF ThreadType
  <2>3. Turn(c, s, t)
    BY <1>3, <2>1, Zenon DEF ThreadChecks
  <2>4. ThreadOK(s, t)
    BY <2>2 DEF ThreadOK
  <2> QED
    BY <1>1, <2>2, <2>3, <2>4, ThreadMoves
<1> QED
  BY <1>2, <1>3

(* Envelope and claim are committed by a thread that has the gate, whose   *)
(* call waits for it.                                                      *)
LEMMA ThreadCommitsKeeps ==
  ASSUME PlanInv, NEW c \in Calls, NEW s \in SlotSet, ThreadCommits(c, s),
         UNCHANGED session
  PROVE  PlanInv'
<1>1. /\ thread[c][s].pc = "committing" /\ UNCHANGED <<call, opener>>
      /\ thread[c] \in [SlotSet -> ThreadType] /\ call[c] \in CallType
      /\ CallOK(call[c], thread[c]) /\ ThreadOK(s, thread[c][s])
      /\ NeverCrowded => AloneOK(call[c], thread[c])
  BY DEF ThreadCommits, PlanInv, CallsInv, CallOK
<1>2. PICK x \in ResultType : x = thread[c][s].result /\ EnvelopeForward(x.envelope)
  BY <1>1 DEF ThreadOK
<1>3. /\ thread[c][s].gate = "thread" /\ call[c].pc \in Waiting /\ call[c].slot = s
      /\ \A y \in SlotSet \ {s} : thread[c][y].pc = "none" \/ thread[c][y].gate = "coordinator"
  BY <1>1 DEF ThreadOK, CallOK
<1>4. c \in InFlight /\ call' = [call EXCEPT ![c] = call[c]]
  BY <1>1, <1>3 DEF InFlight, Ended, Waiting, PlanInv, CallsInv
<1>5. ASSUME NEW pc \in {"done", "raised"}, Turn(c, s, [thread[c][s] EXCEPT !.pc = pc])
      PROVE  \E row \in [SlotSet -> ThreadType] :
                /\ thread' = [thread EXCEPT ![c] = row]
                /\ row[s].pc = pc /\ row[s].gate = "thread" /\ row[s].result = x
                /\ \A y \in SlotSet \ {s} : row[y] = thread[c][y]
  <2>1. PICK t : t = [thread[c][s] EXCEPT !.pc = pc]
    OBVIOUS
  <2>2. t \in ThreadType /\ t.pc = pc /\ t.gate = "thread" /\ t.result = x
    BY <1>1, <1>2, <1>3, <2>1 DEF ThreadType
  <2>3. Turn(c, s, t)
    BY <1>5, <2>1, Zenon
  <2> QED
    BY <2>2, <2>3, TurnIs DEF PlanInv, CallsInv
<1>6. ASSUME CommitRaises, Turn(c, s, [thread[c][s] EXCEPT !.pc = "raised"])
      PROVE  PlanInv'
  <2>1. PICK row \in [SlotSet -> ThreadType] :
            /\ thread' = [thread EXCEPT ![c] = row]
            /\ row[s].pc = "raised" /\ row[s].gate = "thread"
            /\ \A y \in SlotSet \ {s} : row[y] = thread[c][y]
    BY <1>5, <1>6
  <2>2. ThreadOK(s, row[s])
    BY <2>1 DEF ThreadOK
  <2>3. CallOK(call[c], row)
    BY <1>1, <1>3, <2>1, <2>2 DEF CallOK, Waiting
  <2>4. NeverCrowded => AloneOK(call[c], row)
    BY <1>1, <1>3, <2>1 DEF AloneOK, Waiting
  <2>5. CallsInv'
    BY <1>1, <1>4, <1>6, <2>1, <2>3, <2>4, CallMoves DEF CommitRaises
  <2> QED
    BY <1>1, <1>6, <2>5, PlanKeepsStill DEF CommitRaises
<1>7. ASSUME CommitRecords({Envelope(x.envelope), Record(ClaimKey(s), x)}),
             NEW pc \in {"done", "raised"}, Turn(c, s, [thread[c][s] EXCEPT !.pc = pc])
      PROVE  PlanInv'
  <2> DEFINE env == Envelope(x.envelope)
             claim == Record(ClaimKey(s), x)
             new == {env, claim}
  <2>1. /\ env.key = x.envelope /\ x.envelope.kind = "envelope"
        /\ claim.key = ClaimKey(s) /\ claim.body = x
    BY <1>2 DEF Envelope, Record, EnvelopeForward, EnvelopeKeys
  <2>2. /\ claim.key.kind = "claim" /\ claim.key.slot = s /\ claim.key \in PlanKeys
        /\ env.key \notin PlanKeys /\ env.key.kind = "envelope"
    BY <2>1, PlanKeysDiffer DEF PlanKeys
  <2>3. RecordOK(env) /\ RecordOK(claim)
    BY <1>2, <2>1, <2>2 DEF RecordOK
  <2>4. CommitRecords(new)
    BY <1>7
  <2> HIDE DEF env, claim
  <2>5. \A m, n \in new : m.key \in PlanKeys /\ m.key = n.key => m.body = n.body
    BY <2>2
  <2>6. \A n \in new : n.key # PlanKey /\ n.key.kind # "orchestration_receipt"
                       /\ \A y \in SlotSet : n.key # OutputKey(y)
    BY <2>2, PlanKeysDiffer
  <2>7. \A n \in new, y \in SlotSet : n.key = ClaimKey(y) => n = claim /\ y = s
    BY <2>2, PlanKeysDiffer
  <2>8. PlanRecordsOK' /\ PlanGrows
    BY <2>1, <2>4, <2>5, <2>6, <2>7, PlanRecordsCommit DEF PlanInv, SessionsInv
  <2>9. StoreGrows /\ RecordsOK'
    BY <2>3, <2>4, CommitGrows, RecordsCommit DEF PlanInv, SessionsInv
  <2>10. /\ \A key \in PlanKeys : (\A n \in new : n.key # key) => KeyStays(key)
         /\ \A n \in new : n.key \in PlanKeys => Body(n.key)' = n.body
         /\ \A key \in PlanKeys : (\E n \in new : n.key = key) => Committed(key)'
    BY <2>4, <2>5, PlanCommit DEF PlanInv, SessionsInv, PlanRecordsOK
  <2>11. Claimed(s)' /\ Claim(s)' = x
    BY <2>1, <2>2, <2>10 DEF Claimed, Claim
  <2>12. \A y \in SlotSet : KeyStays(OutputKey(y)) /\ (y # s => KeyStays(ClaimKey(y)))
    BY <2>6, <2>7, <2>10 DEF PlanKeys
  <2>13. PICK row \in [SlotSet -> ThreadType] :
            /\ thread' = [thread EXCEPT ![c] = row]
            /\ row[s].pc = pc /\ row[s].gate = "thread" /\ row[s].result = x
            /\ \A y \in SlotSet \ {s} : row[y] = thread[c][y]
    BY <1>5, <1>7
  <2>14. ThreadOK(s, row[s])'
    <3>1. EnvelopeForward(x.envelope)'
      BY <1>2, <2>9, RecordStays
    <3> QED
      BY <2>11, <2>13, <3>1 DEF ThreadOK
  <2>15. PICK old : old = call[c]
    OBVIOUS
  <2>16. CallOK(old, row)'
    <3>1. ASSUME NEW y \in SlotSet \ {s} PROVE ThreadOK(y, row[y])'
      <4>1. PICK t : t = row[y] /\ t = thread[c][y]
        BY <2>13
      <4>2. ThreadOK(y, t)
        BY <1>1, <4>1 DEF CallOK
      <4>3. Claimed(y) => Claimed(y)' /\ Claim(y)' = Claim(y)
        BY <2>8, ClaimGrows
      <4>4. \A e : EnvelopeForward(e) => EnvelopeForward(e)'
        BY <2>9, RecordStays
      <4> QED
        BY <4>1, <4>2, <4>3, <4>4 DEF ThreadOK
    <3> QED
      BY <1>3, <2>13, <2>14, <2>15, <3>1 DEF CallOK, Waiting
  <2>17. NeverCrowded => ~Settled(s)' /\ AloneOK(old, row)'
    BY <1>1, <1>3, <2>12, <2>13, <2>15 DEF AloneOK, Waiting, Deciding, KeyStays, Settled
  <2>18. NeverCrowded => \A y \in SlotSet : SlotFact(y)'
    <3> SUFFICES ASSUME NeverCrowded, NEW y \in SlotSet PROVE SlotFact(y)'
      OBVIOUS
    <3>1. SlotFact(y)
      BY DEF PlanInv, CallsInv
    <3> QED
      BY <2>12, <2>17, <3>1 DEF SlotFact, KeyStays, Claimed, Claim, Settled, SlotOutput
  <2>19. CallsInv'
    BY <1>1, <1>4, <2>8, <2>9, <2>13, <2>15, <2>16, <2>17, <2>18, CallKeeps DEF PlanInv
  <2> QED
    BY <1>1, <2>8, <2>9, <2>19, PlanKeeps
<1>8. \/ /\ CommitRecords({Envelope(x.envelope), Record(ClaimKey(s), x)})
         /\ \E pc \in {"done", "raised"} : Turn(c, s, [thread[c][s] EXCEPT !.pc = pc])
      \/ CommitRaises /\ Turn(c, s, [thread[c][s] EXCEPT !.pc = "raised"])
  BY <1>2, Zenon DEF ThreadCommits
<1> QED
  BY <1>6, <1>7, <1>8

(* A call begins; whether another is in flight is noted. *)
LEMMA BeginKeeps ==
  ASSUME PlanInv, NEW c \in Calls, NEW p \in Calls, Begin(c, p)
  PROVE  CallsInv'
<1>1. call[c].pc = "idle" /\ UNCHANGED <<storeVars, thread>>
  BY DEF Begin, At
<1>2. PICK r : r = [NoCall EXCEPT !.pc = "output", !.proc = p, !.slot = 1,
                                  !.crowded = InFlight # {}]
  OBVIOUS
<1>3. /\ r.pc = "output" /\ r.proc = p /\ r.slot = 1 /\ r.found = None
      /\ r.crowded = (InFlight # {})
      /\ r \in [pc : {"output"}, proc : Calls, slot : {1}, found : {None}, crowded : BOOLEAN]
  BY <1>2 DEF NoCall
<1>4. r \in CallType /\ r.slot \in SlotSet
  BY <1>3, SlotsAre DEF CallType
<1>5. call' = [call EXCEPT ![c] = r]
  BY <1>2, Zenon DEF Begin, Become
<1>6. /\ call' \in [Calls -> CallType] /\ call'[c] = r
      /\ \A d \in Calls \ {c} : call'[d] = call[d]
      /\ thread' \in [Calls -> [SlotSet -> ThreadType]] /\ thread' = thread
  BY <1>1, <1>4, <1>5 DEF PlanInv, CallsInv
<1>7. StoreGrows /\ records' = records
  BY <1>1, StoreStays DEF PlanInv, SessionsInv
<1>8. PlanGrows /\ PlanStays
  BY <1>7, PlanRecordsStay DEF PlanInv
<1>9. ASSUME NEW d \in Calls PROVE CallOK(call[d], thread[d])'
  <2>1. PICK row : row = thread[d]
    OBVIOUS
  <2>2. PICK k : k = IF d = c THEN r ELSE call[d]
    OBVIOUS
  <2>3. CallOK(call[d], row)
    BY <2>1 DEF PlanInv, CallsInv
  <2>4. CallOK(k, row)
    BY <1>1, <1>3, <1>4, <2>2, <2>3 DEF CallOK, Waiting, Deciding
  <2>5. CallOK(k, row)'
    BY <1>7, <1>8, <2>4, CallStays
  <2> QED
    BY <1>6, <2>1, <2>2, <2>5
<1>10. NeverCrowded' => NeverCrowded /\ InFlight = {}
  <2>1. ~call[c].crowded
    BY <1>1 DEF PlanInv, CallsInv, CallOK
  <2> QED
    BY <1>3, <1>6, <2>1 DEF NeverCrowded
<1>11. InFlight = {} => \A d \in InFlight' : d = c
  BY <1>6 DEF InFlight
<1>12. ASSUME NeverCrowded, NEW d \in Calls PROVE AloneOK(call[d], thread[d])'
  <2>1. CASE d = c
    BY <1>3, <1>6, <2>1 DEF AloneOK, Deciding
  <2>2. CASE d # c
    <3>1. CallOK(call[d], thread[d]) /\ AloneOK(call[d], thread[d])
      BY <1>12 DEF PlanInv, CallsInv
    <3>2. \A k, t : CallOK(k, t) /\ AloneOK(k, t) => AloneOK(k, t)'
      BY <1>8, AloneStays
    <3> QED
      BY <1>6, <2>2, <3>1, <3>2
  <2> QED
    BY <2>1, <2>2
<1>13. NeverCrowded => \A s \in SlotSet : SlotFact(s)'
  BY <1>8, SlotFactStays DEF PlanInv, CallsInv
<1> QED
  BY <1>6, <1>9, <1>10, <1>11, <1>12, <1>13 DEF CallsInv

(* A process dies with its calls and their threads. *)
LEMMA DieKeeps ==
  ASSUME PlanInv, NEW p \in Calls, Die(p)
  PROVE  CallsInv'
<1> DEFINE cleared == [s \in SlotSet |-> NoThread]
<1>1. UNCHANGED storeVars
  BY DEF Die
<1>2. /\ cleared \in [SlotSet -> ThreadType]
      /\ \A s \in SlotSet : cleared[s].pc = "none" /\ cleared[s].gate = "free"
  BY DEF NoThread, ThreadType
<1> HIDE DEF cleared
<1>3. ASSUME NEW d \in Calls
      PROVE  \E k \in CallType, row \in [SlotSet -> ThreadType] :
                /\ call'[d] = k /\ thread'[d] = row
                /\ k.crowded = call[d].crowded
                /\ CallOK(k, row)
                /\ k.pc \notin Ended => d \in InFlight
                /\ \/ k = call[d] /\ row = thread[d]
                   \/ k.pc \in Ended
  <2>1. /\ call[d] \in CallType /\ thread[d] \in [SlotSet -> ThreadType]
        /\ CallOK(call[d], thread[d])
    BY DEF PlanInv, CallsInv
  <2>2. /\ call'[d] = IF call[d].proc = p /\ d \in InFlight
                      THEN [call[d] EXCEPT !.pc = "dead"] ELSE call[d]
        /\ thread'[d] = IF call[d].proc = p THEN cleared ELSE thread[d]
    BY DEF Die, cleared
  <2>3. CASE call[d].proc # p
    BY <2>1, <2>2, <2>3 DEF InFlight
  <2>4. CASE call[d].proc = p /\ d \in InFlight
    <3>1. PICK k : k = [call[d] EXCEPT !.pc = "dead"]
      OBVIOUS
    <3>2. k \in CallType /\ k.pc = "dead" /\ k.crowded = call[d].crowded
      BY <2>1, <3>1 DEF CallType, Ended
    <3>3. CallOK(k, cleared)
      BY <1>2, <3>2 DEF CallOK, ThreadOK, Waiting, Deciding
    <3>4. call'[d] = k /\ thread'[d] = cleared /\ k.pc \in Ended
      BY <2>2, <2>4, <3>1, <3>2 DEF Ended
    <3> QED
      BY <1>2, <3>2, <3>3, <3>4
  <2>5. CASE call[d].proc = p /\ d \notin InFlight
    <3>1. call[d].pc \in Ended
      BY <2>5 DEF InFlight
    <3>2. CallOK(call[d], cleared)
      BY <1>2, <2>1, <3>1 DEF CallOK, ThreadOK, Waiting, Deciding, Ended
    <3>3. call'[d] = call[d] /\ thread'[d] = cleared
      BY <2>2, <2>5
    <3> QED
      BY <1>2, <2>1, <3>1, <3>2, <3>3
  <2> QED
    BY <2>3, <2>4, <2>5
<1>4. call' \in [Calls -> CallType] /\ thread' \in [Calls -> [SlotSet -> ThreadType]]
  <2>1. DOMAIN call' = Calls /\ DOMAIN thread' = Calls
        /\ call' = [d \in Calls |-> call'[d]] /\ thread' = [d \in Calls |-> thread'[d]]
    BY DEF Die
  <2>2. \A d \in Calls : call'[d] \in CallType /\ thread'[d] \in [SlotSet -> ThreadType]
    BY <1>3
  <2> QED
    BY <2>1, <2>2
<1>5. StoreGrows /\ records' = records
  BY <1>1, StoreStays DEF PlanInv, SessionsInv
<1>6. PlanGrows /\ PlanStays
  BY <1>5, PlanRecordsStay DEF PlanInv
<1>7. ASSUME NEW d \in Calls PROVE CallOK(call[d], thread[d])'
  <2>1. PICK k \in CallType, row \in [SlotSet -> ThreadType] :
            call'[d] = k /\ thread'[d] = row /\ CallOK(k, row)
    BY <1>3
  <2>2. CallOK(k, row)'
    BY <1>5, <1>6, <2>1, CallStays
  <2> QED
    BY <2>1, <2>2
<1>8. NeverCrowded' => NeverCrowded
  BY <1>3 DEF NeverCrowded
<1>9. \A d \in InFlight' : d \in InFlight
  BY <1>3 DEF InFlight
<1>10. ASSUME NeverCrowded, NEW d \in Calls PROVE AloneOK(call[d], thread[d])'
  <2>1. PICK k \in CallType, row \in [SlotSet -> ThreadType] :
            /\ call'[d] = k /\ thread'[d] = row /\ CallOK(k, row)
            /\ (k = call[d] /\ row = thread[d]) \/ k.pc \in Ended
    BY <1>3
  <2>2. CASE k.pc \in Ended
    BY <2>1, <2>2 DEF AloneOK, Deciding, Ended
  <2>3. CASE k = call[d] /\ row = thread[d]
    <3>1. AloneOK(k, row)
      BY <1>10, <2>3 DEF PlanInv, CallsInv
    <3>2. AloneOK(k, row)'
      BY <1>6, <2>1, <3>1, AloneStays
    <3> QED
      BY <2>1, <3>2
  <2> QED
    BY <2>1, <2>2, <2>3
<1>11. NeverCrowded => \A s \in SlotSet : SlotFact(s)'
  BY <1>6, SlotFactStays DEF PlanInv, CallsInv
<1> QED
  BY <1>4, <1>7, <1>8, <1>9, <1>10, <1>11 DEF PlanInv, CallsInv

-----------------------------------------------------------------------------
(* The opener, the sessions, and every other writer. *)

(* The plan is committed with the State that its unit was opened on.       *)
LEMMA OpenerKeeps ==
  ASSUME PlanInv, OpenerNext, UNCHANGED session
  PROVE  PlanInv'
<1>1. /\ opener \in OpenerType /\ Real(opener.held) /\ opener.held \in Snap
      /\ UNCHANGED <<call, thread>>
  BY DEF PlanInv, OpenerOK, OpenerType, OpenerNext, OpenPlan, OpenUnit, CommitPlan, Reopen
<1>2. ASSUME NEW o \in OpenerType, opener' = o, o.held = opener.held,
             o.pc = "plan" => o.unit = o.held, StoreGrows
      PROVE  OpenerOK'
  <2>1. \A snapshot : Real(snapshot) => Real(snapshot)'
    BY <1>2, RecordStays
  <2>2. Real(o.held)'
    BY <1>1, <1>2, <2>1
  <2> QED
    BY <1>2, <2>2 DEF OpenerOK
<1>3. ASSUME UNCHANGED storeVars, OpenerOK' PROVE PlanInv'
  <2>1. StoreGrows /\ records' = records
    BY <1>3, StoreStays DEF PlanInv, SessionsInv
  <2>2. PlanRecordsOK' /\ PlanGrows /\ PlanStays
    BY <2>1, PlanRecordsStay DEF PlanInv
  <2>3. RecordsOK'
    BY <2>1, RecordStays DEF PlanInv, SessionsInv, RecordsOK
  <2>4. SessionsInv' /\ CallsInv'
    BY <1>1, <2>1, <2>2, <2>3, SessionsKeep, CallsStay DEF PlanInv
  <2> QED
    BY <1>3, <2>2, <2>4 DEF PlanInv
<1>4. ASSUME UNCHANGED storeVars, NEW pc \in {"active", "unit"},
             opener' = [opener EXCEPT !.pc = pc]
      PROVE  PlanInv'
  <2>1. PICK o : o = [opener EXCEPT !.pc = pc]
    OBVIOUS
  <2>2. o \in OpenerType /\ o.pc = pc /\ o.held = opener.held
    BY <1>1, <2>1 DEF OpenerType
  <2>3. StoreGrows
    BY <1>4, StoreStays DEF PlanInv, SessionsInv
  <2>4. opener' = o
    BY <1>4, <2>1
  <2>5. OpenerOK'
    BY <1>2, <2>2, <2>3, <2>4
  <2> QED
    BY <1>3, <1>4, <2>5
<1>5. CASE OpenPlan
  BY <1>4, <1>5 DEF OpenPlan
<1>6. CASE CommitRaises /\ opener' = [opener EXCEPT !.pc = "active"]
  BY <1>4, <1>6 DEF CommitRaises
<1>7. CASE CommitRecords(UnitRecords(opener.held))
           /\ opener' = [opener EXCEPT !.pc = "plan", !.unit = opener.held]
  <2>1. PICK o : o = [opener EXCEPT !.pc = "plan", !.unit = opener.held]
    OBVIOUS
  <2>2. o \in OpenerType /\ o.pc = "plan" /\ o.held = opener.held /\ o.unit = o.held
    BY <1>1, <2>1 DEF OpenerType
  <2>3. opener' = o
    BY <1>7, <2>1, Zenon
  <2>4. /\ \A n \in UnitRecords(opener.held) : RecordOK(n) /\ n.key.kind = "work_unit"
    BY <1>1, UnitRecordOK
  <2>5. StoreGrows /\ RecordsOK'
    BY <1>7, <2>4, CommitGrows, RecordsCommit DEF PlanInv, SessionsInv
  <2>6. PlanRecordsOK' /\ PlanGrows /\ PlanStays
    BY <1>7, <2>4, PlanRecordsBeside DEF PlanInv, SessionsInv
  <2>7. SessionsInv' /\ CallsInv'
    BY <1>1, <2>5, <2>6, SessionsKeep, CallsStay DEF PlanInv
  <2>8. OpenerOK'
    BY <1>2, <2>2, <2>3, <2>5
  <2> QED
    BY <2>6, <2>7, <2>8 DEF PlanInv
<1>8. CASE OpenerIs("plan") /\ opener' = [opener EXCEPT !.pc = "done"]
           /\ CommitRecords({Record(PlanKey, PlanOf(opener.held, opener.unit))})
  <2>1. PICK o : o = [opener EXCEPT !.pc = "done"]
    OBVIOUS
  <2>2. o \in OpenerType /\ o.pc = "done" /\ o.held = opener.held
    BY <1>1, <2>1 DEF OpenerType
  <2>3. opener' = o
    BY <1>8, <2>1
  <2>4. PICK plan : plan = PlanOf(opener.held, opener.unit)
    OBVIOUS
  <2>5. PlanBodyOK(plan)
    BY <1>1, <1>8, <2>4 DEF PlanOf, PlanBodyOK, PlanAdapter, OpenerIs, PlanInv, OpenerOK
  <2>6. PICK new : new = {Record(PlanKey, plan)}
    OBVIOUS
  <2>7. \A n \in new : n.key = PlanKey /\ n.body = plan
    BY <2>6 DEF Record
  <2>8. CommitRecords(new)
    BY <1>8, <2>4, <2>6
  <2>9. /\ \A n \in new : n.key.kind = "plan" /\ n.key \in PlanKeys
        /\ \A n \in new, s \in SlotSet : n.key # ClaimKey(s) /\ n.key # OutputKey(s)
    BY <2>7, PlanKeysDiffer DEF PlanKeys
  <2>10. PlanRecordsOK' /\ PlanGrows
    BY <2>5, <2>7, <2>8, <2>9, PlanRecordsCommit DEF PlanInv, SessionsInv
  <2>11. PlanStays
    BY <2>7, <2>8, <2>9, PlanCommit DEF PlanStays, PlanKeys, PlanInv, SessionsInv, PlanRecordsOK
  <2>12. StoreGrows /\ RecordsOK'
    BY <2>8, <2>9, OtherRecordsOK DEF PlanInv, SessionsInv
  <2>13. SessionsInv' /\ CallsInv'
    BY <1>1, <2>10, <2>11, <2>12, SessionsKeep, CallsStay DEF PlanInv
  <2>14. OpenerOK'
    BY <1>2, <2>2, <2>3, <2>12
  <2> QED
    BY <2>10, <2>13, <2>14 DEF PlanInv
<1>9. CASE Reopen
  <2>1. PICK held \in Snap : held = Snapshot /\ Real(held)
    BY SnapshotReal DEF PlanInv, SessionsInv
  <2>2. PICK o : o = [pc |-> "active", held |-> held, unit |-> None]
    OBVIOUS
  <2>3. o \in OpenerType /\ o.pc = "active" /\ o.held = held
    BY <2>2 DEF OpenerType
  <2>4. opener' = o /\ UNCHANGED storeVars
    BY <1>9, <2>1, <2>2 DEF Reopen
  <2>5. Real(held)'
    BY <2>1, <2>4, StoreStays, RecordStays DEF PlanInv, SessionsInv
  <2>6. OpenerOK'
    BY <2>3, <2>4, <2>5 DEF OpenerOK
  <2> QED
    BY <1>3, <2>4, <2>6
<1>10. CASE OpenUnit
  BY <1>6, <1>7, <1>10 DEF OpenUnit, OpenUnitOn
<1>11. CASE CommitPlan
  BY <1>6, <1>8, <1>11 DEF CommitPlan
<1> QED
  BY <1>5, <1>9, <1>10, <1>11 DEF OpenerNext

(* What a session commits is of its own kinds. *)
LEMMA RuntimeCommits ==
  ASSUME SessionsInv, RuntimeNext
  PROVE  UNCHANGED storeVars \/ \E new \in SUBSET SessionRecords : CommitRecords(new)
<1> SUFFICES ASSUME NEW s \in Sessions,
               \/ StartAgent(s) \/ Release(s) \/ OpenWorkUnit(s)
               \/ \E u \in WorkUnits : Execute(s, u) \/ Recover(s, u)
               \/ \E a \in Adapters, n \in Normalized : AdapterReturns(s, a, n)
               \/ AdapterRaises(s)
               \/ \E before, after \in Envelopes : RecordSwap(s, before, after)
               \/ CommitPending(s)
             PROVE  UNCHANGED storeVars
                    \/ \E new \in SUBSET SessionRecords : CommitRecords(new)
  BY DEF RuntimeNext
<1>1. session[s].pending \in SUBSET SessionRecords
  BY DEF SessionsInv, SessionType
<1>2. CASE CommitPending(s)
  BY <1>1, <1>2 DEF CommitPending, CommitRaises
<1>3. CASE ~CommitPending(s)
  BY <1>3 DEF StartAgent, Release, OpenWorkUnit, Execute, Recover, AdapterReturns,
              AdapterRaises, RecordSwap, Prepared
<1> QED
  BY <1>2, <1>3

(* A session commits nothing of the plan.                                *)
LEMMA SessionsStepKeeps ==
  ASSUME PlanInv, RuntimeNext, UNCHANGED planVars
  PROVE  PlanInv'
<1>1. SessionsInv'
  BY RuntimeKeeps DEF PlanInv
<1>2. StoreGrows /\ PlanRecordsOK' /\ PlanGrows /\ PlanStays
  <2>1. CASE UNCHANGED storeVars
    <3>1. StoreGrows /\ records' = records
      BY <2>1, StoreStays DEF PlanInv, SessionsInv
    <3> QED
      BY <3>1, PlanRecordsStay DEF PlanInv
  <2>2. ASSUME NEW new \in SUBSET SessionRecords, CommitRecords(new)
        PROVE  StoreGrows /\ PlanRecordsOK' /\ PlanGrows /\ PlanStays
    <3>1. \A n \in new : n.key.kind \in {"work_unit", "envelope", "swap", "recovery"}
      BY DEF SessionRecords, UnitKeys, EnvelopeKeys, SwapKeys, RecoveryKeys
    <3> QED
      BY <2>2, <3>1, CommitGrows, PlanRecordsBeside DEF PlanInv, SessionsInv
  <2> QED
    BY <2>1, <2>2, RuntimeCommits DEF PlanInv
<1>3. CallsInv'
  BY <1>2, CallsStay DEF PlanInv, planVars
<1>4. OpenerOK'
  BY <1>2, RecordStays DEF PlanInv, OpenerOK, planVars
<1> QED
  BY <1>1, <1>2, <1>3, <1>4 DEF PlanInv

(* Every other writer of the project: a State of any content, or records   *)
(* of any kinds but these.                                                 *)
AgentKinds ==
    {"work_unit", "envelope", "swap", "recovery", "plan", "claim", "slot_output",
     "release_receipt", "orchestration_receipt"}

OtherWriters ==
    /\ \/ \E c \in Contents : Transition(c)
       \/ \E new : (\A n \in new : n.key.kind \notin AgentKinds) /\ CommitRecords(new)
    /\ UNCHANGED <<session, planVars>>

(* Nor does any other writer.                                            *)
LEMMA OthersKeep ==
  ASSUME PlanInv, OtherWriters
  PROVE  PlanInv'
<1>1. StoreGrows /\ RecordsOK' /\ PlanRecordsOK' /\ PlanGrows /\ PlanStays
  <2>1. ASSUME NEW c \in Contents, Transition(c)
        PROVE  StoreGrows /\ RecordsOK' /\ PlanRecordsOK' /\ PlanGrows /\ PlanStays
    <3>1. StoreGrows /\ records' = records
      BY <2>1, TransitionGrows DEF PlanInv, SessionsInv
    <3>2. RecordsOK'
      BY <3>1, RecordStays DEF PlanInv, SessionsInv, RecordsOK
    <3> QED
      BY <3>1, <3>2, PlanRecordsStay DEF PlanInv
  <2>2. ASSUME NEW new, \A n \in new : n.key.kind \notin AgentKinds, CommitRecords(new)
        PROVE  StoreGrows /\ RecordsOK' /\ PlanRecordsOK' /\ PlanGrows /\ PlanStays
    BY <2>2, OtherRecordsOK, PlanRecordsBeside DEF AgentKinds, PlanInv, SessionsInv
  <2> QED
    BY <2>1, <2>2 DEF OtherWriters
<1>2. CallsInv'
  BY <1>1, CallsStay DEF PlanInv, OtherWriters, planVars
<1> QED
  BY <1>1, <1>2, PlanKeeps DEF OtherWriters, planVars

(* Every step of the calls and their threads.                            *)
LEMMA CallsKeep ==
  ASSUME PlanInv, CallsNext, UNCHANGED session
  PROVE  PlanInv'
<1>1. ASSUME NEW c \in Calls, NEW p \in Calls, Begin(c, p) PROVE PlanInv'
  BY <1>1, BeginKeeps, PlanKeepsStill DEF Begin
<1>2. ASSUME NEW c \in Calls, NEW s \in SlotSet, ThreadStep(c, s) PROVE PlanInv'
  <2>1. CASE ThreadAnswers(c, s)
    BY <2>1, ThreadAnswersKeeps, PlanKeepsStill DEF ThreadAnswers
  <2>2. CASE ThreadRaises(c, s)
    BY <2>2, ThreadRaisesKeeps, PlanKeepsStill DEF ThreadRaises
  <2>3. CASE ThreadChecks(c, s)
    BY <2>3, ThreadChecksKeeps, PlanKeepsStill DEF ThreadChecks
  <2>4. CASE ThreadCommits(c, s)
    BY <2>4, ThreadCommitsKeeps
  <2> QED
    BY <1>2, <2>1, <2>2, <2>3, <2>4 DEF ThreadStep
<1>3. ASSUME NEW c \in Calls, CallStep(c) PROVE PlanInv'
  <2>1. CASE FindOutput(c)
    BY <2>1, FindOutputKeeps, PlanKeepsStill DEF FindOutput
  <2>2. CASE FindClaim(c)
    BY <2>2, FindClaimKeeps, PlanKeepsStill DEF FindClaim
  <2>3. CASE StartAttempt(c)
    BY <2>3, StartAttemptKeeps, PlanKeepsStill DEF StartAttempt
  <2>4. CASE TakeResult(c)
    BY <2>4, TakeResultKeeps, PlanKeepsStill DEF TakeResult
  <2>5. CASE TakeError(c)
    BY <2>5, TakeErrorKeeps, PlanKeepsStill DEF TakeError
  <2>6. CASE TimeOut(c)
    BY <2>6, TimeOutKeeps, PlanKeepsStill DEF TimeOut
  <2>7. CASE AttemptFailed(c)
    BY <2>7, AttemptFailedKeeps, PlanKeepsStill DEF AttemptFailed
  <2>8. CASE CommitOutput(c)
    BY <2>8, CommitOutputKeeps
  <2>9. CASE CommitConflicts(c) \/ CommitAggregation(c)
    BY <2>9, CommitConflictsKeeps
  <2> QED
    BY <1>3, <2>1, <2>2, <2>3, <2>4, <2>5, <2>6, <2>7, <2>8, <2>9 DEF CallStep
<1>4. ASSUME NEW p \in Calls, Die(p) PROVE PlanInv'
  BY <1>4, DieKeeps, PlanKeepsStill DEF Die
<1> QED
  BY <1>1, <1>2, <1>3, <1>4, HandOffKeeps DEF CallsNext

-----------------------------------------------------------------------------
(* The theorems: sessions, a plan and every other writer, in one Store.    *)

AgentsInit == StoreInit /\ RuntimeInit /\ PlanInit

AgentsNextAny ==
    \/ RuntimeNext /\ UNCHANGED planVars
    \/ (OpenerNext \/ CallsNext) /\ UNCHANGED session
    \/ OtherWriters

agentVars == <<storeVars, session, planVars>>

AgentsSpec == AgentsInit /\ [][AgentsNextAny]_agentVars

(* Nothing is committed, no agent, call or thread has begun.             *)
LEMMA PlanInvInit == AgentsInit => PlanInv
<1> SUFFICES ASSUME AgentsInit PROVE PlanInv
  OBVIOUS
<1>1. HistoryOK /\ records = {}
  BY DEF AgentsInit, StoreInit, HistoryOK
<1>2. SessionsInv
  <2>1. NoSession \in SessionType /\ NoSession.pc = "released"
    BY DEF NoSession, SessionType
  <2>2. session \in [Sessions -> SessionType] /\ \A s \in Sessions : session[s].pc = "released"
    BY <2>1 DEF AgentsInit, RuntimeInit
  <2> QED
    BY <1>1, <2>2 DEF SessionsInv, RecordsOK, SessionOK
<1>3. \A key : ~Committed(key)
  BY <1>1 DEF Committed
<1>4. PlanRecordsOK
  BY <1>1, <1>3 DEF PlanRecordsOK, BodiesUnique, ClaimsOK, Claimed, AcceptedIsWitnessed,
                    Settled, EvidenceUnanimous
<1>5. OpenerOK
  <2>1. PICK held \in Snap : held = Snapshot /\ Real(held)
    BY <1>1, SnapshotReal
  <2>2. opener = [pc |-> "active", held |-> held, unit |-> None]
    BY <2>1 DEF AgentsInit, PlanInit
  <2> QED
    BY <2>1, <2>2 DEF OpenerOK, OpenerType
<1>6. CallsInv
  <2>1. PICK row : row = [s \in SlotSet |-> NoThread]
    OBVIOUS
  <2>2. /\ row \in [SlotSet -> ThreadType]
        /\ \A s \in SlotSet : row[s].pc = "none" /\ row[s].gate = "free"
    BY <2>1 DEF NoThread, ThreadType
  <2>3. /\ NoCall \in [pc : {"idle"}, proc : {None}, slot : {0}, found : {None},
                       crowded : BOOLEAN]
        /\ NoCall.pc = "idle" /\ NoCall.crowded = FALSE
    BY DEF NoCall
  <2>4. NoCall \in CallType
    BY <2>3, SlotsAre DEF CallType, Ended
  <2>5. call = [c \in Calls |-> NoCall] /\ thread = [c \in Calls |-> row]
    BY <2>1 DEF AgentsInit, PlanInit
  <2>6. CallOK(NoCall, row) /\ AloneOK(NoCall, row)
    BY <2>2, <2>3 DEF CallOK, AloneOK, ThreadOK, Waiting, Deciding
  <2>7. InFlight = {}
    BY <2>3, <2>5 DEF InFlight, Ended
  <2>8. \A s \in SlotSet : SlotFact(s)
    BY <1>3 DEF SlotFact, Claimed
  <2> QED
    BY <2>2, <2>4, <2>5, <2>6, <2>7, <2>8 DEF CallsInv
<1> QED
  BY <1>2, <1>4, <1>5, <1>6 DEF PlanInv

(* Every step keeps the invariant.                                       *)
LEMMA PlanInvStep == PlanInv /\ [AgentsNextAny]_agentVars => PlanInv'
<1> SUFFICES ASSUME PlanInv, [AgentsNextAny]_agentVars PROVE PlanInv'
  OBVIOUS
<1>1. CASE UNCHANGED agentVars
  <2>1. StoreGrows /\ records' = records /\ UNCHANGED <<session, opener, call, thread>>
    BY <1>1, StoreStays DEF agentVars, planVars, PlanInv, SessionsInv
  <2>2. PlanRecordsOK' /\ PlanGrows /\ PlanStays
    BY <2>1, PlanRecordsStay DEF PlanInv
  <2>3. CallsInv'
    BY <2>1, <2>2, CallsStay DEF PlanInv
  <2> QED
    BY <1>1, <2>1, <2>3, PlanKeepsStill DEF agentVars
<1>2. CASE AgentsNextAny
  BY <1>2, SessionsStepKeeps, OpenerKeeps, CallsKeep, OthersKeep DEF AgentsNextAny
<1> QED
  BY <1>1, <1>2

(* The invariant of sessions, plan and calls.                            *)
LEMMA PlanInvHolds == AgentsSpec => []PlanInv
<1> QED
  BY PlanInvInit, PlanInvStep, PTL DEF AgentsSpec

(* Every State that a record of the model runtime names is one the Store   *)
(* had, and a work unit is carried forward only: what open_model_work_unit,*)
(* execute_model_work_unit, record_model_swap and recovery commit, however *)
(* many agents run and whatever others write meanwhile.                    *)
THEOREM SessionsHold == AgentsSpec => []SessionsSound
<1>1. PlanInv => SessionsSound
  BY SessionsInvSound DEF PlanInv
<1> QED
  BY <1>1, PlanInvHolds, PTL

(* The invariant of the calls says what each slot is promised.             *)
LEMMA PlanInvSound == PlanInv => SlotsSound
<1> SUFFICES ASSUME PlanInv PROVE SlotsSound
  OBVIOUS
<1>1. opener.pc \in {"active", "unit", "plan", "done"}
  BY DEF PlanInv, OpenerOK, OpenerType
<1>2. ASSUME NEW c \in Calls
      PROVE  /\ call[c].pc \in Ended \cup {"output", "claim", "start", "wait",
                   "blocked", "failed", "settle", "conflicts", "aggregate"}
             /\ call[c].proc \in Calls \cup {None}
             /\ call[c].slot \in 0..Slots + 1
             /\ \A s \in SlotSet :
                   /\ thread[c][s].pc \in {"none", "adapter", "answered",
                         "committing", "done", "raised"}
                   /\ thread[c][s].gate \in {"free", "thread", "coordinator"}
  <2>1. call[c] \in CallType /\ thread[c] \in [SlotSet -> ThreadType]
    BY DEF PlanInv, CallsInv
  <2> QED
    BY <2>1 DEF CallType, ThreadType
<1>3. ASSUME NEW c \in Calls, call[c].pc = "settle"
      PROVE  call[c].found.candidate = None <=> call[c].found.outcome # "CANDIDATE_ACCEPTED"
  BY <1>3 DEF PlanInv, CallsInv, CallOK, FoundOK, FoundType
<1>4. PlanTypeOK
  BY <1>1, <1>2, <1>3 DEF PlanTypeOK
<1>5. PlanExecutable
  <2>1. ASSUME Committed(PlanKey) PROVE PinValid
    <3>1. Plan.boot \in Snap /\ Plan.boot = Plan.unit /\ Plan.boot.revision \in DOMAIN history
      BY <2>1 DEF PlanInv, PlanRecordsOK, PlanBodyOK, Real
    <3>2. DOMAIN history = 1..Revision
      BY DEF PlanInv, SessionsInv, HistoryOK, Revision
    <3> QED
      BY <3>1, <3>2, SnapshotReal DEF PinValid, PlanInv, SessionsInv
  <2> QED
    BY <2>1 DEF PlanExecutable
<1>6. OneTerminalFact
  BY DEF OneTerminalFact, PlanInv, CallsInv, SlotFact
<1>7. BlockedOnCommitOnly
  BY DEF BlockedOnCommitOnly, At, ThreadOf, PlanInv, CallsInv, CallOK
<1> QED
  BY <1>4, <1>5, <1>6, <1>7 DEF SlotsSound, PlanInv, PlanRecordsOK

(* What execute_dynamic_execution_plan promises of each slot: the plan can *)
(* be executed, an accepted output has its envelope and claim behind it, a *)
(* call waits without limit for a commit only, and calls that do not       *)
(* overlap leave one terminal fact of a slot, whatever timed out, raised   *)
(* or died.                                                                *)
THEOREM SlotsHold == AgentsSpec => []SlotsSound
<1> QED
  BY PlanInvSound, PlanInvHolds, PTL

(* What route_orchestration_to_evidence committed is unanimous, and stays  *)
(* so whatever is executed after it.                                       *)
THEOREM EvidenceHolds == AgentsSpec => []EvidenceUnanimous
<1>1. PlanInv => EvidenceUnanimous
  BY DEF PlanInv, PlanRecordsOK
<1> QED
  BY <1>1, PlanInvHolds, PTL

(* A step of one thread leaves the others as they are.                     *)
LEMMA TurnElsewhere ==
  ASSUME PlanInv, NEW d \in Calls, NEW x \in SlotSet, NEW t, Turn(d, x, t),
         NEW c \in Calls, NEW s \in SlotSet
  PROVE  IF c = d /\ s = x THEN thread'[c][s] = t ELSE thread'[c][s] = thread[c][s]
<1>1. thread \in [Calls -> [SlotSet -> ThreadType]]
  BY DEF PlanInv, CallsInv
<1>2. PICK row : row = [thread[d] EXCEPT ![x] = t]
  OBVIOUS
<1>3. thread' = [thread EXCEPT ![d] = row]
  BY <1>2, Zenon DEF Turn
<1>4. /\ row[x] = t /\ \A y \in SlotSet \ {x} : row[y] = thread[d][y]
      /\ thread'[d] = row /\ \A e \in Calls \ {d} : thread'[e] = thread[e]
  BY <1>1, <1>2, <1>3
<1> QED
  BY <1>4

(* A call that nobody overlaps starts no adapter for a claimed slot.       *)
LEMMA StartsUnclaimed ==
  ASSUME PlanInv, [AgentsNextAny]_agentVars, NEW c \in Calls, NEW s \in SlotSet,
         NeverCrowded, Claimed(s), thread[c][s].pc = "none"
  PROVE  thread'[c][s].pc # "adapter"
<1>1. CASE thread' = thread
  BY <1>1
<1>2. ASSUME NEW d \in Calls, NEW x \in SlotSet, ThreadStep(d, x)
      PROVE  thread'[c][s].pc # "adapter"
  <2>1. thread[d][x].pc # "none"
    BY <1>2 DEF ThreadStep, ThreadAnswers, ThreadRaises, ThreadChecks, ThreadCommits
  <2>2. PICK t : Turn(d, x, t)
    BY <1>2 DEF ThreadStep, ThreadAnswers, ThreadRaises, ThreadChecks, ThreadCommits, ClaimsGate
  <2> QED
    BY <2>1, <2>2, TurnElsewhere
<1>3. ASSUME NEW d \in Calls, StartAttempt(d) PROVE thread'[c][s].pc # "adapter"
  <2>1. call[d].slot \in SlotSet /\ ~Claimed(call[d].slot)
    BY <1>3 DEF StartAttempt, At, PlanInv, CallsInv, CallOK, AloneOK, Deciding
  <2>2. CASE Turn(d, call[d].slot, NewThread)
    BY <2>1, <2>2, TurnElsewhere
  <2> QED
    BY <1>1, <1>3, <2>2 DEF StartAttempt
<1>4. ASSUME NEW d \in Calls, TakeResult(d) \/ TakeError(d)
      PROVE  thread'[c][s].pc # "adapter"
  <2>1. call[d].pc \in Waiting /\ Turn(d, call[d].slot, NoThread)
    BY <1>4 DEF TakeResult, TakeError, Waiting
  <2>2. call[d].slot \in SlotSet /\ NoThread.pc = "none"
    BY <2>1, WaitingIs DEF NoThread
  <2> QED
    BY <2>1, <2>2, TurnElsewhere
<1>5. ASSUME NEW d \in Calls, TimeOut(d) PROVE thread'[c][s].pc # "adapter"
  <2>1. call[d].pc \in Waiting
    BY <1>5 DEF TimeOut, At, Waiting
  <2>2. call[d].slot \in SlotSet /\ thread[d][call[d].slot].pc # "none"
    BY <2>1, WaitingIs DEF CallOK
  <2>3. CASE \E t : Turn(d, call[d].slot, t)
    BY <2>2, <2>3, TurnElsewhere
  <2> QED
    BY <1>1, <1>5, <2>3 DEF TimeOut
<1>6. ASSUME NEW p \in Calls, Die(p) PROVE thread'[c][s].pc # "adapter"
  <2>1. thread'[c] = IF call[c].proc = p THEN [x \in SlotSet |-> NoThread] ELSE thread[c]
    BY <1>6 DEF Die
  <2> QED
    BY <2>1 DEF NoThread
<1>7. CASE RuntimeNext /\ UNCHANGED planVars
  BY <1>1, <1>7 DEF planVars
<1>8. CASE OpenerNext
  BY <1>1, <1>8 DEF OpenerNext, OpenPlan, OpenUnit, CommitPlan, Reopen
<1>9. CASE OtherWriters
  BY <1>1, <1>9 DEF OtherWriters, planVars
<1>10. CASE CallsNext
  <2>1. CASE HandOff
    BY <1>1, <2>1 DEF HandOff, planVars
  <2>2. ASSUME NEW d \in Calls, NEW p \in Calls, Begin(d, p)
        PROVE  thread'[c][s].pc # "adapter"
    BY <1>1, <2>2 DEF Begin
  <2>3. ASSUME NEW d \in Calls, CallStep(d) PROVE thread'[c][s].pc # "adapter"
    <3>1. CASE FindOutput(d) \/ FindClaim(d) \/ AttemptFailed(d)
      BY <1>1, <3>1 DEF FindOutput, FindClaim, AttemptFailed
    <3>2. CASE CommitOutput(d) \/ CommitConflicts(d) \/ CommitAggregation(d)
      BY <1>1, <3>2 DEF CommitOutput, CommitConflicts, CommitAggregation
    <3> QED
      BY <1>3, <1>4, <1>5, <2>3, <3>1, <3>2 DEF CallStep
  <2> QED
    BY <1>2, <1>6, <1>10, <2>1, <2>2, <2>3 DEF CallsNext
<1>11. CASE UNCHANGED agentVars
  BY <1>1, <1>11 DEF agentVars, planVars
<1> QED
  BY <1>7, <1>8, <1>9, <1>10, <1>11 DEF AgentsNextAny

(* A retry after a crash, a lost answer or a timeout executes no slot a    *)
(* second time: a committed claim is adopted, its adapter is not called.   *)
THEOREM NotTwice == AgentsSpec => NotExecutedTwice
<1>1. PlanInv /\ [AgentsNextAny]_agentVars =>
        [\A c \in Calls, s \in SlotSet :
           NeverCrowded /\ Claimed(s) =>
             ~(thread[c][s].pc = "none" /\ thread'[c][s].pc = "adapter")]_<<storeVars, planVars>>
  BY StartsUnclaimed
<1> QED
  BY <1>1, PlanInvHolds, PTL DEF AgentsSpec, NotExecutedTwice

(***************************************************************************)
(* The ledger of bounded reviews.                                          *)
(***************************************************************************)
(* Launches, the operator and native reuse, beside each other.             *)
ReviewSpec == ReviewInit /\ [][LaunchesNext \/ NativeNext]_reviewVars

ClaimStatuses == {"NONE", "CLAIMED", "DISPATCHED", "ACK_UNKNOWN", "COMPLETED",
                  "FAILED", "ABANDONED_UNSENT"}

Claims == [status : ClaimStatuses, day : 0..LastDay, pid : Pids \cup {NoReview},
           cancelled : BOOLEAN]

(* The claims, the slot and the day's counts of the ledger.                *)
LedgerTyped ==
    /\ control = [claims |-> control.claims, days |-> control.days,
                  active |-> control.active, imports |-> control.imports]
    /\ control.claims \in [ReviewIds -> Claims]
    /\ control.days \in [1..LastDay -> 0..MaxPerDay]
    /\ sent \in [ReviewIds -> {0, 1}]
    /\ process \in [Pids -> ReviewIds \cup {"other", NoReview}]
    /\ today \in 1..LastDay

LaunchPcs == {"idle", "admitted", "claimed", "marked", "spawned", "confirmed",
              "collected"}
LaunchRecords == [pc : LaunchPcs, review : ReviewIds \cup {NoReview},
                  day : 0..LastDay, pid : Pids \cup {NoReview}]

(* The launcher that made the claim of a review.                           *)
Owns(l) == launch[l].pc \notin {"idle", "admitted"}

LauncherOK(l) ==
    /\ launch[l].pc # "idle" =>
          launch[l].review \in ReviewIds /\ launch[l].day \in 1..LastDay
    /\ launch[l].pc = "claimed" =>
          /\ Status(launch[l].review) \in {"CLAIMED", "ACK_UNKNOWN", "DISPATCHED"}
          /\ sent[launch[l].review] = 0
    /\ launch[l].pc = "marked" =>
          Status(launch[l].review) = "ACK_UNKNOWN" /\ sent[launch[l].review] = 0
    /\ launch[l].pc = "spawned" =>
          Status(launch[l].review) = "ACK_UNKNOWN" /\ sent[launch[l].review] = 1
    /\ launch[l].pc \in {"confirmed", "collected"} =>
          Status(launch[l].review) = "DISPATCHED" /\ sent[launch[l].review] = 1
    /\ launch[l].pc \in {"spawned", "confirmed", "collected"} => launch[l].pid \in Pids

(* Every launcher is where its claim says, and no claim has two.           *)
LaunchersOK ==
    /\ launch \in [Launchers -> LaunchRecords]
    /\ \A l \in Launchers : LauncherOK(l)
    /\ \A l, m \in Launchers :
          Owns(l) /\ Owns(m) /\ launch[l].review = launch[m].review => l = m

(* An unfinished claim has the slot; a day counts the claims made on it.   *)
ReviewClaimsOK ==
    /\ \A i \in ReviewIds :
          Status(i) \in {"CLAIMED", "ACK_UNKNOWN", "DISPATCHED"} => control.active = i
    /\ \A i \in ReviewIds :
          /\ Status(i) \in {"NONE", "CLAIMED"} => sent[i] = 0
          /\ Status(i) = "ACK_UNKNOWN" => control.claims[i].pid = NoReview
          /\ Status(i) = "NONE" => control.claims[i].day = 0
          /\ control.claims[i].pid # NoReview => sent[i] = 1
          /\ control.claims[i].cancelled => sent[i] = 1 /\ ~Runs(i)
    /\ \A d \in 1..LastDay :
          control.days[d] = Cardinality({i \in ReviewIds : control.claims[i].day = d})

(* A review runs in one process: that of its launcher, and of its claim.   *)
ProcessesOK ==
    \A p \in Pids : process[p] \in ReviewIds =>
        LET i == process[p] IN
        /\ sent[i] = 1 /\ Sent(i)
        /\ control.claims[i].pid \in {NoReview, p}
        /\ \A l \in Launchers : Owns(l) /\ launch[l].review = i =>
              launch[l].pc \in {"spawned", "confirmed"} /\ launch[l].pid = p
        /\ \A q \in Pids : process[q] = i => q = p

(* The operator cancels by the pid of the claim.                           *)
CancelOK ==
    \/ cancel.pc = "idle"
    \/ /\ cancel \in [pc : {"bound", "owned", "killed"}, review : ReviewIds, pid : Pids]
       /\ control.claims[cancel.review].pid = cancel.pid
       /\ cancel.pc = "killed" => ~Runs(cancel.review)

(* A review that says nothing against itself.                              *)
CleanFindings(findings) ==
    \A k \in DOMAIN findings : findings[k].status # "FAIL" /\ ~findings[k].blocking

(* Whatever is told verified was approved, or completed whole, and clean.  *)
ToldOK(answer) ==
    answer.class = "VERIFIED" =>
        /\ answer.seen.state \in {"APPROVED", "COMPLETED"}
        /\ answer.seen.state = "COMPLETED" => answer.seen.ended = "whole"
        /\ CleanFindings(answer.seen.findings)

(* A native review that is called verified was approved.                   *)
Approved(answer) ==
    answer.class = "VERIFIED" =>
        answer.seen.state = "APPROVED" /\ CleanFindings(answer.seen.findings)

(* So is every import that is called verified, by what its address says.   *)
NativeOK ==
    /\ native.pc \in {"idle", "fetched", "classified", "answered"}
    /\ native.pc \in {"classified", "answered"} =>
          /\ native = [pc |-> native.pc, grant |-> native.grant,
                       seen |-> native.seen, class |-> native.class]
          /\ Approved(native)
    /\ \A m \in control.imports : m.class = "VERIFIED" =>
          m.address.state = "APPROVED" /\ CleanFindings(m.address.findings)
    /\ told.pc = "answered" => ToldOK(told)

(***************************************************************************)
(* What the operations of the ledger write.                                *)
(***************************************************************************)
(* Only the claim of the review, the slot and the day's count are written. *)
Writes(i, c, days, active) ==
    /\ control' = [claims |-> control'.claims, days |-> control'.days,
                   active |-> control'.active, imports |-> control'.imports]
    /\ control'.claims \in [ReviewIds -> Claims]
    /\ control'.days = days /\ control'.active = active
    /\ control'.imports = control.imports
    /\ \A j \in ReviewIds : control'.claims[j] =
          IF j = i THEN c ELSE control.claims[j]

(* As a record.                                                            *)
LEMMA Written ==
  ASSUME LedgerTyped, NEW i \in ReviewIds, NEW c \in Claims, NEW days, NEW active,
         control' = [claims |-> [control.claims EXCEPT ![i] = c], days |-> days,
                     active |-> active, imports |-> control.imports]
  PROVE  Writes(i, c, days, active)
BY DEF Writes, LedgerTyped

(* claim_review_launch writes a new claim, the slot and the day's count.   *)
LEMMA ClaimWrites ==
  ASSUME LedgerTyped, NEW i \in ReviewIds, NEW day \in 1..LastDay,
         ClaimReview(i, day)
  PROVE  \E c \in Claims :
            /\ c.status = "CLAIMED" /\ c.day = day /\ c.pid = NoReview
            /\ ~c.cancelled
            /\ Writes(i, c, [control.days EXCEPT ![day] = @ + 1], i)
<1> DEFINE a == control.claims  b == control.days  k == control.active  m == control.imports
           c == [Unclaimed EXCEPT !.status = "CLAIMED", !.day = day]
<1>1. control = [claims |-> a, days |-> b, active |-> k, imports |-> m]
  BY DEF LedgerTyped
<1>2. control' = [control EXCEPT !.claims[i] = c, !.days[day] = @ + 1, !.active = i]
  BY DEF ClaimReview
<1>3. /\ c \in Claims /\ c.status = "CLAIMED" /\ c.day = day /\ c.pid = NoReview
      /\ ~c.cancelled
  <2>1. /\ Unclaimed \in Claims /\ Unclaimed.pid = NoReview /\ ~Unclaimed.cancelled
        /\ day \in 0..LastDay /\ "CLAIMED" \in ClaimStatuses
    BY CeilingAssumption DEF Unclaimed, Claims, ClaimStatuses
  <2> QED
    BY <2>1 DEF Claims
<1> HIDE DEF a, b, k, m, c
<1>4. control' = [claims |-> [a EXCEPT ![i] = c], days |-> [b EXCEPT ![day] = @ + 1],
                  active |-> i, imports |-> m]
  BY <1>1, <1>2, Zenon
<1>5. PICK e \in Claims : e = c
  BY <1>3
<1>7. PICK d : d = [control.days EXCEPT ![day] = @ + 1]
  OBVIOUS
<1>6. Writes(i, e, d, i)
  <2>1. control' = [claims |-> [control.claims EXCEPT ![i] = e], days |-> d,
                    active |-> i, imports |-> control.imports]
    BY <1>4, <1>5, <1>7 DEF a, b, k, m
  <2> QED
    BY <2>1, Written
<1> QED
  BY <1>3, <1>5, <1>6, <1>7 DEF Writes

(* A claim with some of its fields replaced, the slot kept or given back.  *)
LEMMA FieldWrites ==
  ASSUME LedgerTyped, NEW i \in ReviewIds, NEW c \in Claims, NEW active,
         \/ control' = [control EXCEPT !.claims[i] = c] /\ active = control.active
         \/ control' = [control EXCEPT !.claims[i] = c, !.active = active]
  PROVE  Writes(i, c, control.days, active)
<1> DEFINE a == control.claims  b == control.days  k == control.active  m == control.imports
<1>1. control = [claims |-> a, days |-> b, active |-> k, imports |-> m]
  BY DEF LedgerTyped
<1> HIDE DEF a, b, k, m
<1>2. CASE control' = [control EXCEPT !.claims[i] = c] /\ active = control.active
  <2>1. control' = [claims |-> [a EXCEPT ![i] = c], days |-> b, active |-> k, imports |-> m]
    BY <1>1, <1>2, Zenon
  <2>2. control' = [claims |-> [control.claims EXCEPT ![i] = c],
                    days |-> control.days, active |-> active, imports |-> control.imports]
    BY <2>1, <1>2 DEF a, b, k, m
  <2> QED
    BY <2>2 DEF Writes, LedgerTyped
<1>3. CASE control' = [control EXCEPT !.claims[i] = c, !.active = active]
  <2>1. control' = [claims |-> [a EXCEPT ![i] = c], days |-> b, active |-> active, imports |-> m]
    BY <1>1, <1>3, Zenon
  <2>2. control' = [claims |-> [control.claims EXCEPT ![i] = c],
                    days |-> control.days, active |-> active, imports |-> control.imports]
    BY <2>1 DEF a, b, k, m
  <2> QED
    BY <2>2 DEF Writes, LedgerTyped
<1> QED
  BY <1>2, <1>3

(* record_dispatch_attempt writes the status of the claim.                 *)
LEMMA DispatchWrites ==
  ASSUME LedgerTyped, NEW i \in ReviewIds, NEW acknowledged \in BOOLEAN,
         RecordDispatchAttempt(i, acknowledged)
  PROVE  \E c \in Claims :
            /\ c = [control.claims[i] EXCEPT !.status =
                       IF acknowledged THEN "DISPATCHED" ELSE "ACK_UNKNOWN"]
            /\ Writes(i, c, control.days, control.active)
<1> DEFINE s == IF acknowledged THEN "DISPATCHED" ELSE "ACK_UNKNOWN"
           c == [control.claims[i] EXCEPT !.status = s]
<1>1. c \in Claims
  <2>1. control.claims[i] \in Claims /\ {"DISPATCHED", "ACK_UNKNOWN"} \subseteq ClaimStatuses
    BY DEF LedgerTyped, ClaimStatuses
  <2> QED
    BY <2>1 DEF Claims
<1>2. control' = [control EXCEPT !.claims[i].status = s]
  BY DEF RecordDispatchAttempt
<1>3. control' = [control EXCEPT !.claims[i] = c]
  BY <1>2, Zenon
<1> HIDE DEF c
<1>4. Writes(i, c, control.days, control.active)
  BY <1>1, <1>3, FieldWrites DEF Writes
<1> QED
  BY <1>1, <1>4 DEF c

(* confirm_dispatch_sent writes the status and the pid of the claim.       *)
LEMMA ConfirmWrites ==
  ASSUME LedgerTyped, NEW i \in ReviewIds, NEW pid \in Pids,
         ConfirmDispatchSent(i, pid)
  PROVE  \E c \in Claims :
            /\ c = [control.claims[i] EXCEPT !.status = "DISPATCHED", !.pid = pid]
            /\ Writes(i, c, control.days, control.active)
<1> DEFINE c == [control.claims[i] EXCEPT !.status = "DISPATCHED", !.pid = pid]
<1>1. c \in Claims
  <2>1. control.claims[i] \in Claims /\ {"DISPATCHED", "ACK_UNKNOWN"} \subseteq ClaimStatuses
    BY DEF LedgerTyped, ClaimStatuses
  <2> QED
    BY <2>1 DEF Claims
<1>2. control' = [control EXCEPT !.claims[i] = c]
  BY Zenon DEF ConfirmDispatchSent
<1> HIDE DEF c
<1>3. Writes(i, c, control.days, control.active)
  BY <1>1, <1>2, FieldWrites DEF Writes
<1> QED
  BY <1>1, <1>3 DEF c

(* record_review_outcome and release_unsent_claim write a status and give  *)
(* the slot back.                                                          *)
LEMMA OutcomeWrites ==
  ASSUME LedgerTyped, NEW i \in ReviewIds, NEW status \in ClaimStatuses,
         \/ RecordReviewOutcome(i, status)
         \/ status = "ABANDONED_UNSENT" /\ ReleaseUnsentClaim(i)
  PROVE  \E c \in Claims :
            /\ c = [control.claims[i] EXCEPT !.status = status]
            /\ Writes(i, c, control.days, Released(i))
<1> DEFINE c == [control.claims[i] EXCEPT !.status = status]
<1>1. c \in Claims
  BY DEF LedgerTyped, Claims
<1>2. control' = [control EXCEPT !.claims[i].status = status, !.active = Released(i)]
  BY Zenon DEF RecordReviewOutcome, ReleaseUnsentClaim
<1>3. control' = [control EXCEPT !.claims[i] = c, !.active = Released(i)]
  BY <1>2, Zenon
<1> HIDE DEF c
<1>4. Writes(i, c, control.days, Released(i))
  BY <1>1, <1>3, FieldWrites DEF Writes
<1> QED
  BY <1>1, <1>4 DEF c

(* record_local_cancellation_confirmed writes that alone.                  *)
LEMMA CancellationWrites ==
  ASSUME LedgerTyped, NEW i \in ReviewIds, RecordLocalCancellation(i)
  PROVE  \E c \in Claims :
            /\ c = [control.claims[i] EXCEPT !.cancelled = TRUE]
            /\ Writes(i, c, control.days, control.active)
<1> DEFINE c == [control.claims[i] EXCEPT !.cancelled = TRUE]
<1>1. c \in Claims
  BY DEF LedgerTyped, Claims
<1>2. control' = [control EXCEPT !.claims[i] = c]
  BY Zenon DEF RecordLocalCancellation
<1> HIDE DEF c
<1>3. Writes(i, c, control.days, control.active)
  BY <1>1, <1>2, FieldWrites DEF Writes
<1> QED
  BY <1>1, <1>3 DEF c

(***************************************************************************)
(* Steps that touch one part only.                                         *)
(***************************************************************************)
LedgerInv == LedgerTyped /\ LaunchersOK /\ ReviewClaimsOK /\ ProcessesOK /\ CancelOK

(* A launcher that has no claim, or gives up the one it had, moves alone.  *)
LEMMA LauncherMoves ==
  ASSUME LedgerInv, NEW l \in Launchers, NEW x \in LaunchRecords,
         x.pc \in {"idle", "admitted"},
         x.pc = "admitted" => x.review \in ReviewIds /\ x.day \in 1..LastDay,
         Launch(l, x), UNCHANGED <<control, process, sent, cancel, today>>
  PROVE  LedgerInv'
<1>1. /\ launch' = [launch EXCEPT ![l] = x] /\ launch \in [Launchers -> LaunchRecords]
      /\ launch' \in [Launchers -> LaunchRecords]
      /\ \A m \in Launchers : launch'[m] = IF m = l THEN x ELSE launch[m]
  BY DEF LedgerInv, LaunchersOK, Launch
<1>2. LedgerTyped' /\ ReviewClaimsOK' /\ CancelOK'
  BY DEF LedgerInv, LedgerTyped, ReviewClaimsOK, CancelOK, Status, Runs
<1>3. LaunchersOK'
  BY <1>1 DEF LedgerInv, LaunchersOK, LauncherOK, Owns, Status
<1>4. ProcessesOK'
  BY <1>1 DEF LedgerInv, ProcessesOK, Owns, Sent, Status
<1> QED
  BY <1>2, <1>3, <1>4 DEF LedgerInv

(* A process ends, or another program takes a pid that is free.            *)
LEMMA ProcessLeaves ==
  ASSUME LedgerInv, NEW p \in Pids, NEW v \in {"other", NoReview},
         process' = [process EXCEPT ![p] = v],
         UNCHANGED <<control, launch, sent, today>>
  PROVE  LedgerTyped' /\ LaunchersOK' /\ ReviewClaimsOK' /\ ProcessesOK'
         /\ \A i \in ReviewIds : Runs(i)' => Runs(i)
<1>1. /\ process \in [Pids -> ReviewIds \cup {"other", NoReview}]
      /\ \A q \in Pids : process'[q] = IF q = p THEN v ELSE process[q]
      /\ process' \in [Pids -> ReviewIds \cup {"other", NoReview}]
  BY DEF LedgerInv, LedgerTyped
<1>2. \A q \in Pids : process'[q] \in ReviewIds => process'[q] = process[q]
  BY <1>1, ReviewAssumption
<1>3. \A i \in ReviewIds : Runs(i)' => Runs(i)
  BY <1>2, Zenon DEF Runs
<1>4. LedgerTyped' /\ LaunchersOK'
  BY <1>1 DEF LedgerInv, LedgerTyped, LaunchersOK, LauncherOK, Owns, Status
<1>5. ReviewClaimsOK'
  BY <1>3 DEF LedgerInv, ReviewClaimsOK, Status
<1>6. ProcessesOK'
  BY <1>2 DEF LedgerInv, ProcessesOK, Owns, Sent, Status
<1> QED
  BY <1>3, <1>4, <1>5, <1>6

(***************************************************************************)
(* The steps of a launch.                                                  *)
(***************************************************************************)
(* A launch goes on as a launch.                                           *)
LEMMA IdleRecords ==
  /\ NoLaunch \in LaunchRecords
  /\ \A x \in LaunchRecords, pc \in LaunchPcs :
        /\ [x EXCEPT !.pc = pc] \in LaunchRecords
        /\ [x EXCEPT !.pc = pc].pc = pc
        /\ [x EXCEPT !.pc = pc].review = x.review
        /\ [x EXCEPT !.pc = pc].day = x.day
        /\ [x EXCEPT !.pc = pc].pid = x.pid
BY CeilingAssumption DEF NoLaunch, LaunchRecords, LaunchPcs

(* A launch goes on: what it has but for where it is.                      *)
LEMMA LaunchGoes ==
  ASSUME LedgerInv, NEW l \in Launchers, NEW pc \in LaunchPcs, Goes(l, pc)
  PROVE  \E x \in LaunchRecords :
            /\ x.pc = pc /\ x.review = launch[l].review /\ x.day = launch[l].day
            /\ x.pid = launch[l].pid
            /\ launch' \in [Launchers -> LaunchRecords]
            /\ \A m \in Launchers : launch'[m] = IF m = l THEN x ELSE launch[m]
<1> DEFINE x == [launch[l] EXCEPT !.pc = pc]
<1>1. launch \in [Launchers -> LaunchRecords] /\ launch' = [launch EXCEPT ![l] = x]
  BY DEF LedgerInv, LaunchersOK, Goes, Launch
<1>2. /\ x \in LaunchRecords /\ x.pc = pc /\ x.review = launch[l].review
      /\ x.day = launch[l].day /\ x.pid = launch[l].pid
  BY <1>1, IdleRecords
<1> HIDE DEF x
<1>3. /\ launch' \in [Launchers -> LaunchRecords]
      /\ \A m \in Launchers : launch'[m] = IF m = l THEN x ELSE launch[m]
  BY <1>1, <1>2
<1> QED
  BY <1>2, <1>3

(* An admitted launch has a review and a day, and no claim yet.            *)
LEMMA StartLaunchStep ==
  ASSUME LedgerInv, NEW l \in Launchers, StartLaunch(l)
  PROVE  LedgerInv'
<1>1. PICK i \in ReviewIds :
         Launch(l, [NoLaunch EXCEPT !.pc = "admitted", !.review = i, !.day = today])
  BY DEF StartLaunch
<1> DEFINE x == [NoLaunch EXCEPT !.pc = "admitted", !.review = i, !.day = today]
<1>2. today \in 1..LastDay /\ today \in 0..LastDay
  BY CeilingAssumption DEF LedgerInv, LedgerTyped
<1>3. NoLaunch \in LaunchRecords /\ "admitted" \in LaunchPcs
  BY IdleRecords DEF LaunchPcs
<1>4. x \in LaunchRecords /\ x.pc = "admitted" /\ x.review = i /\ x.day = today
  BY <1>2, <1>3 DEF LaunchRecords
<1>5. UNCHANGED <<control, process, sent, cancel, today>>
  BY DEF StartLaunch, Others
<1> HIDE DEF x
<1>6. Launch(l, x)
  BY <1>1 DEF x
<1> QED
  BY <1>2, <1>4, <1>5, <1>6, LauncherMoves

(* A launch that stops moves no other.                                     *)
LEMMA LaunchStops ==
  ASSUME LedgerInv, NEW l \in Launchers, Launch(l, NoLaunch),
         UNCHANGED <<control, process, sent, cancel, today>>
  PROVE  LedgerInv'
<1>1. NoLaunch \in LaunchRecords /\ NoLaunch.pc = "idle"
  BY IdleRecords DEF NoLaunch
<1> QED
  BY <1>1, LauncherMoves

(* A launch past its claim has one, and its review stands in it.           *)
LEMMA OwnersClaimed ==
  ASSUME LedgerInv
  PROVE  \A m \in Launchers : Owns(m) =>
            launch[m].review \in ReviewIds /\ Status(launch[m].review) # "NONE"
BY DEF LedgerInv, LaunchersOK, LauncherOK, Owns, LaunchRecords, LaunchPcs

(* A claim that is admitted takes the slot, which no unfinished one has,   *)
(* and one of the day's launches.                                          *)
LEMMA TakeClaimStep ==
  ASSUME LedgerInv, NEW l \in Launchers, TakeClaim(l)
  PROVE  LedgerInv'
<1>0. launch[l].pc = "admitted"
  BY DEF TakeClaim
<1>a. PICK i \in ReviewIds, day \in 1..LastDay :
         launch[l].review = i /\ launch[l].day = day
  BY <1>0 DEF LedgerInv, LaunchersOK, LauncherOK
<1>1. /\ launch[l].pc = "admitted" /\ launch[l].review = i /\ launch[l].day = day
      /\ UNCHANGED <<process, sent, cancel, today>>
  BY <1>0, <1>a DEF TakeClaim, Others
<1>2. CASE ~ClaimAdmitted(i, day)
  BY <1>1, <1>2, LaunchStops DEF TakeClaim, ClaimAdmitted, Status
<1>3. CASE ClaimAdmitted(i, day)
  <2>1. ClaimReview(i, day) /\ Goes(l, "claimed")
    BY <1>1, <1>3 DEF TakeClaim, ClaimAdmitted, ClaimReview, Status
  <2>2. PICK x \in LaunchRecords :
            /\ x.pc = "claimed" /\ x.review = i /\ x.day = day
            /\ launch' \in [Launchers -> LaunchRecords]
            /\ \A m \in Launchers : launch'[m] = IF m = l THEN x ELSE launch[m]
    <3>1. "claimed" \in LaunchPcs
      BY DEF LaunchPcs
    <3> QED
      BY <1>1, <2>1, <3>1, LaunchGoes
  <2>b. PICK days : days = [control.days EXCEPT ![day] = control.days[day] + 1]
    OBVIOUS
  <2>3. PICK c \in Claims :
            /\ c.status = "CLAIMED" /\ c.day = day /\ c.pid = NoReview
            /\ ~c.cancelled
            /\ Writes(i, c, days, i)
    BY <2>1, <2>b, ClaimWrites DEF LedgerInv, Writes
  <2>5. /\ control.claims[i].status = "NONE" /\ control.active \in {NoReview, i}
        /\ control.days[day] < MaxPerDay /\ sent[i] = 0
        /\ control.claims[i].day = 0
    BY <1>1, <1>3 DEF LedgerInv, ReviewClaimsOK, ClaimAdmitted, Status
  <2>4. /\ control' = [claims |-> control'.claims, days |-> control'.days,
                       active |-> control'.active, imports |-> control'.imports]
        /\ control'.claims \in [ReviewIds -> Claims]
        /\ control'.days = days
        /\ control'.active = i
        /\ \A j \in ReviewIds : control'.claims[j] =
              IF j = i THEN c ELSE control.claims[j]
    BY <2>3 DEF Writes
  <2>6. LedgerTyped'
    BY <1>1, <2>4, <2>5, <2>b, CeilingAssumption DEF LedgerInv, LedgerTyped
  <2>7. ReviewClaimsOK'
    <3>1. ASSUME NEW d \in 1..LastDay
          PROVE  control'.days[d] =
                    Cardinality({j \in ReviewIds : control'.claims[j].day = d})
      <4> DEFINE before == {j \in ReviewIds : control.claims[j].day = d}
                 after == {j \in ReviewIds : control'.claims[j].day = d}
      <4>1. control.days[d] = Cardinality(before)
        BY DEF LedgerInv, ReviewClaimsOK
      <4>2. CASE d # day
        <5>1. after = before
          BY <2>3, <2>4, <2>5, <4>2
        <5> QED
          BY <2>b, <2>4, <4>1, <4>2, <5>1 DEF LedgerInv, LedgerTyped
      <4>3. CASE d = day
        <5>1. after = before \cup {i} /\ i \notin before
          BY <1>1, <2>3, <2>4, <2>5, <4>3
        <5>2. IsFiniteSet(before)
          BY ReviewAssumption, FS_Subset, before \subseteq ReviewIds
        <5>3. Cardinality(after) = Cardinality(before) + 1
          BY <5>1, <5>2, FS_AddElement
        <5>4. control'.days[d] = control.days[d] + 1
          BY <2>b, <2>4, <4>3 DEF LedgerInv, LedgerTyped
        <5> QED
          BY <4>1, <5>3, <5>4
      <4> QED
        BY <4>2, <4>3
    <3>2. \A j \in ReviewIds :
             Status(j)' \in {"CLAIMED", "ACK_UNKNOWN", "DISPATCHED"} => control'.active = j
      BY <1>1, <2>3, <2>4, <2>5, ReviewAssumption DEF LedgerInv, ReviewClaimsOK, Status
    <3>3. \A j \in ReviewIds :
             /\ Status(j)' \in {"NONE", "CLAIMED"} => sent'[j] = 0
             /\ Status(j)' = "ACK_UNKNOWN" => control'.claims[j].pid = NoReview
             /\ Status(j)' = "NONE" => control'.claims[j].day = 0
             /\ control'.claims[j].pid # NoReview => sent'[j] = 1
             /\ control'.claims[j].cancelled => sent'[j] = 1 /\ ~Runs(j)'
      BY <1>1, <2>3, <2>4, <2>5 DEF LedgerInv, ReviewClaimsOK, Status, Runs
    <3> QED
      BY <3>1, <3>2, <3>3 DEF ReviewClaimsOK, Status
  <2>8. LaunchersOK'
    <3>1. \A m \in Launchers : Owns(m) => launch[m].review # i
      BY <2>5, OwnersClaimed DEF Status
    <3>2. ASSUME NEW m \in Launchers PROVE LauncherOK(m)'
      <4>1. CASE m = l
        BY <1>1, <2>2, <2>3, <2>4, <2>5, <4>1 DEF LauncherOK, Status
      <4>2. CASE m # l /\ Owns(m)
        BY <1>1, <2>2, <2>4, <3>1, <4>2 DEF LedgerInv, LaunchersOK, LauncherOK, Owns, Status
      <4>3. CASE m # l /\ ~Owns(m)
        BY <2>2, <4>3 DEF LedgerInv, LaunchersOK, LauncherOK, Owns
      <4> QED
        BY <4>1, <4>2, <4>3
    <3>3. \A m, n \in Launchers :
             Owns(m)' /\ Owns(n)' /\ launch'[m].review = launch'[n].review => m = n
      BY <2>2, <3>1 DEF LedgerInv, LaunchersOK, Owns
    <3> QED
      BY <2>2, <3>2, <3>3 DEF LaunchersOK
  <2>9. ProcessesOK'
    BY <1>1, <2>2, <2>3, <2>4, <2>5 DEF LedgerInv, ProcessesOK, Owns, Sent, Status
  <2>10. CancelOK'
    BY <1>1, <2>3, <2>4, <2>5 DEF LedgerInv, CancelOK, ReviewClaimsOK, Status, Runs
  <2> QED
    BY <2>6, <2>7, <2>8, <2>9, <2>10 DEF LedgerInv
<1> QED
  BY <1>2, <1>3

(* A write that keeps the day of the claim keeps what the days count.      *)
LEMMA DaysKept ==
  ASSUME LedgerInv, NEW i \in ReviewIds, NEW c \in Claims, NEW active,
         c.day = control.claims[i].day, Writes(i, c, control.days, active),
         UNCHANGED <<process, sent, today>>
  PROVE  /\ LedgerTyped'
         /\ \A d \in 1..LastDay : control'.days[d] =
               Cardinality({j \in ReviewIds : control'.claims[j].day = d})
<1>1. LedgerTyped'
  BY DEF LedgerInv, LedgerTyped, Writes
<1>2. ASSUME NEW d \in 1..LastDay
      PROVE  control'.days[d] =
                Cardinality({j \in ReviewIds : control'.claims[j].day = d})
  <2>1. {j \in ReviewIds : control'.claims[j].day = d} =
        {j \in ReviewIds : control.claims[j].day = d}
    BY DEF Writes
  <2> QED
    BY <2>1 DEF LedgerInv, ReviewClaimsOK, Writes
<1> QED
  BY <1>1, <1>2

(* A dispatch is recorded of a claim that is CLAIMED: by its launcher,     *)
(* before it sends, or by the operator.                                    *)
LEMMA DispatchKeeps ==
  ASSUME LedgerInv, NEW i \in ReviewIds, NEW c \in Claims, NEW acknowledged \in BOOLEAN,
         Status(i) = "CLAIMED",
         c = [control.claims[i] EXCEPT !.status =
                 IF acknowledged THEN "DISPATCHED" ELSE "ACK_UNKNOWN"],
         Writes(i, c, control.days, control.active),
         UNCHANGED <<process, sent, cancel, today>>
  PROVE  LedgerTyped' /\ ReviewClaimsOK' /\ CancelOK'
         /\ c.status \in {"DISPATCHED", "ACK_UNKNOWN"}
         /\ (~acknowledged => c.status = "ACK_UNKNOWN")
<1>1. /\ c.status = IF acknowledged THEN "DISPATCHED" ELSE "ACK_UNKNOWN"
      /\ c.day = control.claims[i].day /\ c.pid = control.claims[i].pid
      /\ c.cancelled = control.claims[i].cancelled
      /\ control.claims[i].status = "CLAIMED"
  BY DEF LedgerInv, LedgerTyped, Claims, Status
<1>2. /\ sent[i] = 0 /\ control.active = i /\ control.claims[i].pid = NoReview
      /\ ~control.claims[i].cancelled
  BY <1>1 DEF LedgerInv, ReviewClaimsOK, Status, LedgerTyped, Claims
<1>3. LedgerTyped' /\ \A d \in 1..LastDay : control'.days[d] =
               Cardinality({j \in ReviewIds : control'.claims[j].day = d})
  BY <1>1, DaysKept DEF Writes
<1>4. ReviewClaimsOK'
  <2>1. \A j \in ReviewIds : Status(j)' \in {"CLAIMED", "ACK_UNKNOWN", "DISPATCHED"} =>
           control'.active = j
    BY <1>1, <1>2 DEF LedgerInv, ReviewClaimsOK, Status, Writes
  <2>2. \A j \in ReviewIds :
           /\ Status(j)' \in {"NONE", "CLAIMED"} => sent'[j] = 0
           /\ Status(j)' = "ACK_UNKNOWN" => control'.claims[j].pid = NoReview
           /\ Status(j)' = "NONE" => control'.claims[j].day = 0
           /\ control'.claims[j].pid # NoReview => sent'[j] = 1
           /\ control'.claims[j].cancelled => sent'[j] = 1 /\ ~Runs(j)'
    <3> SUFFICES ASSUME NEW j \in ReviewIds
                 PROVE  /\ Status(j)' \in {"NONE", "CLAIMED"} => sent'[j] = 0
                        /\ Status(j)' = "ACK_UNKNOWN" => control'.claims[j].pid = NoReview
                        /\ Status(j)' = "NONE" => control'.claims[j].day = 0
                        /\ control'.claims[j].pid # NoReview => sent'[j] = 1
                        /\ control'.claims[j].cancelled => sent'[j] = 1 /\ ~Runs(j)'
      OBVIOUS
    <3>1. CASE j = i
      <4>1. control'.claims[j] = c
        BY <3>1 DEF Writes
      <4> QED
        BY <1>1, <1>2, <3>1, <4>1 DEF Status
    <3>2. CASE j # i
      <4>1. control'.claims[j] = control.claims[j] /\ Runs(j)' = Runs(j) /\ sent' = sent
        BY <3>2 DEF Writes, Runs
      <4> QED
        BY <4>1 DEF LedgerInv, ReviewClaimsOK, Status
    <3> QED
      BY <3>1, <3>2
  <2> QED
    BY <1>3, <2>1, <2>2 DEF ReviewClaimsOK, Status
<1>5. CancelOK'
  BY <1>1 DEF LedgerInv, CancelOK, Writes, Runs
<1> QED
  BY <1>1, <1>3, <1>4, <1>5

(* A launch marks the claim it is about to send for.                       *)
LEMMA MarkStep ==
  ASSUME LedgerInv, NEW l \in Launchers, Mark(l)
  PROVE  LedgerInv'
<1>0. launch[l].pc = "claimed"
  BY DEF Mark
<1>a. PICK i \in ReviewIds : launch[l].review = i
  BY <1>0 DEF LedgerInv, LaunchersOK, LauncherOK
<1>1. UNCHANGED <<process, sent, cancel, today>>
  BY DEF Mark, Others
<1>2. CASE Status(i) # "CLAIMED"
  BY <1>1, <1>2, <1>a, LaunchStops DEF Mark, Status
<1>3. CASE Status(i) = "CLAIMED"
  <2>1. RecordDispatchAttempt(i, FALSE) /\ Goes(l, "marked")
    BY <1>3, <1>a DEF Mark, Status, RecordDispatchAttempt
  <2>2. PICK x \in LaunchRecords :
            /\ x.pc = "marked" /\ x.review = i /\ x.day = launch[l].day
            /\ launch' \in [Launchers -> LaunchRecords]
            /\ \A m \in Launchers : launch'[m] = IF m = l THEN x ELSE launch[m]
    <3>1. "marked" \in LaunchPcs
      BY DEF LaunchPcs
    <3> QED
      BY <1>a, <2>1, <3>1, LaunchGoes
  <2>3. PICK c \in Claims :
            /\ c = [control.claims[i] EXCEPT !.status = "ACK_UNKNOWN"]
            /\ Writes(i, c, control.days, control.active)
    <3>1. PICK acknowledged \in BOOLEAN : acknowledged = FALSE
      OBVIOUS
    <3>2. RecordDispatchAttempt(i, acknowledged)
      BY <2>1, <3>1 DEF RecordDispatchAttempt
    <3> QED
      BY <3>1, <3>2, DispatchWrites DEF LedgerInv, Writes
  <2>4. LedgerTyped' /\ ReviewClaimsOK' /\ CancelOK' /\ c.status = "ACK_UNKNOWN"
    <3>1. PICK acknowledged \in BOOLEAN : acknowledged = FALSE
      OBVIOUS
    <3> QED
      BY <1>1, <1>3, <2>3, <3>1, DispatchKeeps DEF Writes, Status
  <2>5. sent[i] = 0
    BY <1>3 DEF LedgerInv, ReviewClaimsOK
  <2>6. LaunchersOK'
    <3>1. \A m \in Launchers \ {l} : Owns(m) => launch[m].review # i
      BY <1>0, <1>a DEF LedgerInv, LaunchersOK, Owns
    <3>a. launch[l].day \in 1..LastDay
      BY <1>0 DEF LedgerInv, LaunchersOK, LauncherOK
    <3>2. ASSUME NEW m \in Launchers PROVE LauncherOK(m)'
      <4>1. CASE m = l
        BY <1>1, <2>2, <2>3, <2>4, <2>5, <3>a, <4>1 DEF LauncherOK, Status, Writes
      <4>2. CASE m # l /\ Owns(m)
        BY <1>1, <2>2, <2>3, <3>1, <4>2
        DEF LedgerInv, LaunchersOK, LauncherOK, Owns, Status, Writes, LaunchRecords
      <4>3. CASE m # l /\ ~Owns(m)
        BY <2>2, <4>3 DEF LedgerInv, LaunchersOK, LauncherOK, Owns
      <4> QED
        BY <4>1, <4>2, <4>3
    <3>3. \A m, n \in Launchers :
             Owns(m)' /\ Owns(n)' /\ launch'[m].review = launch'[n].review => m = n
      BY <2>2, <3>1 DEF LedgerInv, LaunchersOK, Owns
    <3> QED
      BY <2>2, <3>2, <3>3 DEF LaunchersOK
  <2>7. ProcessesOK'
    BY <1>1, <2>2, <2>3, <2>5 DEF LedgerInv, ProcessesOK, Owns, Sent, Status, Writes
  <2> QED
    BY <2>4, <2>6, <2>7 DEF LedgerInv
<1> QED
  BY <1>2, <1>3

(* record-dispatch is of a claim that was not sent: its launcher will not. *)
LEMMA CmdRecordDispatchStep ==
  ASSUME LedgerInv, CmdRecordDispatch
  PROVE  LedgerInv'
<1>1. PICK i \in ReviewIds, acknowledged \in BOOLEAN :
         Status(i) = "CLAIMED" /\ RecordDispatchAttempt(i, acknowledged)
  BY DEF CmdRecordDispatch
<1>2. UNCHANGED <<launch, process, sent, cancel, today>>
  BY DEF CmdRecordDispatch, Others
<1>3. PICK c \in Claims :
         /\ c = [control.claims[i] EXCEPT !.status =
                     IF acknowledged THEN "DISPATCHED" ELSE "ACK_UNKNOWN"]
         /\ Writes(i, c, control.days, control.active)
  BY <1>1, DispatchWrites DEF LedgerInv, Writes
<1>4. LedgerTyped' /\ ReviewClaimsOK' /\ CancelOK' /\ c.status \in {"DISPATCHED", "ACK_UNKNOWN"}
  BY <1>1, <1>2, <1>3, DispatchKeeps DEF Writes, Status
<1>5. sent[i] = 0
  BY <1>1 DEF LedgerInv, ReviewClaimsOK
<1>6. LaunchersOK'
  <2>1. ASSUME NEW m \in Launchers PROVE LauncherOK(m)'
    BY <1>1, <1>2, <1>3, <1>4, <1>5 DEF LedgerInv, LaunchersOK, LauncherOK, Status, Writes
  <2> QED
    BY <1>2, <2>1 DEF LedgerInv, LaunchersOK, Owns
<1>7. ProcessesOK'
  BY <1>2, <1>3, <1>5 DEF LedgerInv, ProcessesOK, Owns, Sent, Status, Writes
<1> QED
  BY <1>4, <1>6, <1>7 DEF LedgerInv

(* A launch that gives its claim up, or records how its review ended, when *)
(* no process of it runs, frees the slot and is the last of that claim.    *)
LEMMA Settles ==
  ASSUME LedgerInv, NEW l \in Launchers, NEW i \in ReviewIds, NEW c \in Claims,
         NEW status \in {"COMPLETED", "FAILED", "ABANDONED_UNSENT"},
         Owns(l), launch[l].review = i,
         Status(i) \in {"CLAIMED", "ACK_UNKNOWN", "DISPATCHED"}, ~Runs(i),
         c = [control.claims[i] EXCEPT !.status = status],
         Writes(i, c, control.days, Released(i)), Launch(l, NoLaunch),
         UNCHANGED <<process, sent, cancel, today>>
  PROVE  LedgerInv'
<1>1. /\ c.status = status
      /\ c.day = control.claims[i].day /\ c.pid = control.claims[i].pid
      /\ c.cancelled = control.claims[i].cancelled
  BY DEF LedgerInv, LedgerTyped, Claims, Status
<1>2. control.active = i
  BY DEF LedgerInv, ReviewClaimsOK
<1>3. LedgerTyped' /\ \A d \in 1..LastDay : control'.days[d] =
               Cardinality({j \in ReviewIds : control'.claims[j].day = d})
  <2>1. PICK active : active = Released(i)
    OBVIOUS
  <2> QED
    BY <1>1, <2>1, DaysKept DEF Writes
<1>4. ReviewClaimsOK'
  <2>1. \A j \in ReviewIds : Status(j)' \in {"CLAIMED", "ACK_UNKNOWN", "DISPATCHED"} =>
           control'.active = j
    BY <1>1, <1>2 DEF LedgerInv, ReviewClaimsOK, Status, Writes
  <2>2. ASSUME NEW j \in ReviewIds
        PROVE  /\ Status(j)' \in {"NONE", "CLAIMED"} => sent'[j] = 0
               /\ Status(j)' = "ACK_UNKNOWN" => control'.claims[j].pid = NoReview
               /\ Status(j)' = "NONE" => control'.claims[j].day = 0
               /\ control'.claims[j].pid # NoReview => sent'[j] = 1
               /\ control'.claims[j].cancelled => sent'[j] = 1 /\ ~Runs(j)'
    <3>0. Runs(j)' = Runs(j) /\ sent' = sent
      BY DEF Runs
    <3>1. CASE j = i
      <4>1. control'.claims[j] = c
        BY <3>1 DEF Writes
      <4> QED
        BY <1>1, <3>0, <3>1, <4>1 DEF LedgerInv, ReviewClaimsOK, Status
    <3>2. CASE j # i
      <4>1. control'.claims[j] = control.claims[j]
        BY <3>2 DEF Writes
      <4> QED
        BY <3>0, <4>1 DEF LedgerInv, ReviewClaimsOK, Status
    <3> QED
      BY <3>1, <3>2
  <2> QED
    BY <1>3, <2>1, <2>2 DEF ReviewClaimsOK, Status
<1>5. CancelOK'
  BY <1>1 DEF LedgerInv, CancelOK, Writes, Runs
<1>6. /\ NoLaunch \in LaunchRecords /\ NoLaunch.pc = "idle"
      /\ launch' \in [Launchers -> LaunchRecords]
      /\ \A m \in Launchers : launch'[m] = IF m = l THEN NoLaunch ELSE launch[m]
  BY IdleRecords DEF LedgerInv, LaunchersOK, Launch, NoLaunch
<1>7. LaunchersOK'
  <2>1. \A m \in Launchers \ {l} : Owns(m) => launch[m].review # i
    BY DEF LedgerInv, LaunchersOK
  <2>2. ASSUME NEW m \in Launchers PROVE LauncherOK(m)'
    <3>1. CASE m = l
      BY <1>6, <3>1 DEF LauncherOK
    <3>2. CASE m # l /\ Owns(m)
      BY <1>6, <2>1, <3>2
      DEF LedgerInv, LaunchersOK, LauncherOK, Owns, Status, Writes, LaunchRecords
    <3>3. CASE m # l /\ ~Owns(m)
      BY <1>6, <3>3 DEF LedgerInv, LaunchersOK, LauncherOK, Owns
    <3> QED
      BY <3>1, <3>2, <3>3
  <2>3. \A m, n \in Launchers :
           Owns(m)' /\ Owns(n)' /\ launch'[m].review = launch'[n].review => m = n
    BY <1>6 DEF LedgerInv, LaunchersOK, Owns
  <2> QED
    BY <1>6, <2>2, <2>3 DEF LaunchersOK
<1>8. ProcessesOK'
  BY <1>6 DEF LedgerInv, ProcessesOK, Owns, Sent, Status, Writes, Runs
<1> QED
  BY <1>3, <1>4, <1>5, <1>7, <1>8 DEF LedgerInv

(* A launch that cannot send gives its claim back, if it is still CLAIMED. *)
LEMMA ReleaseClaimStep ==
  ASSUME LedgerInv, NEW l \in Launchers, ReleaseClaim(l)
  PROVE  LedgerInv'
<1>0. launch[l].pc = "claimed" /\ Launch(l, NoLaunch)
      /\ UNCHANGED <<process, sent, cancel, today>>
  BY DEF ReleaseClaim, Others
<1>a. PICK i \in ReviewIds : launch[l].review = i
  BY <1>0 DEF LedgerInv, LaunchersOK, LauncherOK
<1>2. CASE Status(i) # "CLAIMED"
  BY <1>0, <1>2, <1>a, LaunchStops DEF ReleaseClaim, Status
<1>3. CASE Status(i) = "CLAIMED"
  <2>1. ReleaseUnsentClaim(i)
    BY <1>3, <1>a DEF ReleaseClaim, Status, ReleaseUnsentClaim, Released
  <2>2. PICK status \in {"COMPLETED", "FAILED", "ABANDONED_UNSENT"} : status = "ABANDONED_UNSENT"
    OBVIOUS
  <2>3. PICK c \in Claims :
           /\ c = [control.claims[i] EXCEPT !.status = status]
           /\ Writes(i, c, control.days, Released(i))
    BY <2>1, <2>2, OutcomeWrites DEF LedgerInv, ClaimStatuses, Writes
  <2>4. ~Runs(i) /\ Owns(l)
    BY <1>0, <1>3 DEF LedgerInv, ProcessesOK, ReviewClaimsOK, Runs, Owns
  <2> QED
    BY <1>0, <1>3, <1>a, <2>3, <2>4, Settles DEF Writes, Status
<1> QED
  BY <1>2, <1>3

(* The outcome is recorded after the process was reaped.                   *)
LEMMA RecordOutcomeStep ==
  ASSUME LedgerInv, NEW l \in Launchers, RecordOutcome(l)
  PROVE  LedgerInv'
<1>0. launch[l].pc = "collected" /\ Launch(l, NoLaunch)
      /\ UNCHANGED <<process, sent, cancel, today>>
  BY DEF RecordOutcome
<1>a. PICK i \in ReviewIds : launch[l].review = i
  BY <1>0 DEF LedgerInv, LaunchersOK, LauncherOK
<1>1. Status(i) = "DISPATCHED"
  BY <1>0, <1>a DEF LedgerInv, LaunchersOK, LauncherOK, Status
<1>2. PICK status \in {"COMPLETED", "FAILED"} : RecordReviewOutcome(i, status)
  BY <1>1, <1>a DEF RecordOutcome, Sent, Status, RecordReviewOutcome, Released
<1>3. PICK c \in Claims :
         /\ c = [control.claims[i] EXCEPT !.status = status]
         /\ Writes(i, c, control.days, Released(i))
  BY <1>2, OutcomeWrites DEF LedgerInv, ClaimStatuses, Writes
<1>4. ~Runs(i) /\ Owns(l)
  BY <1>0, <1>a DEF LedgerInv, ProcessesOK, Runs, Owns
<1> QED
  BY <1>0, <1>1, <1>3, <1>4, <1>a, Settles DEF Writes, Status

(* The send: of a review nothing was sent for, by the one launch that has  *)
(* its claim.                                                              *)
LEMMA SpawnStep ==
  ASSUME LedgerInv, NEW l \in Launchers, Spawn(l)
  PROVE  LedgerInv'
<1>0. launch[l].pc = "marked" /\ UNCHANGED <<control, cancel, today>>
  BY DEF Spawn, Others
<1>a. PICK i \in ReviewIds : launch[l].review = i
  BY <1>0 DEF LedgerInv, LaunchersOK, LauncherOK
<1>1. PICK p \in Pids :
         /\ process[p] = NoReview
         /\ process' = [process EXCEPT ![p] = i]
         /\ Launch(l, [launch[l] EXCEPT !.pc = "spawned", !.pid = p])
  BY <1>a DEF Spawn
<1>2. PICK x : x = [launch[l] EXCEPT !.pc = "spawned", !.pid = p]
  OBVIOUS
<1>3. launch \in [Launchers -> LaunchRecords]
  BY DEF LedgerInv, LaunchersOK
<1>4. x \in LaunchRecords /\ x.pc = "spawned" /\ x.review = i /\ x.pid = p
      /\ x.day = launch[l].day
  BY <1>2, <1>3, <1>a DEF LaunchRecords, LaunchPcs
<1>5. /\ launch' \in [Launchers -> LaunchRecords]
      /\ \A m \in Launchers : launch'[m] = IF m = l THEN x ELSE launch[m]
  BY <1>1, <1>2, <1>3, <1>4 DEF Launch
<1>6. Status(i) = "ACK_UNKNOWN" /\ sent[i] = 0
  BY <1>0, <1>a DEF LedgerInv, LaunchersOK, LauncherOK, Status
<1>7. /\ sent' = [sent EXCEPT ![i] = 1]
      /\ sent \in [ReviewIds -> {0, 1}]
      /\ \A j \in ReviewIds : sent'[j] = IF j = i THEN 1 ELSE sent[j]
  BY <1>6, <1>a DEF Spawn, LedgerInv, LedgerTyped
<1>8. /\ \A q \in Pids : process'[q] = IF q = p THEN i ELSE process[q]
      /\ \A q \in Pids : process[q] # i
      /\ \A j \in ReviewIds \ {i} : Runs(j)' => Runs(j)
  BY <1>1, <1>6 DEF LedgerInv, LedgerTyped, ProcessesOK, Runs
<1>9. control.claims[i].pid = NoReview /\ ~control.claims[i].cancelled
  BY <1>6 DEF LedgerInv, ReviewClaimsOK
<1>10. LedgerTyped'
  BY <1>0, <1>1, <1>7 DEF LedgerInv, LedgerTyped
<1>11. ReviewClaimsOK'
  <2>1. ASSUME NEW j \in ReviewIds
        PROVE  /\ Status(j) \in {"NONE", "CLAIMED"} => sent'[j] = 0
               /\ control.claims[j].pid # NoReview => sent'[j] = 1
               /\ control.claims[j].cancelled => sent'[j] = 1 /\ ~Runs(j)'
    BY <1>6, <1>7, <1>8, <1>9 DEF LedgerInv, ReviewClaimsOK
  <2> QED
    BY <1>0, <2>1 DEF LedgerInv, ReviewClaimsOK, Status
<1>b. \A m \in Launchers \ {l} : Owns(m) => launch[m].review # i
  BY <1>0, <1>a DEF LedgerInv, LaunchersOK, Owns
<1>12. LaunchersOK'
  <2>1. ASSUME NEW m \in Launchers PROVE LauncherOK(m)'
    <3>a. launch[l].day \in 1..LastDay
      BY <1>0 DEF LedgerInv, LaunchersOK, LauncherOK
    <3>1. CASE m = l
      BY <1>0, <1>4, <1>5, <1>6, <1>7, <3>1, <3>a DEF LauncherOK, Status
    <3>2. CASE m # l /\ Owns(m)
      <4>1. launch[m].review \in ReviewIds
        BY <3>2 DEF LedgerInv, LaunchersOK, LauncherOK, Owns
      <4> QED
        BY <1>0, <1>5, <1>7, <1>b, <3>2, <4>1
        DEF LedgerInv, LaunchersOK, LauncherOK, Status
    <3>3. CASE m # l /\ ~Owns(m)
      BY <1>5, <3>3 DEF LedgerInv, LaunchersOK, LauncherOK, Owns
    <3> QED
      BY <3>1, <3>2, <3>3
  <2>2. \A m, n \in Launchers :
           Owns(m)' /\ Owns(n)' /\ launch'[m].review = launch'[n].review => m = n
    BY <1>4, <1>5, <1>b DEF LedgerInv, LaunchersOK, Owns
  <2> QED
    BY <1>5, <2>1, <2>2 DEF LaunchersOK
<1>13. ProcessesOK'
  <2> SUFFICES ASSUME NEW q \in Pids, NEW j \in ReviewIds, process'[q] = j
               PROVE  /\ sent'[j] = 1 /\ Sent(j)'
                      /\ control'.claims[j].pid \in {NoReview, q}
                      /\ \A m \in Launchers : Owns(m)' /\ launch'[m].review = j =>
                            launch'[m].pc \in {"spawned", "confirmed"} /\ launch'[m].pid = q
                      /\ \A r \in Pids : process'[r] = j => r = q
    BY DEF ProcessesOK
  <2>1. CASE j = i
    BY <1>0, <1>4, <1>5, <1>6, <1>7, <1>8, <1>9, <1>b, <2>1 DEF Owns, Sent, Status
  <2>2. CASE j # i
    <3>1. process[q] = j /\ sent'[j] = sent[j] /\ q # p
      BY <1>7, <1>8, <2>2
    <3>2. \A m \in Launchers : Owns(m)' /\ launch'[m].review = j =>
             Owns(m) /\ launch'[m] = launch[m]
      BY <1>4, <1>5, <2>2 DEF Owns
    <3>3. \A r \in Pids : process'[r] = j => process[r] = j
      BY <1>8, <2>2
    <3> QED
      BY <1>0, <3>1, <3>2, <3>3 DEF LedgerInv, ProcessesOK, Sent, Status
  <2> QED
    BY <2>1, <2>2
<1>14. CancelOK'
  <2>1. CASE cancel.pc = "idle"
    BY <1>0, <2>1 DEF CancelOK
  <2>2. CASE cancel.pc # "idle"
    <3>1. cancel.review \in ReviewIds \ {i}
      BY <1>9, <2>2, ReviewAssumption DEF LedgerInv, CancelOK
    <3>2. cancel.pc = "killed" => ~Runs(cancel.review)'
      BY <1>0, <1>8, <2>2, <3>1 DEF LedgerInv, CancelOK, Runs
    <3> QED
      BY <1>0, <2>2, <3>2 DEF LedgerInv, CancelOK, Runs
  <2> QED
    BY <2>1, <2>2
<1> QED
  BY <1>10, <1>11, <1>12, <1>13, <1>14 DEF LedgerInv

(* The pid that the claim is confirmed with is the one its process has.    *)
LEMMA ConfirmStep ==
  ASSUME LedgerInv, NEW l \in Launchers, Confirm(l)
  PROVE  LedgerInv'
<1>0. launch[l].pc = "spawned" /\ UNCHANGED <<process, sent, cancel, today>>
  BY DEF Confirm, Others
<1>a. PICK i \in ReviewIds, p \in Pids : launch[l].review = i /\ launch[l].pid = p
  BY <1>0 DEF LedgerInv, LaunchersOK, LauncherOK
<1>1. Status(i) = "ACK_UNKNOWN" /\ sent[i] = 1 /\ launch[l].day \in 1..LastDay
  BY <1>0, <1>a DEF LedgerInv, LaunchersOK, LauncherOK, Status
<1>2. ConfirmDispatchSent(i, p) /\ Goes(l, "confirmed")
  BY <1>1, <1>a DEF Confirm, Status, ConfirmDispatchSent
<1>3. PICK c \in Claims :
         /\ c = [control.claims[i] EXCEPT !.status = "DISPATCHED", !.pid = p]
         /\ Writes(i, c, control.days, control.active)
  BY <1>2, ConfirmWrites DEF LedgerInv, Writes
<1>4. /\ c.status = "DISPATCHED" /\ c.day = control.claims[i].day /\ c.pid = p
      /\ c.cancelled = control.claims[i].cancelled
  BY <1>3 DEF LedgerInv, LedgerTyped, Claims
<1>5. PICK x \in LaunchRecords :
         /\ x.pc = "confirmed" /\ x.review = i /\ x.day = launch[l].day
         /\ x.pid = p
         /\ launch' \in [Launchers -> LaunchRecords]
         /\ \A m \in Launchers : launch'[m] = IF m = l THEN x ELSE launch[m]
  <2>1. "confirmed" \in LaunchPcs
    BY DEF LaunchPcs
  <2> QED
    BY <1>2, <1>a, <2>1, LaunchGoes
<1>6. control.active = i /\ control.claims[i].pid = NoReview
  BY <1>1 DEF LedgerInv, ReviewClaimsOK
<1>7. LedgerTyped' /\ \A d \in 1..LastDay : control'.days[d] =
               Cardinality({j \in ReviewIds : control'.claims[j].day = d})
  BY <1>0, <1>3, <1>4, DaysKept DEF Writes
<1>8. ReviewClaimsOK'
  <2>1. \A j \in ReviewIds : Status(j)' \in {"CLAIMED", "ACK_UNKNOWN", "DISPATCHED"} =>
           control'.active = j
    BY <1>3, <1>4, <1>6 DEF LedgerInv, ReviewClaimsOK, Status, Writes
  <2>2. ASSUME NEW j \in ReviewIds
        PROVE  /\ Status(j)' \in {"NONE", "CLAIMED"} => sent'[j] = 0
               /\ Status(j)' = "ACK_UNKNOWN" => control'.claims[j].pid = NoReview
               /\ Status(j)' = "NONE" => control'.claims[j].day = 0
               /\ control'.claims[j].pid # NoReview => sent'[j] = 1
               /\ control'.claims[j].cancelled => sent'[j] = 1 /\ ~Runs(j)'
    <3>0. Runs(j)' = Runs(j) /\ sent' = sent
      BY <1>0 DEF Runs
    <3>1. CASE j = i
      <4>1. control'.claims[j] = c
        BY <1>3, <3>1 DEF Writes
      <4> QED
        BY <1>1, <1>4, <3>0, <3>1, <4>1 DEF LedgerInv, ReviewClaimsOK, Status
    <3>2. CASE j # i
      <4>1. control'.claims[j] = control.claims[j]
        BY <1>3, <3>2 DEF Writes
      <4> QED
        BY <3>0, <4>1 DEF LedgerInv, ReviewClaimsOK, Status
    <3> QED
      BY <3>1, <3>2
  <2> QED
    BY <1>7, <2>1, <2>2 DEF ReviewClaimsOK, Status
<1>9. CancelOK'
  <2>1. CASE cancel.pc = "idle"
    BY <1>0, <2>1 DEF CancelOK
  <2>2. CASE cancel.pc # "idle"
    <3>1. cancel.review \in ReviewIds \ {i}
      BY <1>6, <2>2, ReviewAssumption DEF LedgerInv, CancelOK
    <3>2. control'.claims[cancel.review] = control.claims[cancel.review]
      BY <1>3, <3>1 DEF Writes
    <3> QED
      BY <1>0, <2>2, <3>2 DEF LedgerInv, CancelOK, Runs
  <2> QED
    BY <2>1, <2>2
<1>b. \A m \in Launchers \ {l} : Owns(m) => launch[m].review # i
  BY <1>0, <1>a DEF LedgerInv, LaunchersOK, Owns
<1>10. LaunchersOK'
  <2>1. ASSUME NEW m \in Launchers PROVE LauncherOK(m)'
    <3>1. CASE m = l
      BY <1>0, <1>1, <1>3, <1>4, <1>5, <3>1 DEF LauncherOK, Status, Writes
    <3>2. CASE m # l /\ Owns(m)
      BY <1>0, <1>3, <1>5, <1>b, <3>2
      DEF LedgerInv, LaunchersOK, LauncherOK, Owns, Status, Writes, LaunchRecords
    <3>3. CASE m # l /\ ~Owns(m)
      BY <1>5, <3>3 DEF LedgerInv, LaunchersOK, LauncherOK, Owns
    <3> QED
      BY <3>1, <3>2, <3>3
  <2>2. \A m, n \in Launchers :
           Owns(m)' /\ Owns(n)' /\ launch'[m].review = launch'[n].review => m = n
    BY <1>5, <1>b DEF LedgerInv, LaunchersOK, Owns
  <2> QED
    BY <1>5, <2>1, <2>2 DEF LaunchersOK
<1>11. ProcessesOK'
  <2>1. \A q \in Pids : process[q] = i => q = p
    BY <1>0, <1>a DEF LedgerInv, ProcessesOK, Owns
  <2> QED
    <3> SUFFICES ASSUME NEW q \in Pids, NEW j \in ReviewIds, process[q] = j
                 PROVE  /\ sent[j] = 1 /\ Sent(j)'
                        /\ control'.claims[j].pid \in {NoReview, q}
                        /\ \A m \in Launchers : Owns(m)' /\ launch'[m].review = j =>
                              launch'[m].pc \in {"spawned", "confirmed"} /\ launch'[m].pid = q
                        /\ \A r \in Pids : process[r] = j => r = q
      BY <1>0 DEF ProcessesOK
    <3>0. \A r \in Pids : process[r] = j => r = q
      BY DEF LedgerInv, ProcessesOK
    <3>1. CASE j = i
      <4>1. control'.claims[j] = c /\ q = p
        BY <1>3, <2>1, <3>1 DEF Writes
      <4> QED
        BY <1>1, <1>4, <1>5, <1>b, <3>0, <3>1, <4>1 DEF Owns, Sent, Status
    <3>2. CASE j # i
      <4>1. control'.claims[j] = control.claims[j]
        BY <1>3, <3>2 DEF Writes
      <4>2. \A m \in Launchers : Owns(m)' /\ launch'[m].review = j =>
               Owns(m) /\ launch'[m] = launch[m]
        BY <1>5, <3>2 DEF Owns
      <4> QED
        BY <3>0, <4>1, <4>2 DEF LedgerInv, ProcessesOK, Sent, Status
    <3> QED
      BY <3>1, <3>2
<1> QED
  BY <1>7, <1>8, <1>9, <1>10, <1>11 DEF LedgerInv

(* What is collected is of the one process of the review, which is gone.   *)
LEMMA CollectStep ==
  ASSUME LedgerInv, NEW l \in Launchers, Collect(l)
  PROVE  LedgerInv'
<1>0. launch[l].pc = "confirmed" /\ UNCHANGED <<control, sent, cancel, today>>
      /\ Goes(l, "collected")
  BY DEF Collect
<1>a. PICK i \in ReviewIds, p \in Pids : launch[l].review = i /\ launch[l].pid = p
  BY <1>0 DEF LedgerInv, LaunchersOK, LauncherOK
<1>1. Status(i) = "DISPATCHED" /\ sent[i] = 1 /\ launch[l].day \in 1..LastDay
  BY <1>0, <1>a DEF LedgerInv, LaunchersOK, LauncherOK, Status
<1>2. PICK x \in LaunchRecords :
         /\ x.pc = "collected" /\ x.review = i /\ x.day = launch[l].day
         /\ x.pid = p
         /\ launch' \in [Launchers -> LaunchRecords]
         /\ \A m \in Launchers : launch'[m] = IF m = l THEN x ELSE launch[m]
  <2>1. "collected" \in LaunchPcs
    BY DEF LaunchPcs
  <2> QED
    BY <1>0, <1>a, <2>1, LaunchGoes
<1>3. /\ process \in [Pids -> ReviewIds \cup {"other", NoReview}]
      /\ process' = [process EXCEPT ![p] = IF process[p] = i THEN NoReview ELSE process[p]]
  BY <1>a DEF Collect, LedgerInv, LedgerTyped
<1>4. /\ process' \in [Pids -> ReviewIds \cup {"other", NoReview}]
      /\ \A q \in Pids : process'[q] \in ReviewIds => process'[q] = process[q] /\ process[q] # i
  <2>1. \A q \in Pids : process[q] = i => q = p
    BY <1>0, <1>a DEF LedgerInv, ProcessesOK, Owns
  <2> QED
    BY <1>3, <2>1, ReviewAssumption
<1>5. \A j \in ReviewIds : Runs(j)' => Runs(j)
  BY <1>4, Zenon DEF Runs
<1>6. LedgerTyped' /\ ReviewClaimsOK'
  BY <1>0, <1>4, <1>5 DEF LedgerInv, LedgerTyped, ReviewClaimsOK, Status
<1>7. CancelOK'
  <2>1. cancel.pc = "killed" => ~Runs(cancel.review)'
    BY <1>0, <1>5 DEF LedgerInv, CancelOK, Runs
  <2> QED
    BY <1>0, <2>1 DEF LedgerInv, CancelOK
<1>b. \A m \in Launchers \ {l} : Owns(m) => launch[m].review # i
  BY <1>0, <1>a DEF LedgerInv, LaunchersOK, Owns
<1>8. LaunchersOK'
  <2>1. ASSUME NEW m \in Launchers PROVE LauncherOK(m)'
    <3>1. CASE m = l
      BY <1>0, <1>1, <1>2, <3>1 DEF LauncherOK, Status
    <3>2. CASE m # l
      BY <1>0, <1>2, <3>2 DEF LedgerInv, LaunchersOK, LauncherOK, Status
    <3> QED
      BY <3>1, <3>2
  <2>2. \A m, n \in Launchers :
           Owns(m)' /\ Owns(n)' /\ launch'[m].review = launch'[n].review => m = n
    BY <1>2, <1>b DEF LedgerInv, LaunchersOK, Owns
  <2> QED
    BY <1>2, <2>1, <2>2 DEF LaunchersOK
<1>9. ProcessesOK'
  <2>1. \A m \in Launchers, j \in ReviewIds \ {i} : Owns(m)' /\ launch'[m].review = j =>
           Owns(m) /\ launch'[m] = launch[m]
    BY <1>2 DEF Owns
  <2> QED
    BY <1>0, <1>4, <2>1 DEF LedgerInv, ProcessesOK, Sent, Status
<1> QED
  BY <1>6, <1>7, <1>8, <1>9 DEF LedgerInv

(***************************************************************************)
(* The steps of the operator and of the machine.                           *)
(***************************************************************************)
(* A cancellation is bound to the pid its claim has.                       *)
LEMMA CancelSteps ==
  ASSUME LedgerInv, CmdCancel \/ CheckToken
  PROVE  LedgerInv'
<1>1. UNCHANGED <<control, launch, process, sent, today>>
  BY DEF CmdCancel, CheckToken, Others
<1>2. LedgerTyped' /\ LaunchersOK' /\ ReviewClaimsOK' /\ ProcessesOK'
  BY <1>1 DEF LedgerInv, LedgerTyped, LaunchersOK, LauncherOK, ReviewClaimsOK, ProcessesOK,
              Owns, Status, Sent, Runs
<1>3. CASE CmdCancel
  <2>1. PICK i \in ReviewIds :
           /\ control.claims[i].pid # NoReview
           /\ cancel' = [pc |-> "bound", review |-> i, pid |-> control.claims[i].pid]
    BY <1>3 DEF CmdCancel
  <2>2. control.claims[i].pid \in Pids
    BY <2>1 DEF LedgerInv, LedgerTyped, Claims
  <2>3. CancelOK'
    BY <1>1, <2>1, <2>2 DEF CancelOK
  <2> QED
    BY <1>2, <2>3 DEF LedgerInv
<1>4. CASE CheckToken
  <2>1. \/ cancel' = [cancel EXCEPT !.pc = "owned"] \/ cancel' = NoCancel
    <3>1. CASE process[cancel.pid] = cancel.review
      BY <1>4, <3>1, Zenon DEF CheckToken
    <3>2. CASE process[cancel.pid] # cancel.review
      BY <1>4, <3>2, Zenon DEF CheckToken
    <3> QED
      BY <3>1, <3>2
  <2>2. cancel.pc = "bound"
    BY <1>4 DEF CheckToken
  <2>3. CASE cancel' = NoCancel
    BY <1>2, <2>3 DEF LedgerInv, CancelOK, NoCancel
  <2>4. CASE cancel' = [cancel EXCEPT !.pc = "owned"]
    <3>1. cancel \in [pc : {"bound", "owned", "killed"}, review : ReviewIds, pid : Pids]
          /\ control.claims[cancel.review].pid = cancel.pid
      BY <2>2 DEF LedgerInv, CancelOK
    <3>2. cancel'.pc = "owned" /\ cancel'.review = cancel.review /\ cancel'.pid = cancel.pid
          /\ cancel' \in [pc : {"bound", "owned", "killed"}, review : ReviewIds, pid : Pids]
      <4>1. PICK y : y = [cancel EXCEPT !.pc = "owned"]
        OBVIOUS
      <4>2. y.pc = "owned" /\ y.review = cancel.review /\ y.pid = cancel.pid
            /\ y \in [pc : {"bound", "owned", "killed"}, review : ReviewIds, pid : Pids]
        BY <3>1, <4>1
      <4>3. cancel' = y
        BY <2>4, <4>1, Zenon
      <4> QED
        BY <4>2, <4>3
    <3> QED
      BY <1>1, <1>2, <3>1, <3>2 DEF LedgerInv, CancelOK
  <2> QED
    BY <2>1, <2>3, <2>4
<1> QED
  BY <1>3, <1>4

(* The pid of a claim is the only one its review can still run under: once *)
(* the group of that pid is killed, the review does not run.               *)
LEMMA KillGroupStep ==
  ASSUME LedgerInv, KillGroup
  PROVE  LedgerInv'
<1>0. cancel.pc = "owned" /\ UNCHANGED <<control, launch, sent, today>>
  BY DEF KillGroup, Others
<1>1. /\ cancel \in [pc : {"bound", "owned", "killed"}, review : ReviewIds, pid : Pids]
      /\ cancel.review \in ReviewIds /\ cancel.pid \in Pids
      /\ control.claims[cancel.review].pid = cancel.pid
  BY <1>0 DEF LedgerInv, CancelOK
<1>2. PICK i \in ReviewIds, p \in Pids : i = cancel.review /\ p = cancel.pid
  BY <1>1
<1>3. process' = [process EXCEPT ![p] = NoReview]
  BY <1>2 DEF KillGroup
<1>4. LedgerTyped' /\ LaunchersOK' /\ ReviewClaimsOK' /\ ProcessesOK'
  <2>1. PICK v \in {"other", NoReview} : v = NoReview
    OBVIOUS
  <2> QED
    BY <1>0, <1>3, <2>1, ProcessLeaves
<1>5. cancel'.pc = "killed" /\ cancel'.review = cancel.review /\ cancel'.pid = cancel.pid
      /\ cancel' \in [pc : {"bound", "owned", "killed"}, review : ReviewIds, pid : Pids]
  BY <1>1 DEF KillGroup
<1>6. ~Runs(i)'
  <2>1. \A q \in Pids : process[q] = i => q = p
    BY <1>1, <1>2, ReviewAssumption DEF LedgerInv, ProcessesOK
  <2>2. process \in [Pids -> ReviewIds \cup {"other", NoReview}]
    BY DEF LedgerInv, LedgerTyped
  <2> QED
    BY <1>3, <2>1, <2>2, ReviewAssumption DEF Runs
<1>7. CancelOK'
  BY <1>0, <1>1, <1>2, <1>5, <1>6 DEF CancelOK, Runs
<1> QED
  BY <1>4, <1>7 DEF LedgerInv

(* A cancellation is recorded of a group that was killed.                  *)
LEMMA RecordCancelledStep ==
  ASSUME LedgerInv, RecordCancelled
  PROVE  LedgerInv'
<1>0. cancel.pc = "killed" /\ cancel' = NoCancel /\ UNCHANGED <<launch, process, sent, today>>
  BY DEF RecordCancelled, Terminated, Others
<1>1. PICK i \in ReviewIds : i = cancel.review /\ ~Runs(i) /\ sent[i] = 1
  BY <1>0, ReviewAssumption DEF LedgerInv, CancelOK, ReviewClaimsOK
<1>2. CancelOK'
  BY <1>0 DEF CancelOK, NoCancel
<1>3. CASE UNCHANGED control
  <2>1. LedgerTyped' /\ LaunchersOK' /\ ReviewClaimsOK' /\ ProcessesOK'
    BY <1>0, <1>3 DEF LedgerInv, LedgerTyped, LaunchersOK, LauncherOK, ReviewClaimsOK,
                      ProcessesOK, Owns, Status, Sent, Runs
  <2> QED
    BY <1>2, <2>1 DEF LedgerInv
<1>4. CASE RecordLocalCancellation(i)
  <2>1. PICK c \in Claims :
           /\ c = [control.claims[i] EXCEPT !.cancelled = TRUE]
           /\ Writes(i, c, control.days, control.active)
    BY <1>4, CancellationWrites DEF LedgerInv, Writes
  <2>2. /\ c.status = control.claims[i].status /\ c.day = control.claims[i].day
        /\ c.pid = control.claims[i].pid
    BY <2>1 DEF LedgerInv, LedgerTyped, Claims
  <2>3. LedgerTyped' /\ \A d \in 1..LastDay : control'.days[d] =
                 Cardinality({j \in ReviewIds : control'.claims[j].day = d})
    BY <1>0, <2>1, <2>2, DaysKept DEF Writes
  <2>4. \A j \in ReviewIds :
           /\ control'.claims[j].status = control.claims[j].status
           /\ control'.claims[j].day = control.claims[j].day
           /\ control'.claims[j].pid = control.claims[j].pid
           /\ j # i => control'.claims[j].cancelled = control.claims[j].cancelled
    BY <2>1, <2>2 DEF Writes
  <2>5. control'.active = control.active
    BY <2>1 DEF Writes
  <2>6. ReviewClaimsOK'
    <3>1. \A j \in ReviewIds :
             control'.claims[j].cancelled => sent'[j] = 1 /\ ~Runs(j)'
      BY <1>0, <1>1, <2>4 DEF LedgerInv, ReviewClaimsOK, Runs
    <3> QED
      BY <1>0, <2>3, <2>4, <2>5, <3>1 DEF LedgerInv, ReviewClaimsOK, Status
  <2>7. LaunchersOK'
    <3>1. ASSUME NEW m \in Launchers PROVE LauncherOK(m)'
      BY <1>0, <2>4 DEF LedgerInv, LaunchersOK, LauncherOK, Status
    <3> QED
      BY <1>0, <3>1 DEF LedgerInv, LaunchersOK, Owns
  <2>8. ProcessesOK'
    BY <1>0, <2>4 DEF LedgerInv, ProcessesOK, Owns, Sent, Status
  <2> QED
    BY <1>2, <2>3, <2>6, <2>7, <2>8 DEF LedgerInv
<1> QED
  BY <1>1, <1>3, <1>4 DEF RecordCancelled, RecordLocalCancellation

(* Processes end, and pids are used again, by programs that are no reviews. *)
LEMMA MachineSteps ==
  ASSUME LedgerInv, NEW p \in Pids, ProcessEnds(p) \/ OtherStarts(p)
  PROVE  LedgerInv'
<1>1. UNCHANGED <<control, launch, sent, cancel, today>>
  BY DEF ProcessEnds, OtherStarts, Others
<1>2. PICK v \in {"other", NoReview} : process' = [process EXCEPT ![p] = v]
  BY DEF ProcessEnds, OtherStarts
<1>3. /\ LedgerTyped' /\ LaunchersOK' /\ ReviewClaimsOK' /\ ProcessesOK'
      /\ \A i \in ReviewIds : Runs(i)' => Runs(i)
  BY <1>1, <1>2, ProcessLeaves
<1>4. CancelOK'
  <2>1. cancel.pc = "killed" => ~Runs(cancel.review)'
    BY <1>1, <1>3 DEF LedgerInv, CancelOK, Runs
  <2> QED
    BY <1>1, <2>1 DEF LedgerInv, CancelOK
<1> QED
  BY <1>3, <1>4 DEF LedgerInv

(* What reads the clock, or leaves the ledger's claims alone.              *)
LEMMA ClaimsKept ==
  ASSUME LedgerInv, UNCHANGED <<launch, process, sent, cancel>>,
         today' \in 1..LastDay,
         /\ control' = [claims |-> control'.claims, days |-> control'.days,
                        active |-> control'.active, imports |-> control'.imports]
         /\ control'.claims = control.claims /\ control'.days = control.days
         /\ control'.active = control.active
  PROVE  LedgerInv'
<1>1. LedgerTyped' /\ LaunchersOK' /\ ReviewClaimsOK' /\ ProcessesOK' /\ CancelOK'
  BY DEF LedgerInv, LedgerTyped, LaunchersOK, LauncherOK, ReviewClaimsOK,
         ProcessesOK, CancelOK, Owns, Status, Sent, Runs
<1> QED
  BY <1>1 DEF LedgerInv

(***************************************************************************)
(* What is told.                                                           *)
(***************************************************************************)
(* classify_review_result verifies only a completed, whole, clean review.  *)
LEMMA LaunchVerified ==
  ASSUME NEW r \in Results, ClassifyLaunch(r, Checks) = "VERIFIED"
  PROVE  r.state = "COMPLETED" /\ r.ended = "whole" /\ CleanFindings(r.findings)
<1>1. /\ r.ended \notin {"timed out", "failed", "truncated"}
      /\ r.state = "COMPLETED" /\ ~SomeFailed(r) /\ ~SomeBlocking(r)
  BY DEF ClassifyLaunch
<1> QED
  BY <1>1, ResultsAssumption DEF SomeFailed, SomeBlocking, Statuses, CleanFindings

(* classify_native_review_result verifies only an approved, clean review.  *)
LEMMA NativeVerified ==
  ASSUME NEW r, NEW checks, ClassifyNative(r, checks) = "VERIFIED"
  PROVE  r.state = "APPROVED" /\ CleanFindings(r.findings)
<1>1. r.state = "APPROVED" /\ ~SomeFailed(r) /\ ~SomeBlocking(r)
  BY DEF ClassifyNative
<1> QED
  BY <1>1 DEF SomeFailed, SomeBlocking, Statuses, CleanFindings

(* The steps of a launch change what is told, and nothing of an import.    *)
LEMMA LaunchTells ==
  ASSUME NativeOK, UNCHANGED native, control'.imports = control.imports,
         \/ UNCHANGED told
         \/ told' = NoNative
         \/ \E r \in Results :
               told' = [pc |-> "answered", grant |-> [checks |-> Checks],
                        seen |-> r, class |-> ClassifyLaunch(r, Checks)]
  PROVE  NativeOK'
<1>1. told'.pc = "answered" => ToldOK(told)'
  <2>1. CASE UNCHANGED told
    BY <2>1 DEF NativeOK, ToldOK, Approved
  <2>2. CASE told' = NoNative
    BY <2>2 DEF NoNative
  <2>3. CASE \E r \in Results :
               told' = [pc |-> "answered", grant |-> [checks |-> Checks],
                        seen |-> r, class |-> ClassifyLaunch(r, Checks)]
    <3>1. PICK r \in Results :
             told'.seen = r /\ told'.class = ClassifyLaunch(r, Checks)
      BY <2>3
    <3> QED
      BY <3>1, LaunchVerified DEF ToldOK
  <2> QED
    BY <2>1, <2>2, <2>3
<1>2. Approved(native)' <=> Approved(native)
  BY DEF Approved
<1> QED
  BY <1>1, <1>2 DEF NativeOK

(* No step of a launch, and none of the operator, touches an import.       *)
LEMMA ImportsKept ==
  ASSUME LedgerInv, LaunchesNext
  PROVE  control'.imports = control.imports
<1> DEFINE Claims1 == \E a : control' = [control EXCEPT !.claims = a]
           Claims2 == \E a, k : control' = [control EXCEPT !.claims = a, !.active = k]
           Claims3 == \E a, b, k :
                         control' = [control EXCEPT !.claims = a, !.days = b, !.active = k]
<1>1. ASSUME NEW l \in Launchers,
             \/ StartLaunch(l) \/ TakeClaim(l) \/ ReleaseClaim(l) \/ Mark(l)
             \/ Spawn(l) \/ Confirm(l) \/ Collect(l) \/ RecordOutcome(l)
             \/ LauncherDies(l)
      PROVE  control' = control \/ Claims1 \/ Claims2 \/ Claims3
  <2>1. TakeClaim(l) => control' = control \/ Claims3
    BY Zenon DEF TakeClaim, ClaimReview
  <2>2. ReleaseClaim(l) => control' = control \/ Claims2
    BY Zenon DEF ReleaseClaim, ReleaseUnsentClaim
  <2>3. Mark(l) => control' = control \/ Claims1
    BY Zenon DEF Mark, RecordDispatchAttempt
  <2>4. Confirm(l) => control' = control \/ Claims1
    BY Zenon DEF Confirm, ConfirmDispatchSent
  <2>5. RecordOutcome(l) => control' = control \/ Claims2
    BY Zenon DEF RecordOutcome, RecordReviewOutcome
  <2>6. StartLaunch(l) \/ Spawn(l) \/ Collect(l) \/ LauncherDies(l) => control' = control
    BY DEF StartLaunch, Spawn, Collect, LauncherDies
  <2> QED
    BY <1>1, <2>1, <2>2, <2>3, <2>4, <2>5, <2>6
<1>2. CmdRecordDispatch => Claims1
  BY Zenon DEF CmdRecordDispatch, RecordDispatchAttempt
<1>3. RecordCancelled => control' = control \/ Claims1
  BY Zenon DEF RecordCancelled, RecordLocalCancellation
<1>4. CmdCancel \/ CheckToken \/ KillGroup \/ NextDay => control' = control
  BY DEF CmdCancel, CheckToken, KillGroup, NextDay
<1>5. \A p \in Pids : ProcessEnds(p) \/ OtherStarts(p) => control' = control
  BY DEF ProcessEnds, OtherStarts
<1>6. control' = control \/ Claims1 \/ Claims2 \/ Claims3
  BY <1>1, <1>2, <1>3, <1>4, <1>5, Zenon DEF LaunchesNext
<1> HIDE DEF Claims1, Claims2, Claims3
<1>7. \E a, b, k, m : control = [claims |-> a, days |-> b, active |-> k, imports |-> m]
  BY DEF LedgerInv, LedgerTyped
<1>8. PICK a, b, k, m : control = [claims |-> a, days |-> b, active |-> k, imports |-> m]
  BY <1>7
<1>9. Claims1 => control'.imports = m
  BY <1>8 DEF Claims1
<1>10. Claims2 => control'.imports = m
  BY <1>8 DEF Claims2
<1>11. Claims3 => control'.imports = m
  BY <1>8 DEF Claims3
<1> QED
  BY <1>6, <1>8, <1>9, <1>10, <1>11

(* A review that was imported before is told as it was classified then,    *)
(* and it says what it said then: the address is of what it says.          *)
LEMMA NativeSteps ==
  ASSUME LedgerTyped, NativeOK, NativeNext
  PROVE  NativeOK'
<1>1. CASE FetchNative
  <2>1. PICK g \in ReviewGrants :
           native' = [pc |-> "fetched", grant |-> g, seen |-> review.shown]
    BY <1>1 DEF FetchNative
  <2>2. native'.pc = "fetched" /\ UNCHANGED <<control, told>>
    BY <1>1, <2>1 DEF FetchNative
  <2> QED
    BY <2>2 DEF NativeOK, ToldOK, Approved
<1>2. CASE ReadImport
  <2> DEFINE found == Imported(ContentAddress(native.seen, IdentityKey(native.grant)))
             pc == IF found = {} THEN "classified" ELSE "answered"
             class == IF found = {} THEN ClassifyNative(native.seen, native.grant.checks)
                      ELSE (CHOOSE m \in found : TRUE).class
  <2>1. /\ native' = [pc |-> pc, grant |-> native.grant, seen |-> native.seen,
                      class |-> class]
        /\ UNCHANGED <<control, told>>
    BY <1>2 DEF ReadImport
  <2>2. class = "VERIFIED" =>
           native.seen.state = "APPROVED" /\ CleanFindings(native.seen.findings)
    <3>1. CASE found = {}
      BY <3>1, NativeVerified
    <3>2. CASE found # {}
      <4>1. PICK n : n = (CHOOSE m \in found : TRUE)
        OBVIOUS
      <4>2. n \in control.imports
            /\ n.address = ContentAddress(native.seen, IdentityKey(native.grant))
        BY <3>2, <4>1 DEF Imported
      <4>3. n.address.state = native.seen.state /\ n.address.findings = native.seen.findings
        BY <4>2 DEF ContentAddress
      <4> QED
        BY <3>2, <4>1, <4>2, <4>3 DEF NativeOK
    <3> QED
      BY <3>1, <3>2
  <2>3. pc \in {"classified", "answered"}
    OBVIOUS
  <2> HIDE DEF pc, class
  <2>4. /\ native'.pc = pc /\ native'.grant = native.grant
        /\ native'.seen = native.seen /\ native'.class = class
    BY <2>1
  <2>5. Approved(native)'
    BY <2>2, <2>4 DEF Approved
  <2>6. native' = [pc |-> native'.pc, grant |-> native'.grant,
                   seen |-> native'.seen, class |-> native'.class]
    BY <2>1, <2>4
  <2> QED
    BY <2>1, <2>3, <2>4, <2>5, <2>6 DEF NativeOK, ToldOK, Approved
<1>3. CASE RecordImport
  <2> DEFINE address == ContentAddress(native.seen, IdentityKey(native.grant))
             m == [address |-> address, class |-> native.class]
  <2>1. /\ native.pc = "classified" /\ UNCHANGED told
        /\ native' = [native EXCEPT !.pc = "answered"]
    BY <1>3 DEF RecordImport
  <2>2. /\ native = [pc |-> native.pc, grant |-> native.grant,
                     seen |-> native.seen, class |-> native.class]
        /\ Approved(native)
    BY <2>1 DEF NativeOK
  <2>3. /\ native'.pc = "answered" /\ native'.grant = native.grant
        /\ native'.seen = native.seen /\ native'.class = native.class
        /\ native' = [pc |-> native'.pc, grant |-> native'.grant,
                      seen |-> native'.seen, class |-> native'.class]
    BY <2>1, <2>2
  <2>4. Approved(native)'
    BY <2>2, <2>3 DEF Approved
  <2>5. \A n \in control'.imports : n.class = "VERIFIED" =>
           n.address.state = "APPROVED" /\ CleanFindings(n.address.findings)
    <3>1. m.address.state = native.seen.state /\ m.address.findings = native.seen.findings
          /\ m.class = native.class
      BY DEF ContentAddress
    <3> HIDE DEF m
    <3>2. m.class = "VERIFIED" =>
             m.address.state = "APPROVED" /\ CleanFindings(m.address.findings)
      BY <2>2, <3>1 DEF Approved
    <3>3. PICK imports : imports = control.imports \cup {m}
      OBVIOUS
    <3>4. \/ control' = control \/ control' = [control EXCEPT !.imports = imports]
      BY <1>3, <3>3, Zenon DEF RecordImport, m
    <3>5. CASE control' = control
      BY <3>5 DEF NativeOK
    <3>6. CASE control' = [control EXCEPT !.imports = imports]
      <4>1. control'.imports = imports
        BY <3>6 DEF LedgerTyped
      <4> QED
        BY <3>2, <3>3, <4>1 DEF NativeOK
    <3> QED
      BY <3>4, <3>5, <3>6
  <2> QED
    BY <2>1, <2>3, <2>4, <2>5 DEF NativeOK, ToldOK, Approved
<1>4. CASE HandOffNative
  <2>1. /\ native.pc = "answered" /\ told' = native /\ native' = NoNative
        /\ UNCHANGED control
    BY <1>4 DEF HandOffNative
  <2> QED
    BY <2>1 DEF NativeOK, ToldOK, Approved, NoNative
<1>5. CASE NativeCallerDies
  <2>1. native' = NoNative /\ UNCHANGED <<control, told>>
    BY <1>5 DEF NativeCallerDies
  <2> QED
    BY <2>1 DEF NativeOK, ToldOK, Approved, NoNative
<1>6. CASE ReviewEdited
  <2>1. UNCHANGED <<control, native, told>>
    BY <1>6 DEF ReviewEdited
  <2> QED
    BY <2>1 DEF NativeOK, ToldOK, Approved
<1> QED
  BY <1>1, <1>2, <1>3, <1>4, <1>5, <1>6 DEF NativeNext

(***************************************************************************)
(* The theorem.                                                            *)
(***************************************************************************)
(* An empty ledger.                                                        *)
LEMMA LedgerStart == ReviewInit => LedgerInv /\ NativeOK
<1> SUFFICES ASSUME ReviewInit PROVE LedgerInv /\ NativeOK
  OBVIOUS
<1>1. /\ control.claims = [i \in ReviewIds |-> Unclaimed]
      /\ control.days = [d \in 1..LastDay |-> 0]
      /\ control.active = NoReview /\ control.imports = {}
      /\ control = [claims |-> control.claims, days |-> control.days,
                    active |-> control.active, imports |-> control.imports]
  BY DEF ReviewInit, DefaultLedger
<1>2. Unclaimed \in Claims /\ Unclaimed.status = "NONE" /\ Unclaimed.day = 0
      /\ Unclaimed.pid = NoReview /\ Unclaimed.cancelled = FALSE
  BY CeilingAssumption DEF Unclaimed, Claims, ClaimStatuses
<1>3. LedgerTyped
  BY <1>1, <1>2, CeilingAssumption DEF LedgerTyped, ReviewInit
<1>4. ReviewClaimsOK
  <2>1. \A i \in ReviewIds : control.claims[i] = Unclaimed /\ sent[i] = 0
    BY <1>1 DEF ReviewInit
  <2>2. ASSUME NEW d \in 1..LastDay
        PROVE  control.days[d] = Cardinality({i \in ReviewIds : control.claims[i].day = d})
    <3>1. {i \in ReviewIds : control.claims[i].day = d} = {} /\ control.days[d] = 0
      BY <1>1, <1>2, <2>1
    <3> QED
      BY <3>1, FS_EmptySet
  <2> QED
    BY <1>2, <2>1, <2>2 DEF ReviewClaimsOK, Status
<1>5. LaunchersOK
  <2>1. \A l \in Launchers : launch[l] = NoLaunch
    BY DEF ReviewInit
  <2>2. NoLaunch \in LaunchRecords /\ NoLaunch.pc = "idle"
    BY IdleRecords DEF NoLaunch
  <2> QED
    BY <2>1, <2>2 DEF LaunchersOK, LauncherOK, Owns, ReviewInit
<1>6. ProcessesOK
  BY ReviewAssumption DEF ProcessesOK, ReviewInit
<1>7. CancelOK
  BY DEF CancelOK, NoCancel, ReviewInit
<1>8. NativeOK
  BY <1>1 DEF NativeOK, NoNative, ReviewInit
<1> QED
  BY <1>3, <1>4, <1>5, <1>6, <1>7, <1>8 DEF LedgerInv

(* Every launch, the operator, the machine and a native reuse.             *)
LEMMA LedgerSteps ==
  LedgerInv /\ NativeOK /\ [LaunchesNext \/ NativeNext]_reviewVars
    => LedgerInv' /\ NativeOK'
<1> SUFFICES ASSUME LedgerInv, NativeOK, [LaunchesNext \/ NativeNext]_reviewVars
             PROVE  LedgerInv' /\ NativeOK'
  OBVIOUS
<1>1. CASE LaunchesNext
  <2>1. ASSUME NEW l \in Launchers,
               \/ StartLaunch(l) \/ TakeClaim(l) \/ ReleaseClaim(l) \/ Mark(l)
               \/ Spawn(l) \/ Confirm(l) \/ LauncherDies(l)
        PROVE  LedgerInv'
    BY <2>1, StartLaunchStep, TakeClaimStep, ReleaseClaimStep, MarkStep, SpawnStep,
       ConfirmStep, LaunchStops DEF LauncherDies, Others
  <2>2. LedgerInv'
    <3>1. ASSUME NextDay PROVE LedgerInv'
      <4>1. today' \in 1..LastDay /\ UNCHANGED <<control, launch, process, sent, cancel>>
        BY <3>1, CeilingAssumption DEF NextDay, LedgerInv, LedgerTyped
      <4>2. /\ control' = [claims |-> control'.claims, days |-> control'.days,
                           active |-> control'.active, imports |-> control'.imports]
            /\ control'.claims = control.claims /\ control'.days = control.days
            /\ control'.active = control.active
        BY <4>1 DEF LedgerInv, LedgerTyped
      <4> QED
        BY <4>1, <4>2, ClaimsKept
    <3>2. ASSUME NEW l \in Launchers, Collect(l) \/ RecordOutcome(l) PROVE LedgerInv'
      BY <3>2, CollectStep, RecordOutcomeStep
    <3>3. ASSUME CmdRecordDispatch \/ CmdCancel \/ CheckToken \/ KillGroup \/ RecordCancelled
          PROVE  LedgerInv'
      BY <3>3, CmdRecordDispatchStep, CancelSteps, KillGroupStep, RecordCancelledStep
    <3>4. ASSUME NEW p \in Pids, ProcessEnds(p) \/ OtherStarts(p) PROVE LedgerInv'
      BY <3>4, MachineSteps
    <3> HIDE DEF LedgerInv
    <3> QED
      BY <1>1, <2>1, <3>1, <3>2, <3>3, <3>4, Zenon DEF LaunchesNext
  <2>3. UNCHANGED native
    BY <1>1 DEF LaunchesNext, StartLaunch, TakeClaim, ReleaseClaim, Mark, Spawn, Confirm,
       Collect, RecordOutcome, LauncherDies, CmdRecordDispatch, CmdCancel, CheckToken,
       KillGroup, RecordCancelled, NextDay, ProcessEnds, OtherStarts, Others
  <2>4. \/ UNCHANGED told
        \/ told' = NoNative
        \/ \E r \in Results :
              told' = [pc |-> "answered", grant |-> [checks |-> Checks],
                       seen |-> r, class |-> ClassifyLaunch(r, Checks)]
    BY <1>1 DEF LaunchesNext, StartLaunch, TakeClaim, ReleaseClaim, Mark, Spawn, Confirm,
       Collect, RecordOutcome, LauncherDies, CmdRecordDispatch, CmdCancel, CheckToken,
       KillGroup, RecordCancelled, NextDay, ProcessEnds, OtherStarts, Others
  <2>5. control'.imports = control.imports
    BY <1>1, ImportsKept DEF LedgerInv
  <2> QED
    BY <2>2, <2>3, <2>4, <2>5, LaunchTells
<1>2. CASE NativeNext
  <2>1. NativeOK'
    BY <1>2, NativeSteps DEF LedgerInv
  <2>2. UNCHANGED <<launch, process, sent, cancel, today>>
    BY <1>2 DEF NativeNext, FetchNative, ReadImport, RecordImport, HandOffNative,
                NativeCallerDies, ReviewEdited, NativeOnly
  <2>3. \/ control' = control
        \/ \E imports : control' = [control EXCEPT !.imports = imports]
    BY <1>2, Zenon DEF NativeNext, FetchNative, ReadImport, RecordImport, HandOffNative,
                NativeCallerDies, ReviewEdited
  <2>4. /\ control' = [claims |-> control'.claims, days |-> control'.days,
                       active |-> control'.active, imports |-> control'.imports]
        /\ control'.claims = control.claims /\ control'.days = control.days
        /\ control'.active = control.active
    <3>0. control = [claims |-> control.claims, days |-> control.days,
                     active |-> control.active, imports |-> control.imports]
      BY DEF LedgerInv, LedgerTyped
    <3>1. CASE control' = control
      BY <3>0, <3>1
    <3>2. CASE \E imports : control' = [control EXCEPT !.imports = imports]
      BY <3>0, <3>2
    <3> QED
      BY <2>3, <3>1, <3>2
  <2>5. LedgerInv'
    BY <2>2, <2>4, ClaimsKept DEF LedgerInv, LedgerTyped
  <2> QED
    BY <2>1, <2>5
<1>3. CASE UNCHANGED reviewVars
  BY <1>3 DEF reviewVars, LedgerInv, LedgerTyped, LaunchersOK, LauncherOK, ReviewClaimsOK,
              ProcessesOK, CancelOK, NativeOK, Owns, Status, Sent, Runs, ToldOK, Approved
<1> QED
  BY <1>1, <1>2, <1>3

(* What a launch, its claim and its process agree on is what is promised.  *)
LEMMA LedgerSound == LedgerInv /\ NativeOK => LaunchesSound
<1> SUFFICES ASSUME LedgerInv, NativeOK PROVE LaunchesSound
  OBVIOUS
<1>1. SentOnce
  BY DEF SentOnce, LedgerInv, LedgerTyped
<1>2. SlotCoversLive
  BY DEF SlotCoversLive, LedgerInv, ProcessesOK, ReviewClaimsOK, Runs, Sent
<1>3. DailyCeiling
  BY CeilingAssumption DEF DailyCeiling, LedgerInv, LedgerTyped, ReviewClaimsOK
<1>4. CancelledIsDead
  BY DEF CancelledIsDead, LedgerInv, ReviewClaimsOK
<1>5. VerifiedIsClean
  BY DEF VerifiedIsClean, NativeOK, ToldOK, CleanFindings
<1> QED
  BY <1>1, <1>2, <1>3, <1>4, <1>5 DEF LaunchesSound

(* The ledger of bounded reviews: whoever dies between the claim, the send *)
(* and its confirmation, a review is sent at most once, the slot is held   *)
(* while its process runs, no day has more launches than its ceiling, a    *)
(* cancelled review does not run, and verified evidence is of a clean one. *)
THEOREM LaunchesHold == ReviewSpec => []LaunchesSound
<1>1. ReviewInit => LedgerInv /\ NativeOK
  BY LedgerStart
<1>2. LedgerInv /\ NativeOK /\ [LaunchesNext \/ NativeNext]_reviewVars
        => (LedgerInv /\ NativeOK)'
  BY LedgerSteps
<1>3. LedgerInv /\ NativeOK => LaunchesSound
  BY LedgerSound
<1> QED
  BY <1>1, <1>2, <1>3, PTL DEF ReviewSpec

-----------------------------------------------------------------------------
(* AcceptancePolicy.                                                       *)

(* The views of the policy after each adoption of s, the empty one first.  *)
PolicyViews(f, b, s) ==
    f = [i \in 0 .. Len(s) |->
           IF i = 0 THEN EmptyPolicy ELSE CanonicalFold(f[i - 1], s[i], b)]

(* Every sequence of adoptions has them.                                   *)
LEMMA ViewsExist ==
  ASSUME NEW S, NEW s \in Seq(S), NEW b
  PROVE  \E f : PolicyViews(f, b, s)
<1> DEFINE Upto(f, n) ==
             f = [i \in 0 .. n |->
                    IF i = 0 THEN EmptyPolicy ELSE CanonicalFold(f[i - 1], s[i], b)]
           Without == {n \in 0 .. Len(s) : \A f : ~Upto(f, n)}
<1>1. Len(s) \in Nat
  OBVIOUS
<1>2. ASSUME Without # {} PROVE FALSE
  <2>1. Without \in SUBSET Nat
    BY <1>1
  <2>2. PICK n \in Without : \A m \in Without : n <= m
    BY <1>2, <2>1, LeastNat
  <2>3. n \in 0 .. Len(s) /\ \A f : ~Upto(f, n)
    BY <2>2
  <2>4. n # 0
    <3> DEFINE g == [i \in 0 .. 0 |-> EmptyPolicy]
    <3>1. g = [i \in 0 .. 0 |->
                 IF i = 0 THEN EmptyPolicy ELSE CanonicalFold(g[i - 1], s[i], b)]
      OBVIOUS
    <3>2. Upto(g, 0)
      BY <3>1
    <3> QED
      BY <2>3, <3>2
  <2>5. n - 1 \in 0 .. Len(s) /\ n - 1 \notin Without
    BY <1>1, <2>2, <2>3, <2>4
  <2>6. PICK f : Upto(f, n - 1)
    BY <2>5
  <2> DEFINE g == [i \in 0 .. n |->
                     IF i = n THEN CanonicalFold(f[n - 1], s[n], b) ELSE f[i]]
  <2>7. \A i \in 0 .. n - 1 : g[i] = f[i]
    BY <2>3, <1>1
  <2>8. \A i \in 0 .. n : g[i] = IF i = 0 THEN EmptyPolicy
                                 ELSE CanonicalFold(g[i - 1], s[i], b)
    <3> SUFFICES ASSUME NEW i \in 0 .. n
                 PROVE  g[i] = IF i = 0 THEN EmptyPolicy
                               ELSE CanonicalFold(g[i - 1], s[i], b)
      OBVIOUS
    <3>1. CASE i = n
      <4>1. g[i] = CanonicalFold(f[n - 1], s[n], b) /\ g[n - 1] = f[n - 1]
        BY <3>1, <2>7, <2>3, <2>4, <1>1
      <4> HIDE DEF g
      <4> QED
        BY <4>1, <3>1, <2>4
    <3>2. CASE i # n
      <4>1. i \in 0 .. n - 1
        BY <3>2, <2>3, <1>1
      <4>2. f[i] = IF i = 0 THEN EmptyPolicy ELSE CanonicalFold(f[i - 1], s[i], b)
        BY <4>1, <2>6
      <4>3. g[i] = f[i] /\ (i # 0 => g[i - 1] = f[i - 1])
        BY <4>1, <2>7, <2>3, <1>1
      <4> HIDE DEF g
      <4> QED
        BY <4>2, <4>3
    <3> QED
      BY <3>1, <3>2
  <2>9. g = [i \in 0 .. n |-> g[i]]
    OBVIOUS
  <2>10. Upto(g, n)
    <3> HIDE DEF g
    <3> QED
      BY <2>8, <2>9
  <2> QED
    BY <2>3, <2>10
<1>3. PICK f : Upto(f, Len(s))
  BY <1>1, <1>2
<1> QED
  BY <1>3 DEF PolicyViews

(* The views after the first adoptions do not depend on later ones.        *)
LEMMA ViewsAgree ==
  ASSUME NEW S, NEW s \in Seq(S), NEW t \in Seq(S), NEW b, NEW f, NEW g,
         PolicyViews(f, b, s), PolicyViews(g, b, t),
         Len(s) <= Len(t), \A i \in 1 .. Len(s) : s[i] = t[i]
  PROVE  \A i \in 0 .. Len(s) : f[i] = g[i]
<1> DEFINE Apart == {i \in 0 .. Len(s) : f[i] # g[i]}
<1>1. Len(s) \in Nat /\ Len(t) \in Nat
  OBVIOUS
<1>2. ASSUME Apart # {} PROVE FALSE
  <2>1. PICK i \in Apart : \A j \in Apart : i <= j
    <3>1. Apart \in SUBSET Nat
      BY <1>1
    <3> QED
      BY <1>2, <3>1, LeastNat
  <2>2. i \in 0 .. Len(s) /\ i \in 0 .. Len(t) /\ f[i] # g[i]
    BY <2>1, <1>1
  <2>3. f[i] = IF i = 0 THEN EmptyPolicy ELSE CanonicalFold(f[i - 1], s[i], b)
    BY <2>2 DEF PolicyViews
  <2>4. g[i] = IF i = 0 THEN EmptyPolicy ELSE CanonicalFold(g[i - 1], t[i], b)
    BY <2>2 DEF PolicyViews
  <2>5. i # 0
    BY <2>2, <2>3, <2>4
  <2>6. i - 1 \in 0 .. Len(s) /\ i - 1 \notin Apart /\ i \in 1 .. Len(s)
    BY <1>1, <2>1, <2>2, <2>5
  <2>7. f[i - 1] = g[i - 1] /\ s[i] = t[i]
    BY <2>6
  <2> QED
    BY <2>2, <2>3, <2>4, <2>5, <2>7
<1> QED
  BY <1>2

LEMMA PolicyIs ==
  ASSUME NEW S, NEW s \in Seq(S), NEW b
  PROVE  \E f : PolicyViews(f, b, s) /\ EffectivePolicy(b, s) = f[Len(s)]
<1> DEFINE view == CHOOSE f : PolicyViews(f, b, s)
<1>1. PolicyViews(view, b, s)
  BY ViewsExist
<1>2. EffectivePolicy(b, s) = view[Len(s)]
  BY DEF EffectivePolicy, PolicyViews
<1> QED
  BY <1>1, <1>2

(* No adoption, no policy; one more adoption, one more fold.               *)
LEMMA PolicyAppends ==
  ASSUME NEW S, NEW s \in Seq(S), NEW a \in S, NEW b
  PROVE  EffectivePolicy(b, Append(s, a)) = CanonicalFold(EffectivePolicy(b, s), a, b)
<1> DEFINE t == Append(s, a)
<1>1. /\ t \in Seq(S) /\ Len(s) \in Nat /\ Len(t) = Len(s) + 1
      /\ t[Len(t)] = a /\ \A i \in 1 .. Len(s) : t[i] = s[i]
  BY AppendProperties
<1> HIDE DEF t
<1>2. PICK f : PolicyViews(f, b, s) /\ EffectivePolicy(b, s) = f[Len(s)]
  BY PolicyIs
<1>3. PICK g : PolicyViews(g, b, t) /\ EffectivePolicy(b, t) = g[Len(t)]
  BY <1>1, PolicyIs
<1>4. \A i \in 0 .. Len(s) : f[i] = g[i]
  BY <1>1, <1>2, <1>3, ViewsAgree
<1>5. f[Len(s)] = g[Len(s)]
  BY <1>1, <1>4
<1>6. Len(t) \in 0 .. Len(t) /\ Len(t) # 0 /\ Len(t) - 1 = Len(s)
  BY <1>1
<1>7. g[Len(t)] = CanonicalFold(g[Len(t) - 1], t[Len(t)], b)
  BY <1>3, <1>6 DEF PolicyViews
<1> QED
  BY <1>1, <1>2, <1>3, <1>5, <1>6, <1>7 DEF t

LEMMA PolicyStarts ==
  ASSUME NEW b
  PROVE  EffectivePolicy(b, << >>) = EmptyPolicy
<1>1. << >> \in Seq({0}) /\ Len(<< >>) = 0
  OBVIOUS
<1>2. PICK f : PolicyViews(f, b, << >>) /\ EffectivePolicy(b, << >>) = f[Len(<< >>)]
  BY <1>1, PolicyIs
<1>3. 0 \in 0 .. Len(<< >>)
  BY <1>1
<1> QED
  BY <1>1, <1>2, <1>3 DEF PolicyViews

-----------------------------------------------------------------------------
(* What a committed transition says: bound to the baseline if it adds.     *)
ProposalOK(t) ==
    /\ t.baseline \in Baselines /\ t.clause \in ClauseIds
    /\ t.operation = "ADD" => t.prior = BaselineKey(t.baseline)

TargetOK(adopted) ==
    \/ adopted.kind = "acceptance_policy_baseline" /\ adopted.baseline \in Baselines
    \/ adopted.kind = "acceptance_policy_transition" /\ ProposalOK(adopted.transition)

AdoptionOK(a) == TargetOK(a.adopted) /\ a.issue = LineageOf(a.adopted).issue

(* A view of the policy of b.  A clause that is still at the version of    *)
(* the baseline is in force: what removes one is a transition.             *)
ViewOK(v, b) ==
    /\ v = [clean |-> v.clean, active |-> v.active, live |-> v.live,
            version |-> v.version]
    /\ v.live = [id \in ClauseIds |-> v.live[id]]
    /\ v.version = [id \in DOMAIN v.version |-> v.version[id]]
    /\ ~v.active => DOMAIN v.version = {}
    /\ \A id \in DOMAIN v.version :
          v.version[id] = BaselineKey(b) => v.live[id] # NoClause

LEMMA ActivatedOK ==
  ASSUME NEW b \in Baselines, NEW v, ViewOK(v, b)
  PROVE  ViewOK(Activated(v, b), b) /\ Activated(v, b).active
         /\ Activated(v, b).clean = v.clean
         /\ \A id \in DOMAIN Activated(v, b).version :
               Activated(v, b).version[id] = BaselineKey(b)
<1> DEFINE ids == {c.id : c \in b.clauses}
           live == [id \in ClauseIds |->
              IF id \in ids THEN CHOOSE c \in b.clauses : c.id = id ELSE NoClause]
           version == [id \in ids |-> BaselineKey(b)]
<1>1. Activated(v, b) = [clean |-> v.clean, active |-> TRUE, live |-> live,
                         version |-> version]
  <2>1. Activated(v, b) = [v EXCEPT !.active = TRUE, !.live = live, !.version = version]
    BY DEF Activated
  <2> HIDE DEF live, version
  <2>2. v = [clean |-> v.clean, active |-> v.active, live |-> v.live, version |-> v.version]
    BY DEF ViewOK
  <2> QED
    BY <2>1, <2>2
<1>2. ids \subseteq ClauseIds
  BY DEF ClauseIds
<1>3. ASSUME NEW id \in ids PROVE live[id] # NoClause
  <2>1. PICK c \in b.clauses : c.id = id
    OBVIOUS
  <2>2. live[id] \in b.clauses
    BY <1>2, <2>1
  <2> QED
    BY <2>2, ClausesAssumption
<1> HIDE DEF live
<1>4. live = [id \in ClauseIds |-> live[id]]
  BY DEF live
<1>5. version = [id \in DOMAIN version |-> version[id]] /\ DOMAIN version = ids
  OBVIOUS
<1>6. \A id \in DOMAIN version : version[id] = BaselineKey(b)
  OBVIOUS
<1> HIDE DEF version
<1> QED
  BY <1>1, <1>3, <1>4, <1>5, <1>6 DEF ViewOK

(* One fold.                                                               *)
LEMMA FoldedOK ==
  ASSUME NEW b \in Baselines, NEW v, ViewOK(v, b), NEW adopted, TargetOK(adopted)
  PROVE  /\ ViewOK(Folded(v, adopted, b), b)
         /\ Folded(v, adopted, b).clean => v.clean /\ Folds(v, adopted, b)
<1>1. CASE ~v.clean \/ ~Folds(v, adopted, b)
  <2>1. Folded(v, adopted, b) = [v EXCEPT !.clean = FALSE]
    BY <1>1 DEF Folded
  <2>2. Folded(v, adopted, b) = [clean |-> FALSE, active |-> v.active, live |-> v.live,
                                 version |-> v.version]
    BY <2>1 DEF ViewOK
  <2> QED
    BY <2>2 DEF ViewOK
<1>2. CASE v.clean /\ Folds(v, adopted, b) /\ adopted.kind = "acceptance_policy_baseline"
  <2>1. Folded(v, adopted, b) = Activated(v, b)
    BY <1>2 DEF Folded
  <2> QED
    BY <1>2, <2>1, ActivatedOK
<1>3. CASE v.clean /\ Folds(v, adopted, b) /\ adopted.kind # "acceptance_policy_baseline"
  <2> DEFINE t == adopted.transition
             live == [v.live EXCEPT ![t.clause] = t.proposed]
             version == [id \in DOMAIN v.version \cup {t.clause} |->
                           IF id = t.clause THEN adopted ELSE v.version[id]]
  <2>1. Folded(v, adopted, b) = [v EXCEPT !.live[t.clause] = t.proposed, !.version = version]
    BY <1>3 DEF Folded
  <2>2. Folded(v, adopted, b) = [clean |-> v.clean, active |-> v.active, live |-> live,
                                 version |-> version]
    BY <2>1 DEF ViewOK
  <2>3. v.active
    BY <1>3 DEF Folds, TransitionFolds
  <2>4. live = [id \in ClauseIds |-> live[id]]
        /\ \A id \in DOMAIN v.version : id # t.clause => live[id] = v.live[id]
    BY DEF ViewOK
  <2>5. version = [id \in DOMAIN version |-> version[id]]
        /\ DOMAIN version = DOMAIN v.version \cup {t.clause}
        /\ version[t.clause] = adopted
        /\ \A id \in DOMAIN v.version : id # t.clause => version[id] = v.version[id]
    OBVIOUS
  <2>6. adopted # BaselineKey(b)
    BY <1>3 DEF BaselineKey
  <2> HIDE DEF live, version
  <2>7. \A id \in DOMAIN version : version[id] = BaselineKey(b) => live[id] # NoClause
    BY <2>4, <2>5, <2>6 DEF ViewOK
  <2> QED
    BY <1>3, <2>2, <2>3, <2>4, <2>5, <2>7 DEF ViewOK
<1> QED
  BY <1>1, <1>2, <1>3

(* The adopted changes of a clause, and the version in force after them.   *)
ChangesOf(b, id, s) ==
    {j \in DOMAIN s : /\ s[j].adopted.kind = "acceptance_policy_transition"
                      /\ s[j].adopted.transition.baseline = b
                      /\ s[j].adopted.transition.clause = id}

LatestOK(v, b, s) ==
    \A id \in ClauseIds :
       /\ ChangesOf(b, id, s) = {} /\ id \in DOMAIN v.version =>
             v.version[id] = BaselineKey(b)
       /\ \A j \in ChangesOf(b, id, s) :
             (\A k \in ChangesOf(b, id, s) : k <= j) =>
                id \in DOMAIN v.version /\ v.version[id] = s[j].adopted

(* One more adoption.                                                      *)
LEMMA LatestFolds ==
  ASSUME NEW S, NEW s \in Seq(S), NEW a \in S, AdoptionOK(a),
         NEW b \in Baselines, NEW v, ViewOK(v, b),
         v.clean => LatestOK(v, b, s), CanonicalFold(v, a, b).clean
  PROVE  LatestOK(CanonicalFold(v, a, b), b, Append(s, a))
<1> DEFINE n == Len(s) + 1
           t == Append(s, a)
           w == CanonicalFold(v, a, b)
<1>1. /\ Len(s) \in Nat /\ DOMAIN s = 1 .. Len(s) /\ DOMAIN t = 1 .. n /\ t[n] = a
      /\ \A j \in DOMAIN s : t[j] = s[j] /\ j \in DOMAIN t /\ j < n
      /\ \A j \in DOMAIN t : j \in DOMAIN s \/ j = n
  <2>1. /\ Len(s) \in Nat /\ DOMAIN s = 1 .. Len(s) /\ t \in Seq(S) /\ Len(t) = n /\ t[n] = a
        /\ \A j \in 1 .. Len(s) : t[j] = s[j]
    BY AppendProperties
  <2>2. DOMAIN t = 1 .. n
    BY <2>1
  <2> HIDE DEF t
  <2> QED
    BY <2>1, <2>2
<1>2. a.issue # b.issue => ~(/\ a.adopted.kind = "acceptance_policy_transition"
                            /\ a.adopted.transition.baseline = b)
  BY DEF AdoptionOK, LineageOf
<1>3. ASSUME NEW id \in ClauseIds,
             ~(/\ a.adopted.kind = "acceptance_policy_transition"
               /\ a.adopted.transition.baseline = b
               /\ a.adopted.transition.clause = id)
      PROVE  ChangesOf(b, id, t) = ChangesOf(b, id, s)
  <2> HIDE DEF t, n
  <2> QED
    BY <1>1, <1>3 DEF ChangesOf
<1>4. ASSUME NEW id \in ClauseIds PROVE \A j \in ChangesOf(b, id, s) : t[j] = s[j]
  BY <1>1 DEF ChangesOf
<1>5. CASE a.issue # b.issue
  <2>1. w = v
    BY <1>5 DEF CanonicalFold
  <2>2. LatestOK(v, b, s)
    BY <2>1
  <2>3. \A id \in ClauseIds : ChangesOf(b, id, t) = ChangesOf(b, id, s)
    BY <1>2, <1>3, <1>5
  <2> HIDE DEF t, w
  <2>4. LatestOK(w, b, t)
    BY <1>4, <2>1, <2>2, <2>3 DEF LatestOK
  <2> QED
    BY <2>4 DEF t, w
<1>6. CASE a.issue = b.issue
  <2>1. w = Folded(v, a.adopted, b)
    BY <1>6 DEF CanonicalFold
  <2>2. TargetOK(a.adopted)
    BY DEF AdoptionOK
  <2>3. v.clean /\ Folds(v, a.adopted, b) /\ LatestOK(v, b, s)
    BY <2>1, <2>2, FoldedOK
  <2>4. CASE a.adopted.kind = "acceptance_policy_baseline"
    <3>1. w = Activated(v, b) /\ ~v.active
      BY <2>1, <2>3, <2>4 DEF Folded, Folds
    <3>2. \A id \in DOMAIN w.version : w.version[id] = BaselineKey(b)
      BY <3>1, ActivatedOK
    <3>3. DOMAIN v.version = {}
      BY <3>1 DEF ViewOK
    <3>4. \A id \in ClauseIds : ChangesOf(b, id, t) = ChangesOf(b, id, s)
      BY <2>4, <1>3
    <3>5. ASSUME NEW id \in ClauseIds PROVE ChangesOf(b, id, s) = {}
      <4>1. SUFFICES ASSUME ChangesOf(b, id, s) # {} PROVE FALSE
        OBVIOUS
      <4>2. ChangesOf(b, id, s) \in SUBSET (1 .. Len(s))
        BY <1>1 DEF ChangesOf
      <4>3. PICK j \in ChangesOf(b, id, s) : \A k \in ChangesOf(b, id, s) : k <= j
        BY <1>1, <4>1, <4>2, GreatestBelow
      <4> QED
        BY <2>3, <3>3, <4>3 DEF LatestOK
    <3> HIDE DEF t, w
    <3>6. LatestOK(w, b, t)
      BY <3>2, <3>4, <3>5 DEF LatestOK
    <3> QED
      BY <3>6 DEF t, w
  <2>5. CASE a.adopted.kind # "acceptance_policy_baseline"
    <3> DEFINE c == a.adopted.transition.clause
    <3>1. /\ a.adopted.kind = "acceptance_policy_transition"
          /\ a.adopted.transition.baseline = b
      BY <2>3, <2>5 DEF Folds, TransitionFolds
    <3>2. w = [v EXCEPT !.live[c] = a.adopted.transition.proposed,
                        !.version = [id \in DOMAIN v.version \cup {c} |->
                           IF id = c THEN a.adopted ELSE v.version[id]]]
      BY <2>1, <2>3, <2>5 DEF Folded
    <3>3. w.version = [id \in DOMAIN v.version \cup {c} |->
                         IF id = c THEN a.adopted ELSE v.version[id]]
      BY <3>2 DEF ViewOK
    <3>4. /\ DOMAIN w.version = DOMAIN v.version \cup {c} /\ w.version[c] = a.adopted
          /\ \A id \in DOMAIN v.version : id # c => w.version[id] = v.version[id]
      BY <3>3
    <3> HIDE DEF w
    <3>5. n \in ChangesOf(b, c, t)
      <4> HIDE DEF t
      <4> QED
        BY <1>1, <3>1 DEF ChangesOf
    <3>6. \A j \in ChangesOf(b, c, t) : n <= j => j = n
      <4> HIDE DEF t
      <4> QED
        BY <1>1 DEF ChangesOf
    <3>7. \A id \in ClauseIds : id # c => ChangesOf(b, id, t) = ChangesOf(b, id, s)
      BY <1>3
    <3> HIDE DEF t, n
    <3>8. ASSUME NEW id \in ClauseIds
          PROVE  /\ ChangesOf(b, id, t) = {} /\ id \in DOMAIN w.version =>
                       w.version[id] = BaselineKey(b)
                 /\ \A j \in ChangesOf(b, id, t) :
                       (\A k \in ChangesOf(b, id, t) : k <= j) =>
                          id \in DOMAIN w.version /\ w.version[id] = t[j].adopted
      <4>1. CASE id = c
        <5>1. ChangesOf(b, id, t) # {}
          BY <3>5, <4>1
        <5>2. ASSUME NEW j \in ChangesOf(b, id, t), \A k \in ChangesOf(b, id, t) : k <= j
              PROVE  id \in DOMAIN w.version /\ w.version[id] = t[j].adopted
          <6>1. j = n
            BY <3>5, <3>6, <4>1, <5>2
          <6> QED
            BY <1>1, <3>4, <4>1, <6>1
        <5> QED
          BY <5>1, <5>2
      <4>2. CASE id # c
        BY <1>4, <2>3, <3>4, <3>7, <4>2 DEF LatestOK
      <4> QED
        BY <4>1, <4>2
    <3>9. LatestOK(w, b, t)
      BY <3>8 DEF LatestOK
    <3> QED
      BY <3>9 DEF t, w
  <2> QED
    BY <2>4, <2>5
<1> QED
  BY <1>5, <1>6
(* The lineage s: what it promises, and what makes the next adoption keep  *)
(* the promise.                                                            *)
UnpoisonedIn(s) ==
    \A i \in DOMAIN s :
       \E b \in Baselines : b.issue = s[i].issue /\ EffectivePolicy(b, s).clean

ChainedIn(s) ==
    \A i \in DOMAIN s : s[i].adopted.kind = "acceptance_policy_transition" =>
       LET t == s[i].adopted.transition
           before == ChangesOf(t.baseline, t.clause, s) \cap 1 .. (i - 1) IN
       /\ before = {} => t.prior = BaselineKey(t.baseline)
       /\ \A j \in before : (\A k \in before : k <= j) => t.prior = s[j].adopted

NarrowAt(a, before) ==
    a.adopted.kind = "acceptance_policy_transition"
    /\ a.adopted.transition.operation = "NARROW" =>
          NewBlockers(EffectivePolicy(a.adopted.transition.baseline, before),
                      a.adopted.transition) = {}

NarrowIn(s) == \A i \in DOMAIN s : NarrowAt(s[i], SubSeq(s, 1, i - 1))

LineageOK(s) ==
    /\ \E S : s \in Seq(S)
    /\ \A i \in DOMAIN s : AdoptionOK(s[i])
    /\ \A b \in Baselines :
          /\ ViewOK(EffectivePolicy(b, s), b)
          /\ EffectivePolicy(b, s).clean => LatestOK(EffectivePolicy(b, s), b, s)
    /\ UnpoisonedIn(s) /\ ChainedIn(s) /\ NarrowIn(s)

(* What folds on the policy of s is the next version of its clause.        *)
LEMMA FoldsChain ==
  ASSUME NEW b \in Baselines, NEW s, NEW v, ViewOK(v, b), LatestOK(v, b, s),
         NEW t, ProposalOK(t), TransitionFolds(v, t, b)
  PROVE  /\ ChangesOf(b, t.clause, s) = {} => t.prior = BaselineKey(b)
         /\ \A j \in ChangesOf(b, t.clause, s) :
               (\A k \in ChangesOf(b, t.clause, s) : k <= j) => t.prior = s[j].adopted
         /\ t.operation = "NARROW" => NewBlockers(v, t) = {}
<1>1. t.clause \in ClauseIds
  BY DEF ProposalOK
<1>2. ChangesOf(b, t.clause, s) = {} => t.prior = BaselineKey(b)
  BY <1>1 DEF TransitionFolds, LatestOK
<1>3. \A j \in ChangesOf(b, t.clause, s) :
        (\A k \in ChangesOf(b, t.clause, s) : k <= j) => t.prior = s[j].adopted
  BY <1>1 DEF TransitionFolds, LatestOK
<1>4. ASSUME t.operation = "NARROW" PROVE NewBlockers(v, t) = {}
  <2>1. ClassifyOperation(v.live[t.clause], t.proposed) = "NARROW"
    BY <1>4 DEF TransitionFolds
  <2>2. /\ v.live[t.clause] # NoClause /\ t.proposed # NoClause
        /\ t.proposed.blocks \ v.live[t.clause].blocks = {}
    BY <2>1 DEF ClassifyOperation
  <2> QED
    BY <2>2 DEF NewBlockers
<1> QED
  BY <1>2, <1>3, <1>4

(* An adoption that folds keeps the promise.                               *)
LEMMA LineageGrows ==
  ASSUME NEW s, LineageOK(s), NEW a, AdoptionOK(a),
         EffectivePolicy(LineageOf(a.adopted), Append(s, a)).clean
  PROVE  LineageOK(Append(s, a))
<1> DEFINE t == Append(s, a)
           n == Len(s) + 1
           own == LineageOf(a.adopted)
<1>1. PICK S : s \in Seq(S)
  BY DEF LineageOK
<1>2. s \in Seq(S \cup {a}) /\ a \in S \cup {a} /\ t \in Seq(S \cup {a})
  BY <1>1
<1>3. /\ Len(s) \in Nat /\ n \in Nat /\ DOMAIN s = 1 .. Len(s) /\ DOMAIN t = 1 .. n
      /\ Len(t) = n /\ t[n] = a
      /\ \A j \in DOMAIN s : t[j] = s[j] /\ j \in DOMAIN t /\ j < n
      /\ \A j \in DOMAIN t : j \in DOMAIN s \/ j = n
  <2>1. /\ Len(s) \in Nat /\ DOMAIN s = 1 .. Len(s) /\ Len(t) = n /\ t[n] = a
        /\ \A j \in 1 .. Len(s) : t[j] = s[j]
    BY <1>2, AppendProperties
  <2>2. DOMAIN t = 1 .. n
    BY <1>2, <2>1
  <2> HIDE DEF t
  <2> QED
    BY <2>1, <2>2
<1>4. \A b : EffectivePolicy(b, t) = CanonicalFold(EffectivePolicy(b, s), a, b)
  BY <1>2, PolicyAppends
<1>5. own \in Baselines /\ a.issue = own.issue /\ TargetOK(a.adopted)
  BY DEF AdoptionOK, TargetOK, LineageOf, ProposalOK
<1>6. \A b \in Baselines : /\ ViewOK(EffectivePolicy(b, s), b)
                           /\ EffectivePolicy(b, s).clean =>
                                 LatestOK(EffectivePolicy(b, s), b, s)
  BY DEF LineageOK
<1>7. \A b \in Baselines : a.issue # b.issue => EffectivePolicy(b, t) = EffectivePolicy(b, s)
  BY <1>4 DEF CanonicalFold
<1>8. \A b \in Baselines : a.issue = b.issue =>
         EffectivePolicy(b, t) = Folded(EffectivePolicy(b, s), a.adopted, b)
  BY <1>4 DEF CanonicalFold
<1> HIDE DEF own
<1>9. ASSUME NEW b \in Baselines
      PROVE  /\ ViewOK(EffectivePolicy(b, t), b)
             /\ EffectivePolicy(b, t).clean => LatestOK(EffectivePolicy(b, t), b, t)
  <2>1. ViewOK(EffectivePolicy(b, t), b)
    BY <1>5, <1>6, <1>7, <1>8, FoldedOK
  <2>2. ASSUME EffectivePolicy(b, t).clean PROVE LatestOK(EffectivePolicy(b, t), b, t)
    <3>1. CanonicalFold(EffectivePolicy(b, s), a, b).clean
      BY <1>4, <2>2
    <3>2. LatestOK(CanonicalFold(EffectivePolicy(b, s), a, b), b, Append(s, a))
      BY <1>2, <1>6, <3>1, LatestFolds
    <3> QED
      BY <1>4, <3>2
  <2> QED
    BY <2>1, <2>2
<1>10. /\ EffectivePolicy(own, s).clean
       /\ Folds(EffectivePolicy(own, s), a.adopted, own)
       /\ EffectivePolicy(own, t).clean
  <2>1. EffectivePolicy(own, t).clean
    BY DEF own
  <2>2. Folded(EffectivePolicy(own, s), a.adopted, own).clean
    BY <1>5, <1>8, <2>1
  <2> QED
    BY <1>5, <1>6, <2>1, <2>2, FoldedOK
<1>11. \A i \in DOMAIN t : AdoptionOK(t[i])
  <2> HIDE DEF t, n
  <2> QED
    BY <1>3 DEF LineageOK
<1>12. UnpoisonedIn(t)
  <2> SUFFICES ASSUME NEW i \in DOMAIN t
               PROVE  \E b \in Baselines : b.issue = t[i].issue /\ EffectivePolicy(b, t).clean
    BY DEF UnpoisonedIn
  <2>1. CASE t[i].issue = a.issue
    BY <1>5, <1>10, <2>1
  <2>2. CASE t[i].issue # a.issue
    <3> HIDE DEF t, n
    <3>1. i \in DOMAIN s /\ t[i] = s[i]
      BY <1>3, <2>2
    <3>2. PICK b \in Baselines : b.issue = s[i].issue /\ EffectivePolicy(b, s).clean
      BY <3>1 DEF LineageOK, UnpoisonedIn
    <3>3. EffectivePolicy(b, t) = EffectivePolicy(b, s)
      BY <1>7, <2>2, <3>1, <3>2
    <3> QED
      BY <3>1, <3>2, <3>3
  <2> QED
    BY <2>1, <2>2
<1>13. a.adopted.kind = "acceptance_policy_transition" =>
          /\ TransitionFolds(EffectivePolicy(own, s), a.adopted.transition, own)
          /\ a.adopted.transition.baseline = own /\ ProposalOK(a.adopted.transition)
  BY <1>5, <1>10 DEF Folds, TransitionFolds, TargetOK
<1>14. \A b, id : \A i \in DOMAIN t :
         ChangesOf(b, id, t) \cap 1 .. (i - 1) = ChangesOf(b, id, s) \cap 1 .. (i - 1)
  <2> SUFFICES ASSUME NEW b, NEW id, NEW i \in DOMAIN t, NEW j \in 1 .. (i - 1)
               PROVE  j \in ChangesOf(b, id, t) <=> j \in ChangesOf(b, id, s)
    BY Zenon
  <2> HIDE DEF t
  <2>1. j \in DOMAIN s /\ j \in DOMAIN t /\ t[j] = s[j]
    BY <1>3
  <2> HIDE DEF n
  <2> QED
    BY <2>1 DEF ChangesOf
<1>15. \A b, id : ChangesOf(b, id, s) \cap 1 .. (n - 1) = ChangesOf(b, id, s)
                 /\ \A j \in ChangesOf(b, id, s) : j \in DOMAIN s
  BY <1>3 DEF ChangesOf
<1>16. ChainedIn(t)
  <2> SUFFICES ASSUME NEW i \in DOMAIN t, t[i].adopted.kind = "acceptance_policy_transition"
               PROVE  LET c == t[i].adopted.transition
                          before == ChangesOf(c.baseline, c.clause, t) \cap 1 .. (i - 1) IN
                      /\ before = {} => c.prior = BaselineKey(c.baseline)
                      /\ \A j \in before : (\A k \in before : k <= j) => c.prior = t[j].adopted
    BY DEF ChainedIn
  <2> DEFINE c == t[i].adopted.transition
             before == ChangesOf(c.baseline, c.clause, s) \cap 1 .. (i - 1)
  <2>1. ChangesOf(c.baseline, c.clause, t) \cap 1 .. (i - 1) = before
    BY <1>14
  <2>2. \A j \in before : t[j] = s[j]
    BY <1>3, <1>15
  <2>3. /\ before = {} => c.prior = BaselineKey(c.baseline)
        /\ \A j \in before : (\A k \in before : k <= j) => c.prior = s[j].adopted
    <3>1. CASE i \in DOMAIN s
      <4>1. t[i] = s[i]
        BY <1>3, <3>1
      <4> HIDE DEF t
      <4> QED
        BY <3>1, <4>1 DEF LineageOK, ChainedIn
    <3>2. CASE i = n
      <4>1. c = a.adopted.transition /\ c.baseline = own /\ ProposalOK(c)
            /\ TransitionFolds(EffectivePolicy(own, s), c, own)
        BY <1>3, <1>13, <3>2
      <4>2. before = ChangesOf(own, c.clause, s)
        BY <1>15, <3>2, <4>1
      <4>3. LatestOK(EffectivePolicy(own, s), own, s) /\ ViewOK(EffectivePolicy(own, s), own)
        BY <1>5, <1>6, <1>10
      <4> HIDE DEF c, before
      <4>4. /\ ChangesOf(own, c.clause, s) = {} => c.prior = BaselineKey(own)
            /\ \A j \in ChangesOf(own, c.clause, s) :
                  (\A k \in ChangesOf(own, c.clause, s) : k <= j) => c.prior = s[j].adopted
        BY <1>5, <4>1, <4>3, FoldsChain
      <4> QED
        BY <4>1, <4>2, <4>4
    <3> QED
      BY <1>3, <3>1, <3>2
  <2> HIDE DEF t, before
  <2> QED
    BY <2>1, <2>2, <2>3
<1>17. NarrowIn(t)
  <2> HIDE DEF t
  <2> SUFFICES ASSUME NEW i \in DOMAIN t PROVE NarrowAt(t[i], SubSeq(t, 1, i - 1))
    BY DEF NarrowIn
  <2>1. SubSeq(t, 1, i - 1) = SubSeq(s, 1, i - 1)
    <3>1. \A j \in 1 .. (i - 1) : t[j] = s[j]
      BY <1>3
    <3>2. SubSeq(t, 1, i - 1) = [j \in 1 .. (i - 1) |-> t[j]]
          /\ SubSeq(s, 1, i - 1) = [j \in 1 .. (i - 1) |-> s[j]]
      <4>1. i \in 1 .. n
        BY <1>3
      <4> QED
        BY <1>2, <1>3, <4>1
    <3> QED
      BY <3>1, <3>2
  <2>2. CASE i \in DOMAIN s
    <3>1. t[i] = s[i]
      BY <1>3, <2>2
    <3> QED
      BY <2>1, <2>2, <3>1 DEF LineageOK, NarrowIn
  <2>3. CASE i = n
    <3>1. t[i] = a /\ i - 1 = Len(s)
      BY <1>3, <2>3
    <3>2. SubSeq(s, 1, Len(s)) = s
      BY <1>1
    <3>3. LatestOK(EffectivePolicy(own, s), own, s) /\ ViewOK(EffectivePolicy(own, s), own)
      BY <1>5, <1>6, <1>10
    <3>4. a.adopted.kind = "acceptance_policy_transition"
          /\ a.adopted.transition.operation = "NARROW" =>
             NewBlockers(EffectivePolicy(own, s), a.adopted.transition) = {}
      <4> DEFINE w == EffectivePolicy(own, s)
                 c == a.adopted.transition
      <4>1. a.adopted.kind = "acceptance_policy_transition" =>
              TransitionFolds(w, c, own) /\ ProposalOK(c)
        BY <1>13
      <4>2. ViewOK(w, own) /\ LatestOK(w, own, s)
        BY <3>3
      <4> HIDE DEF w, c
      <4>3. a.adopted.kind = "acceptance_policy_transition" /\ c.operation = "NARROW" =>
              NewBlockers(w, c) = {}
        BY <1>5, <4>1, <4>2, FoldsChain
      <4> QED
        BY <4>3 DEF w, c
    <3>5. NarrowAt(a, s)
      BY <1>13, <3>4 DEF NarrowAt
    <3> QED
      BY <2>1, <3>1, <3>2, <3>5
  <2> QED
    BY <1>3, <2>2, <2>3
<1> QED
  BY <1>2, <1>9, <1>11, <1>12, <1>16, <1>17 DEF LineageOK
SourceKinds == {"acceptance_policy_baseline", "acceptance_policy_transition"}

(* Baselines, their changes and their adoptions; any other writer commits  *)
(* States and records of other kinds.                                      *)
PolicyOthers ==
    /\ \/ \E c \in Contents : Transition(c)
       \/ \E new : (\A n \in new : n.key.kind \notin SourceKinds) /\ CommitRecords(new)
    /\ UNCHANGED policyVars

lineageVars == <<storeVars, policyVars>>

PolicySpec ==
    /\ StoreInit /\ PolicyInit
    /\ [][PolicyNext \/ PolicyOthers]_lineageVars

PolicyRecordsOK == \A r \in records : r.key.kind \in SourceKinds => TargetOK(r.key)

(* A call that is about to commit an adoption on the State it loaded has   *)
(* seen the lineage fold with it, and that lineage is still the one.       *)
ParticipantOK(held) ==
    /\ held.pc \in {"idle", "proposed", "adopting"}
    /\ held.pc = "proposed" => ProposalOK(held.transition)
    /\ held.pc = "adopting" =>
          /\ AdoptionOK(held.adoption)
          /\ held.base.revision \in Nat /\ held.base.revision <= Revision
          /\ held.base.revision = Revision => FoldsCleanly(held.adoption)

ParticipantsOK ==
    /\ participant = [p \in Participants |-> participant[p]]
    /\ \A p \in Participants : ParticipantOK(participant[p])

PolicyInv == HistoryOK /\ PolicyRecordsOK /\ LineageOK(lineage) /\ ParticipantsOK

(* A commit is a new revision.                                             *)
LEMMA CommitCounts ==
  ASSUME HistoryOK, NEW new, CommitRecords(new)
  PROVE  Revision \in Nat /\ Revision' = Revision + 1
BY DEF HistoryOK, CommitRecords, Revision

LEMMA TransitionCounts ==
  ASSUME HistoryOK, NEW c \in Contents, Transition(c)
  PROVE  Revision \in Nat /\ Revision' = Revision + 1
BY DEF HistoryOK, Transition, Revision

(* What a call holds stays so while the lineage does, or the State moves.  *)
LEMMA HeldStays ==
  ASSUME NEW held, ParticipantOK(held), Revision \in Nat, Revision' \in Nat,
         Revision' > Revision \/ (Revision' = Revision /\ UNCHANGED lineage)
  PROVE  ParticipantOK(held)'
<1>1. UNCHANGED lineage => (FoldsCleanly(held.adoption)' <=> FoldsCleanly(held.adoption))
  BY DEF FoldsCleanly
<1>2. ParticipantOK(held)' <=>
        /\ held.pc \in {"idle", "proposed", "adopting"}
        /\ held.pc = "proposed" => ProposalOK(held.transition)
        /\ held.pc = "adopting" =>
              /\ AdoptionOK(held.adoption)
              /\ held.base.revision \in Nat /\ held.base.revision <= Revision'
              /\ held.base.revision = Revision' => FoldsCleanly(held.adoption)'
  BY DEF ParticipantOK
<1> QED
  BY <1>1, <1>2 DEF ParticipantOK

(* A step in which one participant moves on.                               *)
LEMMA ParticipantMoves ==
  ASSUME ParticipantsOK, Revision \in Nat, Revision' \in Nat,
         Revision' > Revision \/ (Revision' = Revision /\ UNCHANGED lineage),
         NEW p \in Participants, NEW held,
         participant' = [participant EXCEPT ![p] = held], ParticipantOK(held)'
  PROVE  ParticipantsOK'
<1>1. participant' = [q \in Participants |-> IF q = p THEN held ELSE participant[q]]
  BY DEF ParticipantsOK
<1>2. ASSUME NEW q \in Participants PROVE ParticipantOK(participant[q])'
  <2>1. PICK was : was = participant[q]
    OBVIOUS
  <2>2. ParticipantOK(was)
    BY <2>1 DEF ParticipantsOK
  <2>3. ParticipantOK(was)'
    BY <2>2, HeldStays
  <2>4. PICK now : now = participant'[q]
    OBVIOUS
  <2>5. now = held \/ now = was
    BY <1>1, <2>1, <2>4
  <2>6. ParticipantOK(now)'
    BY <2>3, <2>5
  <2> QED
    BY <2>4, <2>6 DEF ParticipantOK, FoldsCleanly
<1>3. participant' = [q \in Participants |-> participant'[q]]
  BY <1>1
<1> QED
  BY <1>2, <1>3 DEF ParticipantsOK
LEMMA ParticipantsStay ==
  ASSUME ParticipantsOK, Revision \in Nat, Revision' \in Nat,
         Revision' > Revision \/ (Revision' = Revision /\ UNCHANGED lineage),
         UNCHANGED participant
  PROVE  ParticipantsOK'
<1>1. ASSUME NEW q \in Participants PROVE ParticipantOK(participant[q])'
  <2>1. PICK was : was = participant[q]
    OBVIOUS
  <2>2. ParticipantOK(was)
    BY <2>1 DEF ParticipantsOK
  <2>3. ParticipantOK(was)'
    BY <2>2, HeldStays
  <2>4. was = participant'[q]
    BY <2>1
  <2> QED
    BY <2>3, <2>4 DEF ParticipantOK, FoldsCleanly
<1> QED
  BY <1>1 DEF ParticipantsOK

LEMMA RestOK == ParticipantOK(AtRest)'
BY DEF ParticipantOK, AtRest

(* Records that are no source of the policy, or sound ones.                *)
LEMMA PolicyRecordsCommit ==
  ASSUME HistoryOK, PolicyRecordsOK, NEW new, CommitRecords(new),
         \A r \in new : r.key.kind \in SourceKinds => TargetOK(r.key)
  PROVE  HistoryOK' /\ PolicyRecordsOK'
<1>1. HistoryOK' /\ \A r \in records' : r \in records \/ r \in new
  BY CommitGrows DEF StoreGrows
<1>2. \A r \in records' : r.key.kind \in SourceKinds => TargetOK(r.key)
  BY <1>1 DEF PolicyRecordsOK
<1> QED
  BY <1>1, <1>2 DEF PolicyRecordsOK

LEMMA StoreStaysOK ==
  ASSUME HistoryOK, PolicyRecordsOK, UNCHANGED storeVars
  PROVE  /\ HistoryOK' /\ PolicyRecordsOK'
         /\ Revision \in Nat /\ Revision' = Revision
<1>1. \A r \in records : r.key.kind \in SourceKinds => TargetOK(r.key)
  BY DEF PolicyRecordsOK
<1>2. UNCHANGED <<history, records>>
  BY DEF storeVars
<1> QED
  BY <1>1, <1>2 DEF HistoryOK, PolicyRecordsOK, Revision

LEMMA LineageStays ==
  ASSUME LineageOK(lineage), UNCHANGED lineage
  PROVE  LineageOK(lineage)'
<1>1. PICK s : s = lineage
  OBVIOUS
<1>2. LineageOK(s) /\ s = lineage'
  BY <1>1
<1> QED
  BY <1>2

LEMMA OpenBaselineKeeps ==
  ASSUME PolicyInv, NEW b \in Baselines, OpenBaseline(b)
  PROVE  PolicyInv'
<1> DEFINE new == {Record(BaselineKey(b), b)}
<1>1. CommitRecords(new) /\ UNCHANGED <<lineage, participant>>
  BY DEF OpenBaseline, policyVars
<1>2. \A r \in new : r.key.kind \in SourceKinds => TargetOK(r.key)
  BY DEF Record, BaselineKey, TargetOK
<1> HIDE DEF new
<1>3. HistoryOK' /\ PolicyRecordsOK' /\ Revision \in Nat /\ Revision' = Revision + 1
  BY <1>1, <1>2, PolicyRecordsCommit, CommitCounts DEF PolicyInv
<1>4. LineageOK(lineage)' /\ ParticipantsOK'
  BY <1>1, <1>3, LineageStays, ParticipantsStay DEF PolicyInv
<1> QED
  BY <1>3, <1>4 DEF PolicyInv

(* What is proposed adds a clause only where the baseline is named.        *)
LEMMA ProposedOK ==
  ASSUME NEW b \in Baselines, NEW id \in ClauseIds, NEW proposed, NEW v
  PROVE  ProposalOK(TransitionOf(b, v, id, proposed))
<1> DEFINE t == TransitionOf(b, v, id, proposed)
<1>1. /\ t.baseline = b /\ t.clause = id /\ t.prior = ExpectedPrior(v, b, id)
      /\ t.operation = ClassifyOperation(v.live[id], proposed)
  BY DEF TransitionOf
<1>2. t.operation = "ADD" => v.live[id] = NoClause
  BY <1>1 DEF ClassifyOperation
<1> HIDE DEF t
<1>3. t.operation = "ADD" => t.prior = BaselineKey(b)
  BY <1>1, <1>2 DEF ExpectedPrior
<1>4. ProposalOK(t)
  BY <1>1, <1>3 DEF ProposalOK
<1> QED
  BY <1>4 DEF t

LEMMA ProposeKeeps ==
  ASSUME PolicyInv, NEW p \in Participants, Propose(p)
  PROVE  PolicyInv'
<1>1. PICK b \in Baselines, id \in ClauseIds, proposed \in Clauses \cup {NoClause} :
        \E v : participant' = [participant EXCEPT ![p] =
           [pc |-> "proposed", view |-> v, transition |-> TransitionOf(b, v, id, proposed)]]
  BY DEF Propose
<1>2. UNCHANGED lineage /\ UNCHANGED storeVars
  BY DEF Propose
<1> PICK v : participant' = [participant EXCEPT ![p] =
           [pc |-> "proposed", view |-> v, transition |-> TransitionOf(b, v, id, proposed)]]
  BY <1>1
<1>3. PICK held : held =
        [pc |-> "proposed", view |-> v, transition |-> TransitionOf(b, v, id, proposed)]
  OBVIOUS
<1>4. ParticipantOK(held)'
  BY <1>3, ProposedOK DEF ParticipantOK
<1>5. /\ HistoryOK' /\ PolicyRecordsOK' /\ Revision \in Nat /\ Revision' = Revision
  BY <1>2, StoreStaysOK DEF PolicyInv
<1>6. ParticipantsOK'
  BY <1>1, <1>2, <1>3, <1>4, <1>5, ParticipantMoves DEF PolicyInv
<1> QED
  BY <1>2, <1>5, <1>6, LineageStays DEF PolicyInv

LEMMA CommitProposalKeeps ==
  ASSUME PolicyInv, NEW p \in Participants, CommitProposal(p)
  PROVE  PolicyInv'
<1>1. PICK t : t = participant[p].transition
  OBVIOUS
<1>2. ProposalOK(t)
  BY <1>1 DEF CommitProposal, PolicyInv, ParticipantsOK, ParticipantOK
<1>3. /\ UNCHANGED storeVars \/ CommitRecords({Record(TransitionKey(t), t)})
      /\ participant' = [participant EXCEPT ![p] = AtRest] /\ UNCHANGED lineage
  BY <1>1 DEF CommitProposal
<1>4. \A r \in {Record(TransitionKey(t), t)} : r.key.kind \in SourceKinds => TargetOK(r.key)
  BY <1>2 DEF Record, TransitionKey, TargetOK
<1>5. /\ HistoryOK' /\ PolicyRecordsOK' /\ Revision \in Nat /\ Revision' \in Nat
      /\ Revision' > Revision \/ Revision' = Revision
  <2>1. CASE UNCHANGED storeVars
    BY <2>1, StoreStaysOK DEF PolicyInv
  <2>2. CASE CommitRecords({Record(TransitionKey(t), t)})
    BY <1>4, <2>2, PolicyRecordsCommit, CommitCounts DEF PolicyInv
  <2> QED
    BY <1>3, <2>1, <2>2
<1>6. ParticipantsOK'
  BY <1>3, <1>5, RestOK, ParticipantMoves DEF PolicyInv
<1> QED
  BY <1>3, <1>5, <1>6, LineageStays DEF PolicyInv

(* A round of an adoption: on the State of now, a lineage that folds.      *)
LEMMA AdoptsKeeps ==
  ASSUME PolicyInv, NEW p \in Participants, NEW a, NEW retries, AdoptionOK(a),
         Simulated(a), Adopts(p, a, retries), UNCHANGED lineage, UNCHANGED storeVars
  PROVE  PolicyInv'
<1>1. PICK held : held =
        [pc |-> "adopting", adoption |-> a, base |-> Snapshot, retries |-> retries]
  OBVIOUS
<1>2. participant' = [participant EXCEPT ![p] = held]
  BY <1>1 DEF Adopts
<1>3. /\ HistoryOK' /\ PolicyRecordsOK' /\ Revision \in Nat /\ Revision' = Revision
  BY StoreStaysOK DEF PolicyInv
<1>4. held.base.revision = Revision /\ held.pc = "adopting" /\ held.adoption = a
  BY <1>1 DEF Snapshot
<1>5. FoldsCleanly(a)'
  BY DEF Simulated, FoldsCleanly
<1>6. FoldsCleanly(held.adoption)'
  BY <1>4, <1>5
<1>7. ParticipantOK(held)'
  BY <1>3, <1>4, <1>6 DEF ParticipantOK
<1>8. ParticipantsOK'
  BY <1>2, <1>3, <1>7, ParticipantMoves DEF PolicyInv
<1> QED
  BY <1>3, <1>8, LineageStays DEF PolicyInv

LEMMA BeginAdoptionKeeps ==
  ASSUME PolicyInv, NEW p \in Participants, BeginAdoption(p)
  PROVE  PolicyInv'
<1>1. PICK adopted \in Targets(records), s \in Signatures :
        LET a == AdoptionOf(LineageOf(adopted).issue, adopted, s) IN
        Simulated(a) /\ Adopts(p, a, PolicyRetries)
  BY DEF BeginAdoption
<1>2. PICK a : a = AdoptionOf(LineageOf(adopted).issue, adopted, s)
  OBVIOUS
<1>3. PICK r \in records : r.key = adopted /\ r.key.kind \in SourceKinds
  BY DEF Targets, SourceKinds
<1>4. TargetOK(adopted)
  BY <1>3 DEF PolicyInv, PolicyRecordsOK
<1>5. AdoptionOK(a)
  BY <1>2, <1>4 DEF AdoptionOf, AdoptionOK
<1>6. Simulated(a) /\ Adopts(p, a, PolicyRetries)
  BY <1>1, <1>2
<1> QED
  BY <1>5, <1>6, AdoptsKeeps DEF BeginAdoption

LEMMA SwapAdoptionKeeps ==
  ASSUME PolicyInv, NEW p \in Participants, SwapAdoption(p)
  PROVE  PolicyInv'
<1>1. PICK held : held = participant[p]
  OBVIOUS
<1>2. PICK a : a = held.adoption
  OBVIOUS
<1>3. AdoptionOK(a) /\ FoldsCleanly(held.adoption)
  BY <1>1, <1>2 DEF SwapAdoption, PolicyInv, ParticipantsOK, ParticipantOK
<1>4. /\ CommitRecords({Record(AdoptionKey(a), a)}) /\ lineage' = Append(lineage, a)
      /\ participant' = [participant EXCEPT ![p] = AtRest]
  BY <1>1, <1>2 DEF SwapAdoption
<1>5. PICK s : s = lineage
  OBVIOUS
<1>6. EffectivePolicy(LineageOf(a.adopted), Append(s, a)).clean /\ LineageOK(s)
  BY <1>2, <1>3, <1>5 DEF FoldsCleanly, PolicyInv
<1>7. LineageOK(Append(s, a))
  BY <1>3, <1>6, LineageGrows
<1>8. LineageOK(lineage)'
  <2>1. PICK t : t = lineage'
    OBVIOUS
  <2>2. t = Append(s, a)
    BY <1>4, <1>5, <2>1
  <2>3. LineageOK(t)
    BY <1>7, <2>2
  <2> QED
    BY <2>1, <2>3
<1>9. \A r \in {Record(AdoptionKey(a), a)} : r.key.kind \in SourceKinds => TargetOK(r.key)
  BY DEF Record, AdoptionKey, SourceKinds
<1>10. HistoryOK' /\ PolicyRecordsOK' /\ Revision \in Nat /\ Revision' = Revision + 1
  BY <1>4, <1>9, PolicyRecordsCommit, CommitCounts DEF PolicyInv
<1>11. ParticipantsOK'
  <2>1. Revision \in Nat /\ Revision' \in Nat /\ Revision' > Revision
    BY <1>10
  <2>2. ParticipantsOK /\ participant' = [participant EXCEPT ![p] = AtRest]
    BY <1>4 DEF PolicyInv
  <2> QED
    BY <2>1, <2>2, RestOK, ParticipantMoves
<1> QED
  BY <1>8, <1>10, <1>11 DEF PolicyInv

LEMMA RetryAdoptionKeeps ==
  ASSUME PolicyInv, NEW p \in Participants, RetryAdoption(p)
  PROVE  PolicyInv'
<1>1. PICK held : held = participant[p]
  OBVIOUS
<1>2. PICK a : a = held.adoption
  OBVIOUS
<1>3. AdoptionOK(a) /\ UNCHANGED lineage /\ UNCHANGED storeVars
  BY <1>1, <1>2 DEF RetryAdoption, StaleAdoption, PolicyInv, ParticipantsOK, ParticipantOK
<1>4. CASE Simulated(a) /\ Adopts(p, a, held.retries - 1)
  <2>1. PICK retries : Adopts(p, a, retries)
    BY <1>4
  <2> QED
    BY <1>3, <1>4, <2>1, AdoptsKeeps
<1>5. CASE participant' = [participant EXCEPT ![p] = AtRest]
  <2>1. /\ HistoryOK' /\ PolicyRecordsOK' /\ Revision \in Nat /\ Revision' = Revision
    BY <1>3, StoreStaysOK DEF PolicyInv
  <2>2. ParticipantsOK'
    BY <1>3, <1>5, <2>1, RestOK, ParticipantMoves DEF PolicyInv
  <2> QED
    BY <1>3, <2>1, <2>2, LineageStays DEF PolicyInv
<1> QED
  BY <1>1, <1>2, <1>4, <1>5 DEF RetryAdoption

LEMMA PolicyOthersKeep ==
  ASSUME PolicyInv, PolicyOthers
  PROVE  PolicyInv'
<1>1. UNCHANGED <<lineage, participant>>
  BY DEF PolicyOthers, policyVars
<1>2. HistoryOK' /\ PolicyRecordsOK' /\ Revision \in Nat /\ Revision' = Revision + 1
  <2>1. ASSUME NEW c \in Contents, Transition(c)
        PROVE  HistoryOK' /\ PolicyRecordsOK' /\ Revision \in Nat /\ Revision' = Revision + 1
    <3>1. HistoryOK' /\ records' = records
      BY <2>1, TransitionGrows DEF PolicyInv, StoreGrows
    <3>2. \A r \in records : r.key.kind \in SourceKinds => TargetOK(r.key)
      BY DEF PolicyInv, PolicyRecordsOK
    <3>3. PolicyRecordsOK'
      BY <3>1, <3>2 DEF PolicyRecordsOK
    <3> QED
      BY <2>1, <3>1, <3>3, TransitionCounts DEF PolicyInv
  <2>2. ASSUME NEW new, \A n \in new : n.key.kind \notin SourceKinds, CommitRecords(new)
        PROVE  HistoryOK' /\ PolicyRecordsOK' /\ Revision \in Nat /\ Revision' = Revision + 1
    BY <2>2, PolicyRecordsCommit, CommitCounts DEF PolicyInv
  <2> QED
    BY <2>1, <2>2 DEF PolicyOthers
<1>3. LineageOK(lineage)' /\ ParticipantsOK'
  BY <1>1, <1>2, LineageStays, ParticipantsStay DEF PolicyInv
<1> QED
  BY <1>2, <1>3 DEF PolicyInv

LEMMA PolicySteps == PolicyInv /\ [PolicyNext \/ PolicyOthers]_lineageVars => PolicyInv'
<1> SUFFICES ASSUME PolicyInv, [PolicyNext \/ PolicyOthers]_lineageVars PROVE PolicyInv'
  OBVIOUS
<1>1. CASE \E b \in Baselines : OpenBaseline(b)
  BY <1>1, OpenBaselineKeeps
<1>2. ASSUME NEW p \in Participants,
             \/ Propose(p) \/ CommitProposal(p)
             \/ BeginAdoption(p) \/ SwapAdoption(p) \/ RetryAdoption(p)
      PROVE  PolicyInv'
  BY <1>2, ProposeKeeps, CommitProposalKeeps, BeginAdoptionKeeps, SwapAdoptionKeeps,
     RetryAdoptionKeeps
<1>3. CASE PolicyOthers
  BY <1>3, PolicyOthersKeep
<1>4. CASE UNCHANGED lineageVars
  <2>1. UNCHANGED storeVars /\ UNCHANGED lineage /\ UNCHANGED participant
    BY <1>4 DEF lineageVars, policyVars
  <2>2. /\ HistoryOK' /\ PolicyRecordsOK' /\ Revision \in Nat /\ Revision' = Revision
    BY <2>1, StoreStaysOK DEF PolicyInv
  <2> QED
    BY <2>1, <2>2, LineageStays, ParticipantsStay DEF PolicyInv
<1> QED
  BY <1>1, <1>2, <1>3, <1>4 DEF PolicyNext

LEMMA PolicyStart == StoreInit /\ PolicyInit => PolicyInv
<1> SUFFICES ASSUME StoreInit, PolicyInit PROVE PolicyInv
  OBVIOUS
<1>1. HistoryOK /\ PolicyRecordsOK
  BY DEF StoreInit, HistoryOK, PolicyRecordsOK
<1>2. lineage = << >> /\ participant = [p \in Participants |-> AtRest]
  BY DEF PolicyInit
<1>3. ParticipantsOK
  BY <1>2 DEF ParticipantsOK, ParticipantOK, AtRest
<1>4. LineageOK(<< >>)
  <2>1. << >> \in Seq({0}) /\ DOMAIN << >> = {}
    OBVIOUS
  <2>2. ASSUME NEW b \in Baselines
        PROVE  ViewOK(EffectivePolicy(b, << >>), b) /\ LatestOK(EffectivePolicy(b, << >>), b, << >>)
    <3>1. EffectivePolicy(b, << >>) = EmptyPolicy
      BY PolicyStarts
    <3>2. ViewOK(EmptyPolicy, b) /\ DOMAIN EmptyPolicy.version = {}
      BY DEF EmptyPolicy, ViewOK
    <3>3. \A id : ChangesOf(b, id, << >>) = {}
      BY <2>1 DEF ChangesOf
    <3> QED
      BY <3>1, <3>2, <3>3 DEF LatestOK
  <2> QED
    BY <2>1, <2>2 DEF LineageOK, UnpoisonedIn, ChainedIn, NarrowIn
<1> QED
  BY <1>1, <1>2, <1>3, <1>4 DEF PolicyInv

(* A committed change that folds now is one a preview accepts.             *)
LEMMA FoldsPreview ==
  ASSUME NEW t, ProposalOK(t), NEW v, ViewOK(v, t.baseline), v.clean,
         TransitionFolds(v, t, t.baseline)
  PROVE  Previewed(v, t)
<1>1. /\ RealChange(v.live[t.clause], t.proposed)
      /\ ClassifyOperation(v.live[t.clause], t.proposed) = t.operation
  BY DEF TransitionFolds
<1>2. t.prior = ExpectedPrior(v, t.baseline, t.clause)
  <2>1. CASE t.clause \notin DOMAIN v.version
    <3>1. t.prior = BaselineKey(t.baseline) /\ t.operation = "ADD"
      BY <2>1 DEF TransitionFolds
    <3>2. v.live[t.clause] = NoClause
      BY <1>1, <3>1 DEF ClassifyOperation
    <3> QED
      BY <3>1, <3>2 DEF ExpectedPrior
  <2>2. CASE t.clause \in DOMAIN v.version
    <3>1. t.prior = v.version[t.clause]
          /\ (t.operation = "ADD") = (v.live[t.clause] = NoClause)
      BY <2>2 DEF TransitionFolds
    <3>2. v.live[t.clause] # NoClause
      BY <2>2, <3>1 DEF ProposalOK, ViewOK
    <3> QED
      BY <3>1, <3>2 DEF ExpectedPrior
  <2> QED
    BY <2>1, <2>2
<1> QED
  BY <1>1, <1>2 DEF Previewed

LEMMA PolicyInvSound == PolicyInv => PolicySound
<1> SUFFICES ASSUME PolicyInv PROVE PolicySound
  OBVIOUS
<1>1. PICK s : s = lineage
  OBVIOUS
<1>2. LineageOK(s)
  BY <1>1 DEF PolicyInv
<1>3. LineageUnpoisoned
  BY <1>1, <1>2 DEF LineageOK, UnpoisonedIn, LineageUnpoisoned
<1>4. NarrowingNeverBlocks
  BY <1>1, <1>2 DEF LineageOK, NarrowIn, NarrowAt, NarrowingNeverBlocks
<1>5. VersionsChained
  <2> SUFFICES ASSUME NEW i \in DOMAIN s, s[i].adopted.kind = "acceptance_policy_transition"
               PROVE  LET t == s[i].adopted.transition
                          before == {j \in 1..(i - 1) :
                             /\ s[j].adopted.kind = "acceptance_policy_transition"
                             /\ s[j].adopted.transition.baseline = t.baseline
                             /\ s[j].adopted.transition.clause = t.clause} IN
                      t.prior = IF before = {} THEN BaselineKey(t.baseline)
                                ELSE s[CHOOSE j \in before : \A k \in before : k <= j].adopted
    BY <1>1 DEF VersionsChained
  <2> DEFINE t == s[i].adopted.transition
             before == {j \in 1..(i - 1) :
                /\ s[j].adopted.kind = "acceptance_policy_transition"
                /\ s[j].adopted.transition.baseline = t.baseline
                /\ s[j].adopted.transition.clause = t.clause}
             last == CHOOSE j \in before : \A k \in before : k <= j
  <2>1. i \in Nat \ {0} /\ \A j \in 1 .. (i - 1) : j \in DOMAIN s
    <3>1. PICK S : s \in Seq(S)
      BY <1>2 DEF LineageOK
    <3>2. Len(s) \in Nat /\ DOMAIN s = 1 .. Len(s)
      BY <3>1
    <3> QED
      BY <3>2
  <2>2. before = ChangesOf(t.baseline, t.clause, s) \cap 1 .. (i - 1)
    BY <2>1 DEF ChangesOf
  <2>3. /\ before = {} => t.prior = BaselineKey(t.baseline)
        /\ \A j \in before : (\A k \in before : k <= j) => t.prior = s[j].adopted
    BY <1>2, <2>2 DEF LineageOK, ChainedIn
  <2>4. ASSUME before # {} PROVE last \in before /\ \A k \in before : k <= last
    <3>1. before \in SUBSET (1 .. (i - 1)) /\ i - 1 \in Nat
      BY <2>1
    <3> HIDE DEF before
    <3>2. PICK j \in before : \A k \in before : k <= j
      BY <2>4, <3>1, GreatestBelow
    <3> QED
      BY <3>2
  <2> HIDE DEF before, last, t
  <2>5. t.prior = IF before = {} THEN BaselineKey(t.baseline) ELSE s[last].adopted
    BY <2>3, <2>4
  <2> QED
    BY <2>5 DEF before, last, t
<1>6. AdoptableIsPreviewed
  <2> SUFFICES ASSUME NEW target \in Targets(records),
                      target.kind = "acceptance_policy_transition",
                      EffectivePolicy(target.transition.baseline, lineage).clean,
                      TransitionFolds(EffectivePolicy(target.transition.baseline, lineage),
                                      target.transition, target.transition.baseline)
               PROVE  Previewed(EffectivePolicy(target.transition.baseline, lineage),
                                target.transition)
    BY DEF AdoptableIsPreviewed
  <2>1. PICK r \in records : r.key = target /\ r.key.kind \in SourceKinds
    BY DEF Targets, SourceKinds
  <2>2. ProposalOK(target.transition)
    BY <2>1 DEF PolicyInv, PolicyRecordsOK, TargetOK
  <2>3. PICK t : t = target.transition
    OBVIOUS
  <2>4. PICK v : v = EffectivePolicy(t.baseline, s)
    OBVIOUS
  <2>5. ViewOK(v, t.baseline)
    BY <1>2, <2>2, <2>3, <2>4 DEF LineageOK, ProposalOK
  <2>6. v.clean /\ TransitionFolds(v, t, t.baseline)
    BY <1>1, <2>3, <2>4
  <2>7. Previewed(v, t)
    BY <2>2, <2>3, <2>5, <2>6, FoldsPreview
  <2> QED
    BY <1>1, <2>3, <2>4, <2>7
<1> QED
  BY <1>3, <1>4, <1>5, <1>6 DEF PolicySound

(* The adopted changes of a work unit's policy fold, each on the version   *)
(* it names; a narrowing adds no gate; what folds is shown in a preview.   *)
THEOREM PolicyHolds == PolicySpec => []PolicySound
<1>1. StoreInit /\ PolicyInit => PolicyInv
  BY PolicyStart
<1>2. PolicyInv /\ [PolicyNext \/ PolicyOthers]_lineageVars => PolicyInv'
  BY PolicySteps
<1>3. PolicyInv => PolicySound
  BY PolicyInvSound
<1> QED
  BY <1>1, <1>2, <1>3, PTL DEF PolicySpec
=============================================================================
