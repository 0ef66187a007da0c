--------------------------- MODULE MultiAgentPlan ---------------------------
(***************************************************************************)
(* multi_agent: one dynamic execution plan, the calls that execute its     *)
(* slots, and the hand-off of what they agreed on to Evidence.             *)
(*                                                                         *)
(* A call settles the slots in order.  Each attempt runs the model         *)
(* adapter on a thread of its own; the coordinator waits for it with a     *)
(* timeout, and an in-process gate decides which of the two, the timeout   *)
(* or the thread's commit of envelope and claim, is the attempt's outcome. *)
(* The output and the release receipt are committed under keys that do not *)
(* depend on the outcome, so that a call made again finds them, or finds   *)
(* the claim of an attempt whose output was never committed.  A process    *)
(* may die at any point with its threads, and another process may execute  *)
(* the same plan at the same time.                                         *)
(***************************************************************************)
EXTENDS ModelRuntime

CONSTANTS
    Risk,           \* the Difference's risk level
    MaxCalls        \* bound: calls of execute_dynamic_execution_plan

ASSUME RiskAssumption == Risk \in {"LOW", "MODERATE", "HIGH", "CRITICAL"}
ASSUME MaxCallsAssumption == MaxCalls \in Nat

VARIABLES
    opener,         \* the call that opens the plan
    call,           \* each executing call: its process, step, slot, outcome
    thread          \* each attempt's worker thread and gate

planVars == <<opener, call, thread>>

Calls == 1..MaxCalls

-----------------------------------------------------------------------------
(* select_agent_slots: more slots, all of one capability, as risk grows.   *)

Slots ==
    CASE Risk \in {"LOW", "MODERATE"} -> 1
      [] Risk = "HIGH" -> 2
      [] Risk = "CRITICAL" -> 3

SlotSet == 1..Slots

-----------------------------------------------------------------------------
(* Records of the plan.  There is one plan; its slots' records are keyed   *)
(* by the slot alone (attempt_ordinal is always 1).                        *)

PlanKey == [kind |-> "plan"]
ClaimKey(s) == [kind |-> "claim", slot |-> s]
OutputKey(s) == [kind |-> "slot_output", slot |-> s]
ReleaseKey(s) == [kind |-> "release_receipt", slot |-> s]

(* The conflict set and the aggregation input are content addressed. *)
ConflictSetKey(members) == [kind |-> "conflict_set", members |-> members]
AggregationKey(a) == [kind |-> "aggregation_input", input |-> a]
ReceiptKey(a) == [kind |-> "orchestration_receipt", input |-> a]

(* started_at, ended_at and executed_at are the caller's: by |-> the call. *)
Output(c, o) == [outcome |-> o.outcome, candidate |-> o.candidate,
                 envelope |-> o.envelope, by |-> c]

Plan == Body(PlanKey)
Claim(s) == Body(ClaimKey(s))
SlotOutput(s) == Body(OutputKey(s))

Claimed(s) == Committed(ClaimKey(s))
Settled(s) == Committed(OutputKey(s))

(* _require_envelope_matches_plan_lineage: executed on the plan's State,   *)
(* for its work unit, by its adapter.                                      *)
OfPlan(e) ==
    /\ Committed(e)
    /\ e.unit = WorkUnit(Plan.unit).key
    /\ e.on = Plan.boot
    /\ e.adapter = Plan.adapter

(* The outcome a committed claim's envelope bears witness to.              *)
Witnessed(claim) ==
    [outcome |-> claim.envelope.outcome, candidate |-> claim.envelope.candidate,
     envelope |-> claim.envelope]

\* Seeded fault: what was not heard of is the empty string.
UnheardEmpty(outcome) == [outcome |-> outcome, candidate |-> "", envelope |-> None]
Unheard(outcome) == [outcome |-> outcome, candidate |-> None, envelope |-> None]

(* _require_slot_output_matches_plan_lineage. *)
OutputOfPlan(s) ==
    LET o == SlotOutput(s) IN
    o.envelope # None =>
        OfPlan(o.envelope) /\ o.outcome = o.envelope.outcome
                           /\ o.candidate = o.envelope.candidate

-----------------------------------------------------------------------------
(* open_dynamic_execution_plan: the work unit is opened with the caller's  *)
(* agent, under the same exactness check, between the plan's own check and *)
(* its commit.                                                             *)

OpenerIs(pc) == opener.pc = pc

OpenPlan ==
    /\ OpenerIs("active") /\ Exact(opener.held)
    /\ opener' = [opener EXCEPT !.pc = "unit"]
    /\ UNCHANGED <<storeVars, call, thread>>

\* Seeded fault: the joined work unit is opened on whatever State there is.
OpenUnitOnFresh == Snapshot
OpenUnitOn == opener.held

(* _open_model_work_unit_joined. *)
OpenUnit ==
    /\ OpenerIs("unit")
    /\ Opens(OpenUnitOn)
    /\ \/ CommitRecords(UnitRecords(OpenUnitOn))
          /\ opener' = [opener EXCEPT !.pc = "plan", !.unit = OpenUnitOn]
       \/ CommitRaises /\ opener' = [opener EXCEPT !.pc = "active"]
    /\ UNCHANGED <<call, thread>>

(* derive_multi_agent_dynamic_execution_plan: the adapter is the caller's. *)
PlanOf(boot, unit) ==
    [boot |-> boot, unit |-> unit, adapter |-> CHOOSE a \in Adapters : TRUE]

(* The plan's snapshot is the one found at first. *)
CommitPlan ==
    /\ OpenerIs("plan")
    /\ \/ CommitRecords({Record(PlanKey, PlanOf(opener.held, opener.unit))})
          /\ opener' = [opener EXCEPT !.pc = "done"]
       \/ CommitRaises /\ opener' = [opener EXCEPT !.pc = "active"]
    /\ UNCHANGED <<call, thread>>

(* A contract that is no longer exact: the caller starts another agent.    *)
Reopen ==
    /\ opener.pc \in {"active", "unit"} /\ ~Exact(opener.held)
    /\ opener' = [pc |-> "active", held |-> Snapshot, unit |-> None]
    /\ UNCHANGED <<storeVars, call, thread>>

-----------------------------------------------------------------------------
(* Threads and the gate.                                                   *)

NoThread == [pc |-> "none", gate |-> "free", result |-> None]

\* Seeded fault: the thread takes the gate before it calls the adapter.
NewThreadWithGate == [NoThread EXCEPT !.pc = "adapter", !.gate = "thread"]
NewThread == [NoThread EXCEPT !.pc = "adapter"]

(* _AttemptTerminalGate.claim: the first caller wins. *)
GateFree(c, s) == thread[c][s].gate = "free"

Turn(c, s, t) == thread' = [thread EXCEPT ![c][s] = t]

(* _require_valid_pinned_execution_snapshot: the pin is the State the      *)
(* plan's work unit was opened on, and not in the Store's future.          *)
PinValid ==
    /\ Plan.boot.revision <= Revision
    /\ Plan.boot = Plan.unit

(* _resolve_and_verify_canonical_plan: what a claim is to be committed for *)
(* is a slot of the committed plan, whose work unit is the one executed.   *)
CanonicalPlan(s) ==
    Committed(PlanKey) /\ s \in SlotSet /\ Committed(WorkUnit(Plan.unit).key)

(* The thread's execute_model_work_unit, up to the adapter's answer.       *)
ThreadAnswers(c, s) ==
    /\ thread[c][s].pc = "adapter"
    /\ PinValid /\ CanonicalPlan(s)
    /\ \E n \in Normalized :
          Turn(c, s, [thread[c][s] EXCEPT
                        !.pc = "answered",
                        !.result = [by |-> c, envelope |->
                            EnvelopeKey(WorkUnit(Plan.unit).key, Plan.boot,
                                Plan.adapter, n.outcome, n.candidate)]])
    /\ UNCHANGED <<storeVars, opener, call>>

(* Whatever the call raises: the adapter, a contract, a report. *)
ThreadRaises(c, s) ==
    /\ thread[c][s].pc = "adapter"
    /\ Turn(c, s, [thread[c][s] EXCEPT !.pc = "raised"])
    /\ UNCHANGED <<storeVars, opener, call>>

\* Seeded fault: cancellation is looked up and the gate is not claimed.
LooksOnly(c, s, t) == Turn(c, s, t)
ClaimsGate(c, s, t) == Turn(c, s, [t EXCEPT !.gate = "thread"])

(* cancellation_check, right before the commit. *)
ThreadChecks(c, s) ==
    /\ thread[c][s].pc = "answered"
    /\ IF GateFree(c, s)
       THEN ClaimsGate(c, s, [thread[c][s] EXCEPT !.pc = "committing"])
       ELSE Turn(c, s, [thread[c][s] EXCEPT !.pc = "raised"])
    /\ UNCHANGED <<storeVars, opener, call>>

(* Envelope and claim in one transaction; the claim's key is the slot's,   *)
(* so that a second envelope of the slot conflicts.  The call may raise    *)
(* after its commit too: the work-time notice is still to come.            *)
ThreadCommits(c, s) ==
    /\ thread[c][s].pc = "committing"
    /\ \/ /\ CommitRecords({Envelope(thread[c][s].result.envelope),
                      Record(ClaimKey(s), thread[c][s].result)})
          /\ \E pc \in {"done", "raised"} :
                Turn(c, s, [thread[c][s] EXCEPT !.pc = pc])
       \/ /\ CommitRaises
          /\ Turn(c, s, [thread[c][s] EXCEPT !.pc = "raised"])
    /\ UNCHANGED <<opener, call>>

-----------------------------------------------------------------------------
(* _execute_one_slot: the coordinator.                                     *)

NoCall == [pc |-> "idle", proc |-> None, slot |-> 0, found |-> None,
           crowded |-> FALSE]

At(c, pc) == call[c].pc = pc

Become(c, r) == call' = [call EXCEPT ![c] = r]

Goto(c, pc) == Become(c, [call[c] EXCEPT !.pc = pc])

Ended == {"idle", "returned", "raised", "dead"}

InFlight == {c \in Calls : call[c].pc \notin Ended}

(* Calls are numbered as they begin.  A process, named by its first call,  *)
(* makes one after another; others may be in flight in other processes.    *)
(* An expired plan is refused before this.                                 *)
Begin(c, p) ==
    /\ At(c, "idle") /\ Committed(PlanKey)
    /\ \A d \in 1..(c - 1) : ~At(d, "idle")
    /\ \/ p = c
       \/ /\ p < c /\ call[p].proc = p
          /\ \A d \in Calls :
                call[d].proc = p => call[d].pc \in {"returned", "raised"}
    /\ Become(c, [NoCall EXCEPT !.pc = "output", !.proc = p, !.slot = 1,
                                !.crowded = InFlight # {}])
    /\ UNCHANGED <<storeVars, opener, thread>>

(* The slot is settled: its heartbeat is posted, or raises. *)
NextSlot(c) ==
    \/ Become(c, [call[c] EXCEPT !.slot = @ + 1, !.found = None,
                   !.pc = IF call[c].slot = Slots THEN "conflicts" ELSE "output"])
    \/ Goto(c, "raised")

(* A replay: the committed output and its receipt are returned as they are.*)
FindOutput(c) ==
    /\ At(c, "output")
    /\ IF Settled(call[c].slot)
       THEN OutputOfPlan(call[c].slot) /\ NextSlot(c)
       ELSE Goto(c, "claim")
    /\ UNCHANGED <<storeVars, opener, thread>>

Settle(c, o) == Become(c, [call[c] EXCEPT !.pc = "settle", !.found = o])

\* Seeded fault: a claim without output is taken for no attempt at all.
NothingToAdopt(s) == FALSE
(* A claim without output: its attempt was interrupted.                    *)
Adoptable(s) == Claimed(s)

FindClaim(c) ==
    /\ At(c, "claim")
    /\ IF Adoptable(call[c].slot)
       THEN /\ OfPlan(Claim(call[c].slot).envelope)
            /\ Settle(c, Witnessed(Claim(call[c].slot)))
       ELSE Goto(c, "start")
    /\ UNCHANGED <<storeVars, opener, thread>>

(* Otherwise an agent is started, and the adapter on a thread; both may    *)
(* raise, as may an adapter whose identity is not the plan's.              *)
StartAttempt(c) ==
    /\ At(c, "start")
    /\ \/ Goto(c, "wait") /\ Turn(c, call[c].slot, NewThread)
       \/ Goto(c, "failed") /\ UNCHANGED thread
    /\ UNCHANGED <<storeVars, opener>>

ThreadOf(c) == thread[c][call[c].slot]

(* future.result returns. *)
TakeResult(c) ==
    /\ call[c].pc \in {"wait", "blocked"} /\ ThreadOf(c).pc = "done"
    /\ Settle(c, Witnessed(ThreadOf(c).result))
    /\ Turn(c, call[c].slot, NoThread)
    /\ UNCHANGED <<storeVars, opener>>

(* future.result raises what the thread raised. *)
TakeError(c) ==
    /\ call[c].pc \in {"wait", "blocked"} /\ ThreadOf(c).pc = "raised"
    /\ Goto(c, "failed") /\ Turn(c, call[c].slot, NoThread)
    /\ UNCHANGED <<storeVars, opener>>

(* The wait times out, or the adapter raised a TimeoutError of its own,    *)
(* which is caught as if it had: TIMEOUT, unless the thread has the gate;  *)
(* then its commit is waited for without a limit.                          *)
TimeOut(c) ==
    /\ At(c, "wait") /\ ThreadOf(c).pc # "done"
    /\ IF GateFree(c, call[c].slot)
       THEN /\ Turn(c, call[c].slot, [ThreadOf(c) EXCEPT !.gate = "coordinator"])
            /\ Settle(c, Unheard("TIMEOUT"))
       ELSE Goto(c, "blocked") /\ UNCHANGED thread
    /\ UNCHANGED <<storeVars, opener>>

(* The claim is looked up once more before the slot is unavailable.        *)
Recovered(s) ==
    IF Claimed(s) THEN Witnessed(Claim(s)) ELSE Unheard("UNAVAILABLE")

(* except Exception. *)
AttemptFailed(c) ==
    /\ At(c, "failed")
    /\ Settle(c, Recovered(call[c].slot))
    /\ UNCHANGED <<storeVars, opener, thread>>

(* The agent is released; output and receipt in one transaction.  Another  *)
(* body under the key is a replay conflict.                                *)
CommitOutput(c) ==
    LET s == call[c].slot
        new == {Record(OutputKey(s), Output(c, call[c].found)),
                Record(ReleaseKey(s), [by |-> c])}
    IN
    /\ At(c, "settle")
    /\ \/ CommitRecords(new) /\ NextSlot(c)
       \/ CommitRaises /\ Goto(c, "raised")
    /\ UNCHANGED <<opener, thread>>

-----------------------------------------------------------------------------
(* The conflict set and the aggregation.                                   *)

Accepted == {s \in SlotSet : SlotOutput(s).outcome = "CANDIDATE_ACCEPTED"}

Fingerprints == {SlotOutput(s).candidate : s \in Accepted}

\* Seeded fault: a majority's candidate is admitted.
AdmittedAny == Accepted
(* _classify_conflicts: one capability, so either all that was accepted    *)
(* agrees and is admitted, or nothing is; every other slot is absent.      *)
Admitted == IF Cardinality(Fingerprints) = 1 THEN Accepted ELSE {}

Members ==
    {[member |-> "ABSENT", slots |-> {s}] : s \in SlotSet \ Accepted}
    \cup {[member |-> IF Admitted = {} THEN "CONTRADICTING" ELSE "AGREEING",
           slots |-> {s \in Accepted : SlotOutput(s).candidate = f}] :
             f \in Fingerprints}

Aggregation ==
    [admitted |-> Admitted, unresolved |-> Admitted = {},
     absent |-> SlotSet \ Accepted]

CommitConflicts(c) ==
    /\ At(c, "conflicts")
    /\ \/ CommitRecords({Record(ConflictSetKey(Members), Members)})
          /\ Goto(c, "aggregate")
       \/ CommitRaises /\ Goto(c, "raised")
    /\ UNCHANGED <<opener, thread>>

(* Only when every receipt says RELEASED: they can say nothing else. *)
CommitAggregation(c) ==
    /\ At(c, "aggregate")
    /\ \/ CommitRecords({Record(AggregationKey(Aggregation), Aggregation)})
          /\ Goto(c, "returned")
       \/ CommitRaises /\ Goto(c, "raised")
    /\ UNCHANGED <<opener, thread>>

(* resolve_and_verify_canonical_terminal_graph: every slot's output and    *)
(* receipt is there, and what they classify to is what is stored.          *)
TerminalGraph ==
    /\ \A s \in SlotSet :
          Settled(s) /\ OutputOfPlan(s) /\ Committed(ReleaseKey(s))
    /\ Committed(ConflictSetKey(Members))
    /\ Committed(AggregationKey(Aggregation))

(* route_orchestration_to_evidence: a chain of Evidence, one for each      *)
(* admitted output in the order of their ids, with the receipt.            *)
HandOff ==
    /\ TerminalGraph
    /\ ~Committed(ReceiptKey(Aggregation))
    /\ CommitRecords({Record(ReceiptKey(Aggregation),
                 [outcome |-> IF Aggregation.unresolved
                              THEN "COMPLETED_WITH_UNRESOLVED_CAPABILITY"
                              ELSE "COMPLETED_ALL_RELEASED",
                  evidence |-> {SlotOutput(s).envelope : s \in Admitted}])})
    /\ UNCHANGED planVars

-----------------------------------------------------------------------------

(* The process dies with all its threads. *)
Die(p) ==
    /\ \E c \in InFlight : call[c].proc = p
    /\ call' = [c \in Calls |->
                  IF call[c].proc = p /\ c \in InFlight
                  THEN [call[c] EXCEPT !.pc = "dead"] ELSE call[c]]
    /\ thread' = [c \in Calls |->
                    IF call[c].proc = p THEN [s \in SlotSet |-> NoThread]
                    ELSE thread[c]]
    /\ UNCHANGED <<storeVars, opener>>

PlanInit ==
    /\ opener = [pc |-> "active", held |-> Snapshot, unit |-> None]
    /\ call = [c \in Calls |-> NoCall]
    /\ thread = [c \in Calls |-> [s \in SlotSet |-> NoThread]]

ThreadStep(c, s) ==
    ThreadAnswers(c, s) \/ ThreadRaises(c, s) \/ ThreadChecks(c, s)
    \/ ThreadCommits(c, s)

CallStep(c) ==
    \/ FindOutput(c) \/ FindClaim(c) \/ StartAttempt(c) \/ TakeResult(c)
    \/ TakeError(c) \/ TimeOut(c) \/ AttemptFailed(c) \/ CommitOutput(c)
    \/ CommitConflicts(c) \/ CommitAggregation(c)

OpenerNext == OpenPlan \/ OpenUnit \/ CommitPlan \/ Reopen

CallsNext ==
    \/ \E c, p \in Calls : Begin(c, p)
    \/ \E c \in Calls, s \in SlotSet : ThreadStep(c, s)
    \/ \E c \in Calls : CallStep(c)
    \/ HandOff
    \/ \E p \in Calls : Die(p)

-----------------------------------------------------------------------------

PlanTypeOK ==
    /\ opener.pc \in {"active", "unit", "plan", "done"}
    /\ \A c \in Calls :
          /\ call[c].pc \in Ended \cup {"output", "claim", "start", "wait",
                "blocked", "failed", "settle", "conflicts", "aggregate"}
          /\ call[c].pc = "settle" =>
                (call[c].found.candidate = None
                   <=> call[c].found.outcome # "CANDIDATE_ACCEPTED")
          /\ call[c].proc \in Calls \cup {None}
          /\ call[c].slot \in 0..Slots + 1
          /\ \A s \in SlotSet :
                /\ thread[c][s].pc \in {"none", "adapter", "answered",
                      "committing", "done", "raised"}
                /\ thread[c][s].gate \in {"free", "thread", "coordinator"}

(* A plan and its work unit are of one State: were they not, no slot of    *)
(* the plan could ever be executed, its pin being refused every time.      *)
PlanExecutable == Committed(PlanKey) => PinValid

NeverCrowded == \A c \in Calls : ~call[c].crowded

(* One terminal fact for each attempt: when no two processes execute the   *)
(* plan at once, an envelope that was committed for a slot is the one its  *)
(* output names, whatever timed out, raised, or died in between.  Two      *)
(* processes have two gates, and this is not promised to them.             *)
OneTerminalFact ==
    NeverCrowded =>
        \A s \in SlotSet :
            Claimed(s) /\ Settled(s) =>
                SlotOutput(s).envelope = Claim(s).envelope

(* An output that is accepted has its envelope committed behind it, with   *)
(* two processes as well: the claim is the output's.                       *)
AcceptedIsWitnessed ==
    \A s \in SlotSet :
        Settled(s) /\ SlotOutput(s).envelope # None =>
            Claimed(s) /\ SlotOutput(s).envelope = Claim(s).envelope

(* What went to Evidence is unanimous and complete: every slot is settled  *)
(* and released, the admitted envelopes carry one candidate, and no slot   *)
(* accepted another.                                                       *)
EvidenceUnanimous ==
    \A r \in {x \in records : x.key.kind = "orchestration_receipt"} :
        /\ \A s \in SlotSet : Settled(s) /\ Committed(ReleaseKey(s))
        /\ r.body.evidence # {} => Cardinality(Fingerprints) = 1
        /\ \A e \in r.body.evidence :
              \E s \in SlotSet : SlotOutput(s).envelope = e

(* A slot with a committed claim is not executed again by calls that do    *)
(* not overlap: no adapter is called for it any more, by a retry after a   *)
(* crash or a lost answer either.                                          *)
NotExecutedTwice ==
    [][\A c \in Calls, s \in SlotSet :
          NeverCrowded /\ Claimed(s) => ~(thread[c][s].pc = "none" /\ thread'[c][s].pc = "adapter")
      ]_<<storeVars, planVars>>

(* A call waits without a limit only for a thread that is past its adapter *)
(* and has nothing left to do but its commit: an adapter that hangs for    *)
(* ever never keeps a call from ending.                                    *)
BlockedOnCommitOnly ==
    \A c \in Calls :
        At(c, "blocked") => ThreadOf(c).pc \in {"committing", "done", "raised"}

(* What the two-slot execution of a plan promises of each slot, whatever   *)
(* hangs, raises, times out or dies.                                       *)
SlotsSound ==
    /\ PlanTypeOK /\ PlanExecutable
    /\ OneTerminalFact /\ AcceptedIsWitnessed /\ BlockedOnCommitOnly
=============================================================================
