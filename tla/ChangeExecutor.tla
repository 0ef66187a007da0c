--------------------------- MODULE ChangeExecutor ---------------------------
(***************************************************************************)
(* change_executor/route.py and kill_switch.py: the controlled autonomous  *)
(* execution of one authorized Change.                                     *)
(*                                                                         *)
(* One mapping slot (Change, Execution Boundary, adapter identity) and the *)
(* processes that call execute(...) on it.  A call resolves the slot's     *)
(* records, passes the admission checks, commits execution_intent and      *)
(* execution_attempt, passes the second kill-switch check and the final    *)
(* State barrier, calls the adapter and commits one terminal receipt.      *)
(* Every Store read and every Store commit is a step of its own; calls     *)
(* crash anywhere and are repeated, and other committers (another slot, a  *)
(* human rotating or revoking the kill switch) move the State in between.  *)
(*                                                                         *)
(* The Store appears as FileStateStore's abstract promise: log[i] is the   *)
(* transition that produced revision i, applied atomically.  Of its        *)
(* journals only what a refused or killed commit leaves behind is kept,    *)
(* and of current.json the revision it shows.  The Change, its Authority   *)
(* Decision and its scope are immutable and admissible; signatures and     *)
(* content addresses hold.                                                 *)
(***************************************************************************)
EXTENDS Naturals, Sequences, FiniteSets

CONSTANTS
    Callers,        \* processes calling execute
    Tokens,         \* claim tokens
    Instants,       \* execution instants
    Window,         \* those within the Boundary's validity_window
    Writes,         \* paths the operation writes
    Deletes,        \* paths the operation deletes
    Rollback,       \* is rollback_policy BEST_EFFORT_DELETE_WRITTEN_FILES?
    MaxRetries,     \* _MAX_COMMIT_RETRIES
    MaxForeign,     \* bound: transitions committed by others
    None

ASSUME WindowAssumption == Window \subseteq Instants
ASSUME PathAssumption == Writes \cap Deletes = {} /\ Writes \cup Deletes # {}
ASSUME PolicyAssumption == Rollback \in BOOLEAN
ASSUME BoundAssumption == MaxRetries \in Nat \ {0} /\ MaxForeign \in Nat
ASSUME AbsentAssumption == None \notin Tokens \cup Instants

VARIABLES
    log,        \* the committed State transitions, in revision order
    view,       \* the revision current.json shows
    leftover,   \* transactions whose journal will never be COMMITTED
    tree,       \* the worktree's files, as the operation sees them
    call,       \* each caller's local variables
    calls       \* history: primary adapter calls so far

store == <<log, view, leftover>>
vars == <<store, tree, call, calls>>

-----------------------------------------------------------------------------
(* Values. *)

Paths == Writes \cup Deletes

Kind == {"intent", "attempt", "receipt"}

Outcome == {"SUCCEEDED", "BOUNDARY_VIOLATION", "KILL_SWITCH_STOPPED",
            "ADAPTER_FAILURE", "PARTIAL_MUTATION", "ROLLBACK_SUCCEEDED",
            "ROLLBACK_FAILED", "UNKNOWN", "REOBSERVATION_MISMATCH"}

(* The bodies of the three records, reduced to what differs between two    *)
(* bodies of one slot.  The nonce is fresh for every attempt built, and a  *)
(* receipt names the State its call booted: a resumed call's is another.   *)
Intent(token, instant) == [token |-> token, instant |-> instant]
\* Seeded fault: the attempt's body is reproducible (before judgment call 8).
AttemptWithoutNonce(token, instant, p) ==
    [token |-> token, instant |-> instant, nonce |-> None]
Attempt(token, instant, p) ==
    [token |-> token, instant |-> instant, nonce |-> p]
Receipt(token, instant, outcome, written, resumed) ==
    [token |-> token, instant |-> instant, outcome |-> outcome,
     written |-> written, resumed |-> resumed]

(* An adapter's report, once _validate_adapter_report accepts it. *)
Report == [written : SUBSET Writes, deleted : SUBSET Deletes, error : BOOLEAN]

-----------------------------------------------------------------------------
(* Reading the Store. *)

Revision == Len(log)

(* resolve_record(kind, slot): bodies of one kind never differ. *)
Resolved(k) ==
    IF \E i \in DOMAIN log : log[i].kind = k
    THEN log[CHOOSE i \in DOMAIN log : log[i].kind = k].rec
    ELSE None

(* The kill switch the State at revision n points to. *)
SwitchAt(n) ==
    LET moves == {i \in 1 .. n : log[i].kind = "switch"} IN
    IF moves = {} THEN None
    ELSE log[CHOOSE i \in moves : \A j \in moves : j <= i].rec

(* load_current raises on a view behind the committed State. *)
Loadable == view = Revision

(* read_current_consistent: the view agrees and no journal lacks COMMITTED.*)
Quiescent == Loadable /\ leftover = {}

(* The revision the Change was authorized against.  Its own records were   *)
(* committed at or before it.                                              *)
Authorized == 1

-----------------------------------------------------------------------------
(* A call's local variables, and how a step leaves them. *)

Idle == [pc |-> "idle", token |-> None, instant |-> None, resuming |-> FALSE,
         base |-> 0, post |-> 0, tries |-> 0, report |-> None, outcome |-> None,
         returned |-> None]

At(p, step) == call[p].pc = step

Become(p, c) == call' = [call EXCEPT ![p] = c]

Goto(p, step) == Become(p, [call[p] EXCEPT !.pc = step])

Raise(p) == Become(p, Idle)

Return(p, receipt) == Become(p, [Idle EXCEPT !.returned = receipt])

Locally == UNCHANGED <<store, tree, calls>>

(* _commit_terminal_receipt with this outcome. *)
Conclude(p, outcome) ==
    Become(p, [call[p] EXCEPT !.pc = "LoadReceipt", !.outcome = outcome,
                              !.tries = 0])

-----------------------------------------------------------------------------
(* Step (2): idempotency-slot resolution, one Store read after another.    *)

Execute(p, token, instant) ==
    /\ At(p, "idle")
    /\ Become(p, [Idle EXCEPT !.pc = "ResolveReceipt", !.token = token,
                              !.instant = instant])
    /\ Locally

(* A terminal receipt is replayed to its own claim, and to another claim   *)
(* only as a disclosed reuse, if it permits that.                          *)
ResolveReceipt(p, reuse) ==
    LET receipt == Resolved("receipt") IN
    /\ At(p, "ResolveReceipt")
    /\ IF receipt = None THEN Goto(p, "ResolveAttempt")
       ELSE IF receipt.token = call[p].token \/ reuse
            THEN Return(p, receipt)
            ELSE Raise(p)
    /\ Locally

\* Seeded fault: no attempt is ever one's own (before judgment call 17).
OwnAttemptNever(p) == FALSE
OwnAttempt(p) == Resolved("attempt").token = call[p].token

(* An attempt without a receipt: this claim concludes it as UNKNOWN, any   *)
(* other is refused (ExecutionReconciliationRequiredError).                *)
ResolveAttempt(p) ==
    /\ At(p, "ResolveAttempt")
    /\ IF Resolved("attempt") = None THEN Goto(p, "ResolveIntent")
       ELSE IF OwnAttempt(p) THEN Conclude(p, "UNKNOWN") ELSE Raise(p)
    /\ Locally

(* Step (3), the time window, reads only the request. *)
ResolveIntent(p) ==
    LET intent == Resolved("intent") IN
    /\ At(p, "ResolveIntent")
    /\ IF call[p].instant \in Window
       THEN Become(p, [call[p] EXCEPT
                !.pc = "Switch1",
                !.resuming = intent # None /\ intent.token = call[p].token])
       ELSE Raise(p)
    /\ Locally

-----------------------------------------------------------------------------
(* Steps (4) to (10): admission.                                           *)

(* _require_active_kill_switch_verified before Boot. *)
Switch1(p) ==
    /\ At(p, "Switch1")
    /\ IF Quiescent /\ SwitchAt(Revision) = "ACTIVE"
       THEN Goto(p, "Boot") ELSE Raise(p)
    /\ Locally

(* The staleness check: the authorized State, or its direct successor when *)
(* the caller resumes its own intent.                                      *)
Fresh(p) ==
    Revision = IF call[p].resuming THEN Authorized + 1 ELSE Authorized

Boot(p) ==
    /\ At(p, "Boot")
    /\ IF Quiescent /\ Fresh(p)
       THEN Become(p, [call[p] EXCEPT !.pc = "LoadIntent", !.tries = 0])
       ELSE Raise(p)
    /\ Locally

(* A read_current_consistent that meets another writer's transaction in    *)
(* flight raises CorruptStoreError, at whichever check it is made.         *)
MeetsPending(p) ==
    /\ call[p].pc \in {"Switch1", "Boot", "Switch2"}
    /\ Raise(p)
    /\ Locally

-----------------------------------------------------------------------------
(* _commit_records: load_current, then commit under the State loaded, at   *)
(* most MaxRetries times.                                                  *)

Load(p, from, to) ==
    /\ At(p, from)
    /\ IF Loadable
       THEN Become(p, [call[p] EXCEPT !.pc = to, !.base = Revision])
       ELSE Raise(p)
    /\ Locally

(* The transaction identity is <prefix>-<slot>-<revision loaded>. *)
TxOf(p, k) == <<k, call[p].base>>

(* The lineage already names this transaction: someone else's commit of    *)
(* this kind was based on the same revision.                               *)
Named(p, k) == call[p].base < Revision /\ log[call[p].base + 1].kind = k

(* The commit is accepted. *)
Applies(p, k, rec) ==
    /\ call[p].base = Revision
    /\ TxOf(p, k) \notin leftover
    /\ Resolved(k) \in {None, rec}

Entry(k, instant, rec) == [kind |-> k, instant |-> instant, rec |-> rec]

Apply(p, k, rec) ==
    /\ Applies(p, k, rec)
    /\ log' = Append(log, Entry(k, call[p].instant, rec))
    /\ view' = call[p].base + 1
    /\ UNCHANGED <<leftover, tree, calls>>

(* An identical event and records: the Store answers with the transaction's*)
(* own after_state, and writes that back to current.json.                  *)
Replays(p, k, rec) ==
    /\ Named(p, k)
    /\ log[call[p].base + 1] = Entry(k, call[p].instant, rec)

Replay(p, k, rec) ==
    /\ Replays(p, k, rec)
    /\ view' = call[p].base + 1
    /\ UNCHANGED <<log, leftover, tree, calls>>

(* StaleStateError: load again, unless that was the last try. *)
Retry(p, k, load) ==
    /\ call[p].base < Revision /\ ~Named(p, k)
    /\ IF call[p].tries + 1 < MaxRetries
       THEN Become(p, [call[p] EXCEPT !.pc = load, !.tries = @ + 1])
       ELSE Raise(p)
    /\ Locally

(* TransactionConflictError, or FileExistsError on a leftover journal:     *)
(* neither is caught.                                                      *)
Rejected(p, k, rec) ==
    /\ \/ Named(p, k) /\ ~Replays(p, k, rec)
       \/ call[p].base = Revision /\ TxOf(p, k) \in leftover
    /\ Raise(p)
    /\ Locally

(* RecordConflictError: another body holds the slot.  The commit had made  *)
(* its journal directory already.                                          *)
ConflictsWith(p, k, rec) ==
    /\ call[p].base = Revision
    /\ TxOf(p, k) \notin leftover
    /\ Resolved(k) \notin {None, rec}

Conflict(p, k, rec) ==
    /\ ConflictsWith(p, k, rec)
    /\ leftover' = leftover \cup {TxOf(p, k)}
    /\ Raise(p)
    /\ UNCHANGED <<log, view, tree, calls>>

CommitFails(p, k, rec, load) ==
    Retry(p, k, load) \/ Rejected(p, k, rec) \/ Conflict(p, k, rec)

-----------------------------------------------------------------------------
(* Steps (11) and (12). *)

LoadIntent(p) == Load(p, "LoadIntent", "CommitIntent")

CommitIntent(p) ==
    LET rec == Intent(call[p].token, call[p].instant) IN
    /\ At(p, "CommitIntent")
    /\ \/ /\ Apply(p, "intent", rec) \/ Replay(p, "intent", rec)
          /\ Become(p, [call[p] EXCEPT !.pc = "LoadAttempt", !.tries = 0])
       \/ CommitFails(p, "intent", rec, "LoadIntent")

LoadAttempt(p) == Load(p, "LoadAttempt", "CommitAttempt")

(* The revision the commit returns is what the final barrier demands. *)
CommitAttempt(p) ==
    LET rec == Attempt(call[p].token, call[p].instant, p) IN
    /\ At(p, "CommitAttempt")
    /\ \/ /\ Apply(p, "attempt", rec) \/ Replay(p, "attempt", rec)
          /\ Become(p, [call[p] EXCEPT !.pc = "Switch2",
                                       !.post = call[p].base + 1])
       \/ CommitFails(p, "attempt", rec, "LoadAttempt")

-----------------------------------------------------------------------------
(* Steps (13) to (15): the last checks and the adapter. *)

\* Seeded fault: no second kill-switch check.
StoppedNever == FALSE
(* ExecutionKillSwitchError at the second check. *)
Stopped == SwitchAt(Revision) # "ACTIVE"

(* The second check, and _operation_violation_reason: whether the operation*)
(* keeps the Boundary's limits.  Only ExecutionKillSwitchError is caught.  *)
Switch2(p, admissible) ==
    /\ At(p, "Switch2")
    /\ CASE ~Quiescent -> Raise(p)
         [] Quiescent /\ Stopped -> Conclude(p, "KILL_SWITCH_STOPPED")
         [] Quiescent /\ ~Stopped /\ ~admissible ->
                Conclude(p, "BOUNDARY_VIOLATION")
         [] OTHER -> Goto(p, "Barrier")
    /\ Locally

\* Seeded fault: no final barrier (before judgment call 10).
UndisturbedOrNot(p) == TRUE
(* The final State barrier (14a). *)
Undisturbed(p) == Revision = call[p].post

Barrier(p) ==
    /\ At(p, "Barrier")
    /\ IF Loadable /\ Undisturbed(p) THEN Goto(p, "Adapter") ELSE Raise(p)
    /\ Locally

(* The worktree after an adapter wrote w and deleted d. *)
Touched(w, d) == [f \in Paths |-> IF f \in w \cup d THEN "requested" ELSE tree[f]]

(* The adapter is replaceable and is not trusted: whatever part of the     *)
(* operation it performed, it raises, returns an unreadable report, or     *)
(* reports any part of the operation, with or without an error.            *)
AdapterRaises(p, w, d) ==
    /\ At(p, "Adapter")
    /\ tree' = Touched(w, d)
    /\ calls' = calls + 1
    /\ Conclude(p, "UNKNOWN")
    /\ UNCHANGED store

AdapterReports(p, w, d, report) ==
    /\ At(p, "Adapter")
    /\ tree' = Touched(w, d)
    /\ calls' = calls + 1
    /\ Become(p, [call[p] EXCEPT !.pc = "Reobserve", !.report = report])
    /\ UNCHANGED store

(* The process dies during the adapter's call. *)
AdapterDies(p, w, d) ==
    /\ At(p, "Adapter")
    /\ tree' = Touched(w, d)
    /\ calls' = calls + 1
    /\ Raise(p)
    /\ UNCHANGED store

-----------------------------------------------------------------------------
(* Steps (15a) to (17): re-observation, classification, rollback, receipt. *)

\* Seeded fault: the adapter's word is taken for the after-state.
MatchedByReport == TRUE
(* independently_reobserve reads the worktree itself. *)
Matched == \A f \in Paths : tree[f] = "requested"

(* _classify_outcome *)
Classified(report) ==
    LET complete == report.written = Writes /\ report.deleted = Deletes IN
    IF ~report.error /\ complete THEN "SUCCEEDED"
    ELSE IF report.written \cup report.deleted # {} THEN "PARTIAL_MUTATION"
    ELSE "ADAPTER_FAILURE"

Reobserve(p) ==
    LET said == Classified(call[p].report)
        outcome == IF said = "SUCCEEDED" /\ ~Matched
                   THEN "REOBSERVATION_MISMATCH" ELSE said IN
    /\ At(p, "Reobserve")
    /\ IF outcome = "PARTIAL_MUTATION" /\ call[p].report.written # {} /\ Rollback
       THEN Goto(p, "Rollback")
       ELSE Conclude(p, outcome)
    /\ Locally

(* _attempt_rollback: a second call that deletes what was reported written;*)
(* gone are the files it really deleted.                                   *)
RollBack(p, gone, outcome) ==
    /\ At(p, "Rollback")
    /\ gone \subseteq call[p].report.written
    /\ tree' = [f \in Paths |-> IF f \in gone THEN "absent" ELSE tree[f]]
    /\ Conclude(p, outcome)
    /\ UNCHANGED <<store, calls>>

LoadReceipt(p) == Load(p, "LoadReceipt", "CommitReceipt")

ReceiptOf(p) ==
    Receipt(call[p].token, call[p].instant, call[p].outcome,
            IF call[p].report = None THEN {} ELSE call[p].report.written,
            call[p].resuming)

\* Seeded fault: a conflicting receipt is taken for one's own.
ConcludesAnyhow(p, rec) ==
    \/ Apply(p, "receipt", rec)
    \/ Replay(p, "receipt", rec)
    \/ ConflictsWith(p, "receipt", rec) /\ Locally
Concludes(p, rec) == Apply(p, "receipt", rec) \/ Replay(p, "receipt", rec)

CommitReceipt(p) ==
    /\ At(p, "CommitReceipt")
    /\ \/ Concludes(p, ReceiptOf(p)) /\ Return(p, ReceiptOf(p))
       \/ CommitFails(p, "receipt", ReceiptOf(p), "LoadReceipt")

-----------------------------------------------------------------------------
(* Crashes.  An exception from the Store's or the ledger's I/O ends a call *)
(* in the same way.                                                        *)

Crash(p) ==
    /\ ~At(p, "idle")
    /\ Raise(p)
    /\ Locally

(* Death inside the Store's commit, after its journal directory and before *)
(* COMMIT_INTENT: the journal stays for ever.  Past COMMIT_INTENT recover  *)
(* completes the commit, which is then one followed by a crash.            *)
DieInCommit(p, k, rec) ==
    /\ Applies(p, k, rec)
    /\ leftover' = leftover \cup {TxOf(p, k)}
    /\ Raise(p)
    /\ UNCHANGED <<log, view, tree, calls>>

CrashInCommit(p) ==
    \/ At(p, "CommitIntent")
       /\ DieInCommit(p, "intent", Intent(call[p].token, call[p].instant))
    \/ At(p, "CommitAttempt")
       /\ DieInCommit(p, "attempt", Attempt(call[p].token, call[p].instant, p))
    \/ At(p, "CommitReceipt") /\ DieInCommit(p, "receipt", ReceiptOf(p))

-----------------------------------------------------------------------------
(* Other committers of the project's State.                                *)

Foreign == Cardinality({i \in DOMAIN log : log[i].kind \notin Kind})

CommitForeign(k, rec) ==
    /\ Foreign <= MaxForeign
    /\ Loadable
    /\ log' = Append(log, Entry(k, None, rec))
    /\ view' = Revision + 1
    /\ UNCHANGED <<leftover, tree, call, calls>>

(* Any transition of the project that is not about this slot. *)
OtherTransition == CommitForeign("other", None)

(* commit_change_executor_kill_switch: _require_legal_transition.  A chain *)
(* opens ACTIVE, and a revocation is final.                                *)
MoveSwitch(status) ==
    /\ \/ SwitchAt(Revision) = None /\ status = "ACTIVE"
       \/ SwitchAt(Revision) = "ACTIVE"
    /\ CommitForeign("switch", status)

-----------------------------------------------------------------------------
(* The Change is authorized by the transition to revision 1, which a human *)
(* may have made by opening the kill switch, or before ever opening one.   *)
Init ==
    /\ log \in {<<Entry("switch", None, "ACTIVE")>>, <<Entry("other", None, None)>>}
    /\ view = 1 /\ leftover = {}
    /\ tree = [f \in Paths |-> "original"]
    /\ call = [p \in Callers |-> Idle]
    /\ calls = 0

AdapterStep(p) ==
    \E w \in SUBSET Writes, d \in SUBSET Deletes :
        \/ AdapterRaises(p, w, d)
        \/ \E report \in Report : AdapterReports(p, w, d, report)

(* What an unfinished call does next. *)
Proceed(p) ==
    \/ \E reuse \in BOOLEAN : ResolveReceipt(p, reuse)
    \/ ResolveAttempt(p)
    \/ ResolveIntent(p)
    \/ Switch1(p)
    \/ Boot(p)
    \/ LoadIntent(p)
    \/ CommitIntent(p)
    \/ LoadAttempt(p)
    \/ CommitAttempt(p)
    \/ \E admissible \in BOOLEAN : Switch2(p, admissible)
    \/ Barrier(p)
    \/ AdapterStep(p)
    \/ Reobserve(p)
    \/ \E gone \in SUBSET Writes :
          \E outcome \in {"ROLLBACK_SUCCEEDED", "ROLLBACK_FAILED"} :
             RollBack(p, gone, outcome)
    \/ LoadReceipt(p)
    \/ CommitReceipt(p)

Begin(p) ==
    \E token \in Tokens, instant \in Instants : Execute(p, token, instant)

Fail(p) ==
    \/ MeetsPending(p)
    \/ Crash(p)
    \/ CrashInCommit(p)
    \/ \E w \in SUBSET Writes, d \in SUBSET Deletes : AdapterDies(p, w, d)

Others == OtherTransition \/ \E status \in {"ACTIVE", "REVOKED"} : MoveSwitch(status)

Next == (\E p \in Callers : Begin(p) \/ Proceed(p) \/ Fail(p)) \/ Others

Spec == Init /\ [][Next]_vars

(* A started call runs on, and the claim that left an attempt behind asks  *)
(* again whenever its process keeps coming free.                           *)
AsksAgain(p) ==
    \E token \in Tokens, instant \in Instants :
        /\ Resolved("attempt") # None /\ token = Resolved("attempt").token
        /\ Execute(p, token, instant)

-----------------------------------------------------------------------------
(* Properties.                                                             *)

Step == {"idle", "ResolveReceipt", "ResolveAttempt", "ResolveIntent",
         "Switch1", "Boot", "LoadIntent", "CommitIntent", "LoadAttempt",
         "CommitAttempt", "Switch2", "Barrier", "Adapter", "Reobserve",
         "Rollback", "LoadReceipt", "CommitReceipt"}

IntentType == [token : Tokens, instant : Instants]
AttemptType == [token : Tokens, instant : Instants, nonce : Callers]
ReceiptType == [token : Tokens, instant : Instants, outcome : Outcome,
                written : SUBSET Writes, resumed : BOOLEAN]

Transition ==
    [kind : {"intent"}, instant : Instants, rec : IntentType]
    \cup [kind : {"attempt"}, instant : Instants, rec : AttemptType]
    \cup [kind : {"receipt"}, instant : Instants, rec : ReceiptType]
    \cup [kind : {"switch"}, instant : {None}, rec : {"ACTIVE", "REVOKED"}]
    \cup [kind : {"other"}, instant : {None}, rec : {None}]

Call == [pc : Step, token : Tokens \cup {None}, instant : Instants \cup {None},
         resuming : BOOLEAN, base : Nat, post : Nat,
         tries : 0 .. MaxRetries, report : Report \cup {None},
         outcome : Outcome \cup {None}, returned : ReceiptType \cup {None}]

(* An absent record is none of the records. *)
ASSUME BodyAssumption == None \notin IntentType \cup AttemptType \cup ReceiptType

(* Every variable has its type. *)
TypeOK ==
    /\ log \in Seq(Transition) /\ view \in Nat
    /\ leftover \in SUBSET (Kind \X Nat)
    /\ tree \in [Paths -> {"original", "requested", "absent"}]
    /\ call \in [Callers -> Call]
    /\ calls \in Nat

(* P18-C5: "Concurrent duplicate attempts must not perform the mutation    *)
(* twice": whatever calls race, crash and are repeated on the slot, the    *)
(* primary operation is dispatched at most once.                           *)
AdapterAtMostOnce == calls <= 1

(* P18-C8: nobody is about to call the adapter unless the kill switch was  *)
(* ACTIVE in the very State its own attempt produced; a revocation that    *)
(* lands between the two kill-switch checks, or before the barrier, stops  *)
(* the call.                                                               *)
ExecutesUnderActiveSwitch ==
    \A p \in Callers : At(p, "Adapter") => SwitchAt(call[p].post) = "ACTIVE"

(* A durable SUCCEEDED means the worktree holds the whole operation,       *)
(* whatever the adapter reported, and whichever retry committed it.        *)
SucceededIsReal ==
    Resolved("receipt") # None /\ Resolved("receipt").outcome = "SUCCEEDED" =>
        \A f \in Paths : tree[f] = "requested"

(* A receipt handed to a caller, fresh, replayed or reused, is the one     *)
(* durable receipt of the slot: no two callers are told different outcomes.*)
ReturnedIsDurable ==
    \A p \in Callers : call[p].returned # None =>
        call[p].returned = Resolved("receipt")

(* Once the slot is concluded (a resumed claim may do so while the first   *)
(* call still runs) no caller passes on to the adapter.                    *)
ConcludedStaysClosed ==
    [][\A p \in Callers :
        ~At(p, "Adapter") /\ At(p, "Adapter")' => Resolved("receipt") = None]_vars

(* No receipt can be committed: a commit killed before COMMIT_INTENT left  *)
(* its journal under the transaction that the receipt's must name at this  *)
(* revision, or current.json lags behind the committed State.              *)
Obstructed == <<"receipt", Revision>> \in leftover \/ ~Loadable

(* Judgment call 17: an orphaned attempt is "never a perpetual             *)
(* ExecutionReconciliationRequiredError": once nothing fails any more, its *)
(* own claim's next call concludes it, and the one way that it does not is *)
(* a Store that stays obstructed, whatever dies before and wherever.       *)
AttemptResolves ==
    <>[][\A p \in Callers : Fail(p) => Proceed(p)]_vars =>
        \/ Resolved("attempt") # None ~> Resolved("receipt") # None
        \/ <>[]Obstructed
=============================================================================
