-------------------------- MODULE FallbackController --------------------------
(***************************************************************************)
(* The bounded fallback from GitHub Actions to an unattended SSH probe:    *)
(* resolve_bounded_actions_fallback of runtime/transport_control.py and    *)
(* the invocations of run-controller (scripts/                             *)
(* runtime_observation_transport.py) that act on it.                       *)
(*                                                                         *)
(* An invocation loads the claims file, polls the status that a separate   *)
(* process publishes, may observe the target itself, and saves the claims  *)
(* it loaded with its own operation added.  Nothing locks the file; a      *)
(* crash may leave it truncated.                                           *)
(***************************************************************************)
EXTENDS RuntimeObservation

CONSTANTS
    Operations,     \* operation ids
    Deadline,       \* start_deadline_seconds
    MaxPolls,
    MaxStaleness,   \* of a published status
    MaxRuns,        \* bound: invocations
    MaxCrashes      \* bound: crashes of an invocation

ASSUME DeadlineAssumption == Deadline \in Nat

VARIABLES
    controller,     \* each invocation; its observation is observer's
    claims,         \* the claims file: operations, or Torn
    published,      \* the status file
    executions,     \* envelopes committed for each operation
    runs, crashes

controllerVars ==
    <<controller, claims, published, executions, runs, crashes>>

Idle == [pc |-> "idle"]
Torn == {NoId}

-----------------------------------------------------------------------------

(* classify_actions_dispatch. *)
ClassifiedDispatch(dispatched, allocated, late) ==
    IF allocated THEN "AVAILABLE"
    ELSE IF ~dispatched \/ late THEN "UNAVAILABLE" ELSE "UNKNOWN"

(* Another process publishes what it knows of one dispatch. *)
Publish ==
    /\ \E op \in Operations, d \in BOOLEAN, a \in BOOLEAN, l \in BOOLEAN :
          published' = [op |-> op, at |-> clock,
                        status |-> ClassifiedDispatch(d, a, l)]
    /\ published' # published
    /\ UNCHANGED <<controller, claims, executions, runs, crashes,
                   observationVars, storeVars>>

(* _dispatch_status_file_provider: no file, a status of another operation  *)
(* or a stale one says nothing.                                            *)
Provided(op) ==
    IF /\ published # NoId /\ published.op = op
       /\ clock - published.at <= MaxStaleness
    THEN published.status ELSE "UNKNOWN"

(* _load_claim_state: a file that does not parse ends the invocation. *)
Loaded == claims # Torn

(* The boundary of an invocation is made from its grant. *)
BoundaryFrom(g) ==
    CHOOSE b \in Boundaries :
       /\ b.from = g.from /\ b.until = g.until /\ b.redaction = g.redaction
       /\ b.permitted \subseteq g.permitted /\ b.timeout <= g.timeout
       /\ b.scoped

-----------------------------------------------------------------------------
(* _cmd_run_controller.                                                    *)

Invoke(k) ==
    /\ controller[k] = Idle /\ observer[k] = NoObservation
    /\ runs < MaxRuns /\ Loaded
    /\ \E op \in Operations, g \in RunGrants :
          /\ op \notin claims                  \* else ALREADY_SATISFIED
          /\ controller' = [controller EXCEPT ![k] =
                [pc |-> "polling", op |-> op, grant |-> g, claims |-> claims,
                 start |-> clock, polls |-> 0, status |-> "UNKNOWN"]]
    /\ runs' = runs + 1
    /\ UNCHANGED <<claims, published, executions, crashes,
                   observationVars, storeVars>>

Elapsed(k) == clock - controller[k].start

(* One round of the loop of resolve_bounded_actions_fallback. *)
Poll(k) ==
    LET run == controller[k] IN
    /\ run.pc = "polling" /\ run.status = "UNKNOWN"
    /\ run.polls < MaxPolls /\ Elapsed(k) < Deadline
    /\ controller' = [controller EXCEPT ![k].polls = @ + 1,
                                        ![k].status = Provided(run.op)]
    /\ UNCHANGED <<claims, published, executions, runs, crashes,
                   observationVars, storeVars>>

LoopEnded(k) ==
    LET run == controller[k] IN
    /\ run.pc = "polling"
    /\ run.status # "UNKNOWN" \/ run.polls = MaxPolls \/ Elapsed(k) >= Deadline

\* Seeded fault: running out of polls passes for reaching the deadline.
OutOfPolls(k) == controller[k].status # "AVAILABLE"
(* Neither ACTIONS_AVAILABLE_DEFER nor DEADLINE_NOT_YET_REACHED. *)
MayFallBack(k) ==
    /\ controller[k].status # "AVAILABLE"
    /\ ~(controller[k].status = "UNKNOWN" /\ Elapsed(k) < Deadline)

(* The grant is checked at the instant the invocation was given. *)
Preauthorized(k) ==
    LET run == controller[k] IN
    /\ Permits(run.grant, "PREAUTHORIZED_UNATTENDED_SSH")
    /\ NotExpired(run.grant, run.start)

(* FALLBACK_AUTHORIZED, the adapter and observe_runtime_target ... *)
FallBack(k) ==
    LET run == controller[k] IN
    /\ LoopEnded(k) /\ MayFallBack(k) /\ Preauthorized(k)
    /\ LET b == BoundaryFrom(run.grant) IN
       /\ BoundaryAccepted(b) /\ WithinWindow(b, run.start)
       /\ \E r \in Issued :
             /\ r.chain = "deployment"
             /\ DeclarationResolved(r.id, Snapshot, run.start)
             /\ observer' = [observer EXCEPT ![k] =
                   [pc |-> "resolved", adapter |-> "ssh", grant |-> run.grant,
                    boundary |-> b, at |-> run.start, declaration |-> r.id]]
    /\ controller' = [controller EXCEPT ![k] =
          [pc |-> "observing", op |-> run.op, claims |-> run.claims,
           status |-> run.status, waited |-> Elapsed(k)]]
    /\ UNCHANGED <<claims, published, executions, runs, crashes,
                   clock, storeVars>>

(* ... or the invocation ends with another decision or an error. *)
EndsWithout(k) ==
    /\ LoopEnded(k)
    /\ controller' = [controller EXCEPT ![k] = Idle]
    /\ UNCHANGED <<claims, published, executions, runs, crashes,
                   observationVars, storeVars>>

(* observe_runtime_target raised. *)
ObservationFailed(k) ==
    /\ controller[k].pc = "observing" /\ observer[k] = NoObservation
    /\ controller' = [controller EXCEPT ![k] = Idle]
    /\ UNCHANGED <<claims, published, executions, runs, crashes,
                   observationVars, storeVars>>

\* Seeded fault: the claim is saved before the observation returned.
ClaimsFirst(k) ==
    /\ controller[k].pc = "observing"
    /\ claims' = Torn
    /\ controller' = [controller EXCEPT ![k].pc = "saving"]
    /\ UNCHANGED <<published, executions, runs, crashes,
                   observationVars, storeVars>>
(* open(..., "w") truncates the file before the claims are written. *)
Truncate(k) ==
    /\ controller[k].pc = "observing" /\ observer[k].pc = "received"
    /\ claims' = Torn
    /\ controller' = [controller EXCEPT ![k].pc = "saving"]
    /\ UNCHANGED <<published, executions, runs, crashes,
                   observationVars, storeVars>>

Save(k) ==
    LET run == controller[k] IN
    /\ run.pc = "saving"
    /\ claims' = run.claims \cup {run.op}
    /\ controller' = [controller EXCEPT ![k] = Idle]
    /\ observer' = [observer EXCEPT ![k] = NoObservation]
    /\ UNCHANGED <<published, executions, runs, crashes, clock, storeVars>>

CrashController(k) ==
    /\ controller[k] # Idle /\ crashes < MaxCrashes
    /\ crashes' = crashes + 1
    /\ controller' = [controller EXCEPT ![k] = Idle]
    /\ observer' = [observer EXCEPT ![k] = NoObservation]
    /\ UNCHANGED <<claims, published, executions, runs,
                   clock, storeVars>>

(* The steps of the observation itself. *)
Observes(k) ==
    /\ controller[k].pc = "observing"
    /\ \/ /\ Probe(k) \/ RetryEnvelope(k)
          /\ UNCHANGED executions
       \/ /\ SwapEnvelope(k)
          /\ executions' = [executions EXCEPT ![controller[k].op] = @ + 1]
    /\ UNCHANGED <<controller, claims, published, runs, crashes>>

ControllerNext ==
    \/ Tick /\ UNCHANGED controllerVars
    \/ Publish
    \/ \E k \in Observers :
          \/ Invoke(k) \/ Poll(k) \/ FallBack(k) \/ EndsWithout(k)
          \/ ObservationFailed(k) \/ Truncate(k) \/ Save(k)
          \/ CrashController(k) \/ Observes(k)

ControllerInit ==
    /\ controller = [k \in Observers |-> Idle]
    /\ claims = {} /\ published = NoId
    /\ executions = [op \in Operations |-> 0]
    /\ runs = 0 /\ crashes = 0

-----------------------------------------------------------------------------

(* An unattended probe is authorized by a status that says Actions is not  *)
(* available, or by real time reaching the deadline; a budget of polls     *)
(* that ran out is neither (transport_control.py, SR5-F1).                 *)
FallbackOnlyAfterDeadline ==
    \A k \in Observers : controller[k].pc = "observing" =>
       controller[k].status = "UNAVAILABLE" \/ controller[k].waited >= Deadline

(* An operation is claimed only once an envelope of it was committed,      *)
(* through crashes and invocations side by side.                           *)
ClaimsAreReal ==
    claims # Torn => \A op \in claims : executions[op] > 0

(* What the controller promises before its probe and of its claims.        *)
FallbackSound == FallbackOnlyAfterDeadline /\ ClaimsAreReal
=============================================================================
