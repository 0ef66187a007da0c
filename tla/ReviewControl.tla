---------------------------- MODULE ReviewControl ----------------------------
(***************************************************************************)
(* development_binding: the ledger of bounded reviews (review_control), a  *)
(* JSON file every operation replaces under an exclusive flock, and those  *)
(* who use it: launches of a review, the operator's commands, and the      *)
(* route that reuses a review GitHub already has.                          *)
(*                                                                         *)
(* An operation on the ledger is one step: it reads and replaces the file  *)
(* inside the lock, and dies before the replacement or after it.  Between  *)
(* two operations a launch may die for good; its process lives on.  In src *)
(* a launch gives its claim back before it sends; the operations that      *)
(* follow a send are used in the order their documentation gives.          *)
(***************************************************************************)
EXTENDS Naturals, Sequences, FiniteSets

CONSTANTS
    ReviewIds,      \* identity keys: pull request, base, head, requirement
    Launchers,      \* processes that launch reviews
    Pids,
    MaxPerDay,      \* max_launches_per_jst_day
    LastDay,        \* bound: days
    Checks,         \* categories of checks a grant may permit
    ReviewGrants,   \* grants of a native reuse
    Results,        \* what a launch may print, and how it may end
    Reviews,        \* what GitHub may show of the one native review
    MaxReviewEdits, \* bound: edits of it
    NoReview

(* A compute_identity_key is not the absence of one; no process that is not *)
(* a review counts as one.  A pid is given where there is a process.       *)
ASSUME ReviewAssumption ==
    /\ IsFiniteSet(ReviewIds)
    /\ "other" \notin ReviewIds
    /\ NoReview \notin ReviewIds \cup Pids \cup {"other"}

(* The ceiling is a whole number; the first day is day 1.                  *)
ASSUME CeilingAssumption == MaxPerDay \in Nat /\ LastDay \in Nat \ {0}

(* collect_review_process_result tells apart exactly these ends.           *)
ASSUME ResultsAssumption ==
    \A r \in Results : r.ended \in {"timed out", "failed", "truncated", "whole"}

VARIABLES
    control,    \* the ledger
    launch,     \* launcher -> its launch under way
    process,    \* pid -> the review, or other program, that runs under it
    sent,       \* review -> processes ever started for it
    cancel,     \* the operator's cancellation under way
    today,      \* the day in Japan
    native,     \* the native reuse under way
    review,     \* what GitHub shows, and how often it was edited
    told        \* the last answer handed to Evidence

reviewVars == <<control, launch, process, sent, cancel, today, native, review,
                told>>

(***************************************************************************)
(* The ledger.                                                             *)
(***************************************************************************)
Unclaimed == [status |-> "NONE", day |-> 0, pid |-> NoReview, cancelled |-> FALSE]

(* _default_ledger. *)
DefaultLedger ==
    [claims |-> [i \in ReviewIds |-> Unclaimed],
     days |-> [d \in 1..LastDay |-> 0],
     active |-> NoReview, imports |-> {}]

Status(i) == control.claims[i].status
Sent(i) == Status(i) \in {"DISPATCHED", "ACK_UNKNOWN"}
Released(i) == IF control.active = i THEN NoReview ELSE control.active

\* Seeded fault: a claim nobody acknowledged may be made again.
RenewsUnknown(i, day) ==
    /\ Status(i) \in {"NONE", "ACK_UNKNOWN"}
    /\ control.active \in {NoReview, i}
    /\ control.days[day] < MaxPerDay
\* Seeded fault: the slot of a claim nobody acknowledged is free.
TakesUnknown(i, day) ==
    /\ Status(i) = "NONE"
    /\ control.active # NoReview => Status(control.active) = "ACK_UNKNOWN"
    /\ control.days[day] < MaxPerDay
(* claim_review_launch: no reason to refuse. *)
ClaimAdmitted(i, day) ==
    /\ Status(i) = "NONE"
    /\ control.active \in {NoReview, i}
    /\ control.days[day] < MaxPerDay

ClaimReview(i, day) ==
    control' = [control EXCEPT
        !.claims[i] = [Unclaimed EXCEPT !.status = "CLAIMED", !.day = day],
        !.days[day] = @ + 1, !.active = i]

(* record_dispatch_attempt, of a claim that is CLAIMED. *)
RecordDispatchAttempt(i, acknowledged) ==
    control' = [control EXCEPT !.claims[i].status =
                    IF acknowledged THEN "DISPATCHED" ELSE "ACK_UNKNOWN"]

(* confirm_dispatch_sent, of a claim that is ACK_UNKNOWN. *)
ConfirmDispatchSent(i, pid) ==
    control' = [control EXCEPT !.claims[i].status = "DISPATCHED",
                               !.claims[i].pid = pid]

(* record_review_outcome, of a claim that was sent. *)
RecordReviewOutcome(i, status) ==
    control' = [control EXCEPT !.claims[i].status = status,
                               !.active = Released(i)]

(* record_local_cancellation_confirmed: the slot is kept. *)
RecordLocalCancellation(i) ==
    control' = [control EXCEPT !.claims[i].cancelled = TRUE]

\* Seeded fault: the launch that was not made is given back to the day.
RefundsLaunch(i) ==
    control' = [control EXCEPT !.claims[i].status = "ABANDONED_UNSENT",
                               !.days[control.claims[i].day] = @ - 1,
                               !.active = Released(i)]
(* release_unsent_claim, of a claim that is CLAIMED. *)
ReleaseUnsentClaim(i) ==
    control' = [control EXCEPT !.claims[i].status = "ABANDONED_UNSENT",
                               !.active = Released(i)]

(***************************************************************************)
(* What a review says, as the Evidence layer is told.                      *)
(***************************************************************************)
(* A finding is [check, status, procedure, blocking]; a status is absent   *)
(* (NoReview) in a native review only.                                     *)
Statuses(r) == {r.findings[k].status : k \in DOMAIN r.findings}
SomeFailed(r) == "FAIL" \in Statuses(r)
SomeBlocking(r) == \E k \in DOMAIN r.findings : r.findings[k].blocking

(* A check some finding reports on. *)
ObservedStatus(r, check) ==
    \E k \in DOMAIN r.findings :
        r.findings[k].check = check /\ r.findings[k].status \in {"PASS", "FAIL"}
Covers(r, checks) == \A c \in checks : ObservedStatus(r, c)

(* classify_native_review_result. *)
ClassifyNative(r, checks) ==
    CASE r.state \in {"PENDING", "DISMISSED"} -> "UNAVAILABLE"
      [] r.state = "CHANGES_REQUESTED" -> "FAILED"
      [] r.state # "APPROVED" -> "INSUFFICIENT"
      [] ~(Statuses(r) \subseteq {"PASS", "FAIL", NoReview}) -> "INSUFFICIENT"
      [] SomeFailed(r) \/ SomeBlocking(r) -> "FAILED"
      [] ~Covers(r, checks) -> "INSUFFICIENT"
      [] OTHER -> "VERIFIED"

(* A finding of a launch that says nothing of how, or passes what blocks.  *)
UnusableFinding(f) ==
    f.status \notin {"PASS", "FAIL"} \/ ~f.procedure \/ (f.blocking /\ f.status = "PASS")

(* classify_review_result: what the process printed last, if it ended by   *)
(* itself, whole, on exactly the paths and the input of the grant.         *)
ClassifyLaunch(r, checks) ==
    CASE r.ended = "timed out" -> "INSUFFICIENT"
      [] r.ended = "failed" -> "FAILED"
      [] r.ended = "truncated" -> "INSUFFICIENT"
      [] r.state = "UNAVAILABLE" -> "UNAVAILABLE"
      [] ~r.inScope -> "INSUFFICIENT"
      [] r.state = "FAILED" -> "FAILED"
      [] r.state # "COMPLETED" \/ ~r.sameInput -> "INSUFFICIENT"
      [] \E k \in DOMAIN r.findings : UnusableFinding(r.findings[k]) -> "INSUFFICIENT"
      [] ~Covers(r, checks) -> "INSUFFICIENT"
      [] SomeFailed(r) \/ SomeBlocking(r) -> "FAILED"
      [] OTHER -> "VERIFIED"

(***************************************************************************)
(* A launch.                                                               *)
(***************************************************************************)
NoNative == [pc |-> "idle"]
NoLaunch == [pc |-> "idle", review |-> NoReview, day |-> 0, pid |-> NoReview]

Launch(l, r) == launch' = [launch EXCEPT ![l] = r]
Goes(l, pc) == Launch(l, [launch[l] EXCEPT !.pc = pc])
Others == UNCHANGED <<today, native, review, told>>

(* compose_bounded_technical_review_dispatch, and the command claim: the   *)
(* grant, the activation gate and the human's signature hold at the        *)
(* caller's now, whose day the claim is counted on.                        *)
StartLaunch(l) ==
    /\ launch[l].pc = "idle"
    /\ \E i \in ReviewIds :
          Launch(l, [NoLaunch EXCEPT !.pc = "admitted", !.review = i,
                                     !.day = today])
    /\ UNCHANGED <<control, process, sent, cancel>> /\ Others

TakeClaim(l) ==
    /\ launch[l].pc = "admitted"
    /\ IF ClaimAdmitted(launch[l].review, launch[l].day)
       THEN ClaimReview(launch[l].review, launch[l].day) /\ Goes(l, "claimed")
       ELSE Launch(l, NoLaunch) /\ UNCHANGED control
    /\ UNCHANGED <<process, sent, cancel>> /\ Others

(* The staged input is not the one of the grant, or, in src always, the    *)
(* filesystem boundary is incomplete.                                      *)
ReleaseClaim(l) ==
    /\ launch[l].pc = "claimed"
    /\ IF Status(launch[l].review) = "CLAIMED"
       THEN ReleaseUnsentClaim(launch[l].review) ELSE UNCHANGED control
    /\ Launch(l, NoLaunch)
    /\ UNCHANGED <<process, sent, cancel>> /\ Others

Mark(l) ==
    /\ launch[l].pc = "claimed"
    /\ IF Status(launch[l].review) = "CLAIMED"
       THEN RecordDispatchAttempt(launch[l].review, FALSE) /\ Goes(l, "marked")
       ELSE Launch(l, NoLaunch) /\ UNCHANGED control
    /\ UNCHANGED <<process, sent, cancel>> /\ Others

(* The send; src refuses it (spawn_review_process). *)
Spawn(l) ==
    /\ launch[l].pc = "marked"
    /\ \E p \in Pids :
          /\ process[p] = NoReview
          /\ process' = [process EXCEPT ![p] = launch[l].review]
          /\ Launch(l, [launch[l] EXCEPT !.pc = "spawned", !.pid = p])
    /\ sent' = [sent EXCEPT ![launch[l].review] = @ + 1]
    /\ UNCHANGED <<control, cancel>> /\ Others

Confirm(l) ==
    /\ launch[l].pc = "spawned"
    /\ IF Status(launch[l].review) = "ACK_UNKNOWN"
       THEN /\ ConfirmDispatchSent(launch[l].review, launch[l].pid)
            /\ Goes(l, "confirmed")
       ELSE Launch(l, NoLaunch) /\ UNCHANGED control
    /\ UNCHANGED <<process, sent, cancel>> /\ Others

(* collect_review_process_result: the process ends, or is killed when its  *)
(* time is up, and is reaped; what it said is classified and handed on.    *)
Collect(l) ==
    /\ launch[l].pc = "confirmed"
    /\ process' = [process EXCEPT ![launch[l].pid] =
                      IF @ = launch[l].review THEN NoReview ELSE @]
    /\ \E r \in Results :
          told' = [pc |-> "answered", grant |-> [checks |-> Checks],
                       seen |-> r, class |-> ClassifyLaunch(r, Checks)]
    /\ Goes(l, "collected")
    /\ UNCHANGED <<control, sent, cancel, today, native, review>>

RecordOutcome(l) ==
    /\ launch[l].pc = "collected"
    /\ IF Sent(launch[l].review)
       THEN \E s \in {"COMPLETED", "FAILED"} :
               RecordReviewOutcome(launch[l].review, s)
       ELSE UNCHANGED control
    /\ Launch(l, NoLaunch)
    /\ told' = NoNative
    /\ UNCHANGED <<process, sent, cancel, today, native, review>>

LauncherDies(l) ==
    /\ launch[l].pc # "idle"
    /\ Launch(l, NoLaunch)
    /\ UNCHANGED <<control, process, sent, cancel>> /\ Others

(***************************************************************************)
(* The operator.                                                           *)
(***************************************************************************)
NoCancel == [pc |-> "idle", review |-> NoReview, pid |-> NoReview]

(* record-dispatch, of any claim still CLAIMED, whoever made it. *)
CmdRecordDispatch ==
    /\ \E i \in ReviewIds, acknowledged \in BOOLEAN :
          Status(i) = "CLAIMED" /\ RecordDispatchAttempt(i, acknowledged)
    /\ UNCHANGED <<launch, process, sent, cancel>> /\ Others

(* compose_bounded_technical_review_cancellation: the pid and token of a   *)
(* claim that was sent are the ones the operator gives.                    *)
CmdCancel ==
    /\ cancel.pc = "idle"
    /\ \E i \in ReviewIds :
          /\ Sent(i) /\ control.claims[i].pid # NoReview
          /\ cancel' = [pc |-> "bound", review |-> i,
                        pid |-> control.claims[i].pid]
    /\ UNCHANGED <<control, launch, process, sent>> /\ Others

(* process_identity_token: the process that has the pid now is the one the *)
(* claim names.                                                            *)
CheckToken ==
    /\ cancel.pc = "bound"
    /\ cancel' = IF process[cancel.pid] = cancel.review
                 THEN [cancel EXCEPT !.pc = "owned"] ELSE NoCancel
    /\ UNCHANGED <<control, launch, process, sent>> /\ Others

(* os.getpgid, os.killpg. *)
KillGroup ==
    /\ cancel.pc = "owned"
    /\ process' = [process EXCEPT ![cancel.pid] = NoReview]
    /\ cancel' = [cancel EXCEPT !.pc = "killed"]
    /\ UNCHANGED <<control, launch, sent>> /\ Others

\* Seeded fault: the cancellation is recorded once ownership is confirmed.
RecordsOwned == cancel.pc = "owned"
Terminated == cancel.pc = "killed"

(* The group is confirmed gone in time, or it is not. *)
RecordCancelled ==
    /\ Terminated
    /\ \/ Sent(cancel.review) /\ RecordLocalCancellation(cancel.review)
       \/ UNCHANGED control
    /\ cancel' = NoCancel
    /\ UNCHANGED <<launch, process, sent>> /\ Others

(* A process nobody waits for ends; its pid is used again by another. *)
ProcessEnds(p) ==
    /\ process[p] # NoReview
    /\ \A l \in Launchers : launch[l].pid = p => launch[l].review # process[p]
    /\ process' = [process EXCEPT ![p] = NoReview]
    /\ UNCHANGED <<control, launch, sent, cancel>> /\ Others

OtherStarts(p) ==
    /\ process[p] = NoReview
    /\ process' = [process EXCEPT ![p] = "other"]
    /\ UNCHANGED <<control, launch, sent, cancel>> /\ Others

NextDay ==
    /\ today < LastDay
    /\ today' = today + 1
    /\ UNCHANGED <<control, launch, process, sent, cancel, native, review,
                   told>>

(***************************************************************************)
(* compose_bounded_technical_review_native_reuse_dispatch.                 *)
(***************************************************************************)
(* evaluate_review_selection: the grant is well formed, reads back as the  *)
(* comment that ratifies it, is for the present work unit, base and head,  *)
(* and is in time and not revoked.                                         *)
WellFormed(g) == g.wellFormed
ReadsBack(g) == g.restated
InScope(g) == g.scope = "current"
InTime(g) == g.inForce
SelectionAdmitted(g) == WellFormed(g) /\ ReadsBack(g) /\ InScope(g) /\ InTime(g)

(* permitted_boundary, with compute_launch_envelope_digest. *)
SignedGate(g) == [review |-> g.review, checks |-> g.checks]

(* authenticate_bounded_review_grant: the human signed this envelope. *)
Authenticated(g) == g.signed = SignedGate(g)

(* compute_identity_key: not the checks, not the work unit. *)
IdentityKey(g) == g.review

(* validate_native_review_evidence. *)
ValidEvidence(r) == r.valid

(* fetch_trusted_native_review_evidence: of the review asked for, from its *)
(* page, by the reviewer of the grant.                                     *)
Provenance(r) == ValidEvidence(r) /\ r.provenance

(* Fetched neither after the caller's now nor long before it. *)
FreshFetch(r) == r.fresh

(* evaluate_native_review_relevance: of exactly the head, base and paths.  *)
Relevant(r) == r.relevant

\* Seeded fault: the address of a review is its id, whatever it says now.
AddressOfId(r, i) == [review |-> i]
(* native_review_content_address: what the review says, and the request it *)
(* is reused for, but not the checks of the grant.                         *)
ContentAddress(r, i) ==
    [state |-> r.state, findings |-> r.findings, review |-> i]

NativeOnly == UNCHANGED <<launch, process, sent, cancel, today>>

(* What GitHub shows is fetched, of an admitted and authenticated grant.   *)
FetchNative ==
    /\ native.pc = "idle"
    /\ \E g \in ReviewGrants :
          /\ SelectionAdmitted(g) /\ Authenticated(g)
          /\ Provenance(review.shown) /\ FreshFetch(review.shown)
          /\ Relevant(review.shown)
          /\ native' = [pc |-> "fetched", grant |-> g, seen |-> review.shown]
    /\ UNCHANGED <<control, review, told>> /\ NativeOnly

Imported(address) == {m \in control.imports : m.address = address}

(* read_native_review_import: a review imported before keeps its class.    *)
ReadImport ==
    /\ native.pc = "fetched"
    /\ LET found == Imported(ContentAddress(native.seen, IdentityKey(native.grant))) IN
       native' = [pc |-> IF found = {} THEN "classified" ELSE "answered",
                  grant |-> native.grant, seen |-> native.seen,
                  class |-> IF found = {}
                            THEN ClassifyNative(native.seen, native.grant.checks)
                            ELSE (CHOOSE m \in found : TRUE).class]
    /\ UNCHANGED <<control, review, told>> /\ NativeOnly

(* record_native_review_import: an import of the address is kept as it is. *)
RecordImport ==
    /\ native.pc = "classified"
    /\ LET address == ContentAddress(native.seen, IdentityKey(native.grant)) IN
       control' = IF Imported(address) # {} THEN control ELSE
           [control EXCEPT !.imports =
               @ \cup {[address |-> address, class |-> native.class]}]
    /\ native' = [native EXCEPT !.pc = "answered"]
    /\ UNCHANGED <<review, told>> /\ NativeOnly

(* _hand_off_to_evidence, to the requirement and boundary of this grant,   *)
(* or the answer is not handed on; the caller may die before either.       *)
HandOffNative ==
    /\ native.pc = "answered"
    /\ told' = native
    /\ native' = NoNative
    /\ UNCHANGED <<control, review>> /\ NativeOnly

NativeCallerDies ==
    /\ native.pc # "idle"
    /\ native' = NoNative
    /\ UNCHANGED <<control, review, told>> /\ NativeOnly

(* GitHub: the reviewer edits the review, or the branch moves on. *)
ReviewEdited ==
    /\ review.edits < MaxReviewEdits
    /\ \E r \in Reviews \ {review.shown} :
          review' = [shown |-> r, edits |-> review.edits + 1]
    /\ UNCHANGED <<control, native, told>> /\ NativeOnly

-----------------------------------------------------------------------------

ReviewInit ==
    /\ control = DefaultLedger
    /\ launch = [l \in Launchers |-> NoLaunch]
    /\ process = [p \in Pids |-> NoReview]
    /\ sent = [i \in ReviewIds |-> 0]
    /\ cancel = NoCancel
    /\ today = 1
    /\ native = NoNative
    /\ review \in [shown : Reviews, edits : {0}]
    /\ told = NoNative

LaunchesNext ==
    \/ \E l \in Launchers :
          \/ StartLaunch(l) \/ TakeClaim(l) \/ ReleaseClaim(l) \/ Mark(l) \/ Spawn(l)
          \/ Confirm(l) \/ Collect(l) \/ RecordOutcome(l) \/ LauncherDies(l)
    \/ CmdRecordDispatch \/ CmdCancel \/ CheckToken \/ KillGroup
    \/ RecordCancelled \/ NextDay
    \/ \E p \in Pids : ProcessEnds(p) \/ OtherStarts(p)

NativeNext ==
    \/ FetchNative \/ ReadImport \/ RecordImport \/ HandOffNative
    \/ NativeCallerDies \/ ReviewEdited

-----------------------------------------------------------------------------
(* What the ledger promises. *)

Runs(i) == \E p \in Pids : process[p] = i

(* A review is sent at most once, whoever dies between the claim, the send *)
(* and its confirmation, and whoever starts again.                         *)
SentOnce == \A i \in ReviewIds : sent[i] <= 1

(* While the process of a review runs, orphaned or not, its claim holds    *)
(* the one slot of the repository.                                         *)
SlotCoversLive == \A i \in ReviewIds : Runs(i) => control.active = i

(* No day has more claims than its ceiling, the abandoned ones and those   *)
(* made with yesterday's now included.                                     *)
DailyCeiling ==
    \A d \in 1..LastDay :
        Cardinality({i \in ReviewIds : control.claims[i].day = d}) <= MaxPerDay

(* A cancellation that is recorded is of a review that no longer runs,     *)
(* though its pid may by then be another program's.                        *)
CancelledIsDead ==
    \A i \in ReviewIds : control.claims[i].cancelled => ~Runs(i)

(* Evidence that calls a review verified rests on one that was approved,   *)
(* or completed, with every status it reports a PASS and nothing blocking, *)
(* when it was fetched for this answer: what the same review said before,  *)
(* and was imported as, does not count.                                    *)
VerifiedIsClean ==
    told.pc = "answered" /\ told.class = "VERIFIED" =>
        /\ told.seen.state \in {"APPROVED", "COMPLETED"}
        /\ told.seen.state = "COMPLETED" => told.seen.ended = "whole"
        /\ \A k \in DOMAIN told.seen.findings :
              /\ told.seen.findings[k].status # "FAIL"
              /\ ~told.seen.findings[k].blocking

(* What the claims of the ledger promise of the reviews that were launched, *)
(* and what is then told of one as verified evidence.                       *)
LaunchesSound ==
    SentOnce /\ SlotCoversLive /\ DailyCeiling /\ CancelledIsDead /\ VerifiedIsClean
=============================================================================
