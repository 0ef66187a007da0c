-------------------------- MODULE ExecutionEvidence --------------------------
(***************************************************************************)
(* change_executor/evidence_handoff.py: the receipt of an execution is     *)
(* handed off to Evidence, any time later and any number of times.  The    *)
(* hand-off reads the worktree once more, and the State after that; others *)
(* may have edited the worktree since the execution, or may in between.    *)
(* A hand-off stores nothing: its caller has the Evidence.                 *)
(*                                                                         *)
(* A receipt that is not the one committed is refused field by field, and  *)
(* so is not modelled.  The worktree is taken to be the executor's alone   *)
(* until its receipt is committed.                                         *)
(***************************************************************************)
EXTENDS ChangeExecutor

VARIABLES
    edited,     \* have others edited the operation's files since?
    reread,     \* what the hand-off under way read: the files as requested?
    handed      \* the Evidence handed over: [status, real]

evidenceVars == <<edited, reread, handed>>

(* The files are what the operation asked for. *)
AsRequested == Matched /\ ~edited

(* _OUTCOME_TO_PROVENANCE_STATUS *)
StatusOf(outcome) ==
    CASE outcome = "SUCCEEDED" -> "VERIFIED"
      [] outcome = "UNKNOWN" -> "UNAVAILABLE"
      [] outcome \in {"PARTIAL_MUTATION", "ROLLBACK_SUCCEEDED"} -> "INSUFFICIENT"
      [] OTHER -> "FAILED"

Committed == Resolved("receipt") # None

EditFiles ==
    /\ Committed /\ ~edited
    /\ edited' = TRUE
    /\ UNCHANGED <<reread, handed>>

\* Seeded fault: the receipt's own re-observation is enough.
BelievesReceipt(outcome) == TRUE
(* What the receipt says succeeded is there to be read. *)
Confirms(outcome) == outcome = "SUCCEEDED" => AsRequested

(* _second_independent_after_state_reread; a receipt it contradicts raises. *)
Reread ==
    /\ reread = None /\ Committed
    /\ Confirms(Resolved("receipt").outcome)
    /\ reread' = AsRequested
    /\ UNCHANGED <<edited, handed>>

(* The State is loaded, and the observation bound to it; it is decisive    *)
(* when it had a file to read, which an operation that succeeded has.      *)
Derive ==
    /\ reread # None
    /\ reread' = None
    /\ IF Loadable
       THEN handed' = handed \cup
               {[status |-> StatusOf(Resolved("receipt").outcome), real |-> reread]}
       ELSE UNCHANGED handed
    /\ UNCHANGED edited

HandOff == EditFiles \/ Reread \/ Derive

HandOffInit == edited = FALSE /\ reread = None /\ handed = {}

HandOffNext ==
    \/ Next /\ UNCHANGED evidenceVars
    \/ HandOff /\ UNCHANGED vars

FairHandOffSpec ==
    /\ Init /\ HandOffInit
    /\ [][HandOffNext]_<<vars, evidenceVars>>
    /\ \A p \in Callers : WF_vars(Proceed(p)) /\ SF_vars(AsksAgain(p))

-----------------------------------------------------------------------------

(* P18-R2-F1: "the executor must not manufacture the fact that promotes    *)
(* its own receipt".  Verified Evidence was made of files that were as     *)
(* requested when they were read for it, of an adapter that was called,    *)
(* although anybody may have edited them since the execution.              *)
VerifiedIsReal ==
    \A e \in handed : e.status = "VERIFIED" => e.real /\ calls = 1

(* What a concluded execution promises, in the worktree and as Evidence.   *)
OutcomesSound == SucceededIsReal /\ VerifiedIsReal
=============================================================================
