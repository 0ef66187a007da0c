------------------------ MODULE IndependentVerification ------------------------
(***************************************************************************)
(* independent_verification: a run resolves the grants and declarations    *)
(* the caller refers to, evaluates the verifier's selection, resolves the  *)
(* targets that are in the Store, calls the verifier, and checks what it   *)
(* returns; the result is handed to Evidence later.  Nothing is committed. *)
(*                                                                         *)
(* Meanwhile declarations and targets are committed by others, so that a   *)
(* reference may resolve for one run and not for the one before it.        *)
(***************************************************************************)
EXTENDS CommittedRecords, GrantDecision

CONSTANTS
    Grants,         \* grants others may commit
    Declarations,   \* declarations others may commit
    Selection,      \* what the verifier is asked to verify, and where
    Targets,        \* Evidence that may be a target of it
    Sources         \* what else a verifier may have looked at

VARIABLES
    run,            \* the run under way
    handed          \* the last run's result, when it became Evidence

verificationVars == <<run, handed>>

GrantKey(g) == [kind |-> "verifier_selection_grant", grant |-> g]
DeclarationKey(d) == [kind |-> "human_grant_declaration", declaration |-> d]
TargetKey(t) == [kind |-> "observation_evidence", target |-> t]

NoRun == [pc |-> "idle", grants |-> {}, declarations |-> {}, targets |-> {},
          inputs |-> {}]

Run(r) == run' = r

(* run_independent_verification: the caller's requirement and references;  *)
(* the selection it holds says ACTIVE.                                     *)
RunVerification ==
    /\ run.pc = "idle"
    /\ \E g \in SUBSET Grants, d \in SUBSET Declarations,
          t \in SUBSET Targets :
          Run([NoRun EXCEPT !.pc = "authority", !.grants = g,
                            !.declarations = d, !.targets = t])
    /\ handed' = NoRun
    /\ UNCHANGED storeVars

(* _resolve_or_refuse. *)
Resolved ==
    /\ \A g \in run.grants : Committed(GrantKey(g))
    /\ \A d \in run.declarations : Committed(DeclarationKey(d))

(* evaluate_verifier_selection. *)
Selected == Authorizes(run.grants, run.declarations, Selection)

TargetsResolved ==
    run.targets # {} /\ \A t \in run.targets : Committed(TargetKey(t))

CheckSelection ==
    /\ run.pc = "authority"
    /\ IF Resolved /\ Selected /\ TargetsResolved
       THEN Run([run EXCEPT !.pc = "verifier"]) ELSE Run(NoRun)
    /\ UNCHANGED <<storeVars, handed>>

\* Seeded fault: any inputs will do.
AnyInputs(inputs) == inputs # {}
(* A verifier that looked at the targets only has verified nothing.        *)
InputsAccepted(inputs) == inputs # {} /\ ~(inputs \subseteq run.targets)

(* The verifier returns what it looked at, of any status, or raises. *)
VerifierReturns ==
    /\ run.pc = "verifier"
    /\ \/ \E inputs \in SUBSET (Targets \cup Sources) :
             IF InputsAccepted(inputs)
             THEN Run([run EXCEPT !.pc = "result", !.inputs = inputs])
             ELSE Run(NoRun)
       \/ Run(NoRun)
    /\ UNCHANGED <<storeVars, handed>>

(* route_verification_result_to_evidence, or the result is dropped. *)
HandOffResult ==
    /\ run.pc = "result"
    /\ \/ handed' = run
       \/ UNCHANGED handed
    /\ Run(NoRun)
    /\ UNCHANGED storeVars

(* Others declare grants (binding) and derive Evidence. *)
OthersCommit ==
    /\ \E key \in {GrantKey(g) : g \in Grants} \cup {TargetKey(x) : x \in Targets}
                   \cup {DeclarationKey(d) : d \in Declarations} :
          ~Committed(key) /\ CommitRecords({Record(key, key.kind)})
    /\ UNCHANGED verificationVars

VerificationInit == run = NoRun /\ handed = NoRun

VerificationNext ==
    \/ RunVerification \/ CheckSelection \/ VerifierReturns \/ HandOffResult
    \/ OthersCommit

-----------------------------------------------------------------------------

(* Every result that became Evidence goes back to a committed statement,   *)
(* signed by the human, active, and of exactly the selection it was made   *)
(* under; a grant that only names its declaration, or a declaration that   *)
(* says something else than its grant, is not enough.                      *)
SelectedByHuman ==
    handed # NoRun =>
        \E d \in handed.declarations :
            /\ Committed(DeclarationKey(d))
            /\ d.signed /\ d.by = Human /\ d.status = "ACTIVE"
            /\ d.content = Selection
            /\ \E g \in handed.grants : g.id = d.grant /\ g.status = "ACTIVE"

(* ... and rests on something besides what it verifies, which was in the   *)
(* Store before the verifier was called.                                   *)
VerifiedIndependently ==
    handed # NoRun =>
        /\ handed.inputs \ handed.targets # {}
        /\ \A t \in handed.targets : Committed(TargetKey(t))

(* What an admitted verification rests on: a human's selection, and        *)
(* something besides what it verifies.                                     *)
VerificationSound == SelectedByHuman /\ VerifiedIndependently
=============================================================================
