----------------------------- MODULE MCExecution -----------------------------
(* Instances for TLC of the executions of one slot and their hand-off to   *)
(* Evidence: one process alone, while others commit and hand off, or       *)
(* several processes at once, which repeat one call.                       *)
EXTENDS ExecutionEvidence

CONSTANTS First, OneToken, OneInstant

ASSUME First \in Callers /\ OneToken \in Tokens /\ OneInstant \in Instants

VARIABLE alone      \* is it only First that calls?

MCInit == Init /\ HandOffInit /\ alone \in BOOLEAN

Present == IF alone THEN {First} ELSE Callers

MCBegin(p) == IF alone THEN Begin(p) ELSE Execute(p, OneToken, OneInstant)

MCNext ==
    /\ \/ /\ \E p \in Present : MCBegin(p) \/ Proceed(p) \/ Fail(p)
          /\ UNCHANGED evidenceVars
       \/ alone /\ Others /\ UNCHANGED evidenceVars
       \/ alone /\ HandOff /\ UNCHANGED vars
    /\ UNCHANGED alone

MCSpec ==
    /\ MCInit
    /\ [][MCNext]_<<vars, evidenceVars, alone>>
    /\ \A p \in Callers :
          /\ WF_vars(p \in Present /\ Proceed(p))
          /\ SF_vars(p \in Present /\ AsksAgain(p))
=============================================================================
