--------------------------- MODULE ChainRegister ----------------------------
(***************************************************************************)
(* What the coordination ledger promises: records are published one by one *)
(* and for good, each identity once, each at the tip of its chain; and a   *)
(* caller is only ever answered with a published record.  No file, torn    *)
(* line, cache or crash is visible here; CoordinationLedger implements it. *)
(***************************************************************************)
EXTENDS ChainLog

VARIABLES
    published,  \* the records, in the order they were published
    answered    \* the records some caller was handed

regVars == <<published, answered>>

RegInit == published = <<>> /\ answered = {}

(* commit_coordination_record_at_tip of a new record, seen as one step. *)
Publish ==
    \E e \in Entry :
        /\ Match(published, e.key) = {}
        /\ TipIs(published, Len(published), e.chain, e.after)
        /\ published' = Append(published, e)
    /\ UNCHANGED answered

(* The return of a commit, of its replay or of a resolve. *)
Answer ==
    /\ \E i \in DOMAIN published : answered' = answered \cup {published[i]}
    /\ UNCHANGED published

RegNext == Publish \/ Answer

RegSpec == RegInit /\ [][RegNext]_regVars
=============================================================================
