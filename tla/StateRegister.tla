--------------------------- MODULE StateRegister ---------------------------
(***************************************************************************)
(* What the State Store promises its callers: one append-only history of   *)
(* committed transitions and a set of immutable records, advanced together *)
(* by one atomic step.  A commit extends the head it was built on (compare *)
(* and swap), names a transaction once, and settles what a read of its     *)
(* records answers in the very step that publishes its event: the body, or *)
(* for ever a refusal, where an earlier transaction that died left another *)
(* body of the same record behind.  No file, journal, lock or crash is     *)
(* visible at this level; FileStateStore implements it.                    *)
(***************************************************************************)
EXTENDS Naturals, Sequences

CONSTANTS
    Tx,         \* transaction identities, the genesis one included
    Genesis,    \* TX-GENESIS
    Rec,        \* record identities, a (kind, id) pair each
    Body,       \* canonical record bodies
    Fp,         \* semantic fingerprints
    None,       \* the absent value
    Corrupt     \* a read's refusal

VARIABLES
    history,    \* the committed transitions, oldest first
    visible     \* what a public read of each record answers

regVars == <<history, visible>>

(* The head state: the revision and fingerprint the last event left. *)
Head_ == history[Len(history)]

(* An answer, be it a body or a refusal, is never replaced; an absent      *)
(* record may become visible.                                              *)
Extends(new, old) == \A r \in Rec : old[r] # None => new[r] = old[r]

RegInit ==
    /\ history = <<>>
    /\ visible = [r \in Rec |-> None]

(* FileStateStore.initialize, seen as one step. *)
Create ==
    /\ history = <<>>
    /\ \E e \in [tx : {Genesis}, to : {0}, before : {None}, fp : Fp] :
          history' = <<e>>
    /\ visible' \in [Rec -> Body \cup {None, Corrupt}]

(* FileStateStore.commit, seen as one step: the event extends the head it  *)
(* was built on, under a transaction identity that was never used.         *)
Commit ==
    /\ history # <<>>
    /\ \E t \in Tx \ {Genesis}, f \in Fp :
          /\ \A i \in DOMAIN history : history[i].tx # t
          /\ history' = Append(history,
                [tx |-> t, to |-> Head_.to + 1, before |-> Head_.fp, fp |-> f])
    /\ visible' \in [Rec -> Body \cup {None, Corrupt}]
    /\ Extends(visible', visible)

RegNext == Create \/ Commit

RegSpec == RegInit /\ [][RegNext]_regVars
=============================================================================
