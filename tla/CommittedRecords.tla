-------------------------- MODULE CommittedRecords --------------------------
(***************************************************************************)
(* What the routes above the Store see of it: the current State, as its    *)
(* revision and semantic content, and the immutable records committed so   *)
(* far.  Every route persists its records by the same loop: load the       *)
(* State, build the next one with the same content, compare and swap, and  *)
(* try again a few times when another writer came first.  The whole loop   *)
(* is one step here, as nothing a route decided depends on the revision    *)
(* it commits at; FileStateStore shows that the swap is atomic.            *)
(*                                                                         *)
(* A Project Binding is an immutable record under a given id and no route  *)
(* changes the objective of a State, so the authority context that the     *)
(* routes read again before each attempt is a constant and not modelled.   *)
(***************************************************************************)
EXTENDS Naturals, Sequences, FiniteSets

CONSTANTS
    Contents,       \* semantic contents of the State: its fingerprints
    MaxRevision     \* bound: revisions the Store reaches

ASSUME ContentsAssumption == Contents # {}
ASSUME MaxRevisionAssumption == MaxRevision \in Nat \ {0}

VARIABLES
    history,        \* the content of the State at each revision so far
    records         \* a set of [key, body]

storeVars == <<history, records>>

-----------------------------------------------------------------------------

Revision == Len(history)

(* start_temporary_agent, _contract_snapshot: what an agent holds of the   *)
(* State it was booted on.                                                 *)
Snapshot == [revision |-> Revision, content |-> history[Revision]]

(* resolve_record and the check that the body has the identity it is       *)
(* stored under: a committed body, as records are never removed.           *)
Committed(key) == \E r \in records : r.key = key
Body(key) == (CHOOSE r \in records : r.key = key).body

Record(key, body) == [key |-> key, body |-> body]

\* Seeded fault: a transaction replaces what is stored under its keys.
NeverConflicts(new) == FALSE
(* RecordConflictError: another body under one of the keys. *)
Conflicts(new) ==
    \E r \in new, s \in records : r.key = s.key /\ r.body # s.body

(* _commit: all the records in one transaction, the content carried over.  *)
CommitRecords(new) ==
    /\ Revision < MaxRevision
    /\ ~Conflicts(new)
    /\ records' = {r \in records : \A n \in new : r.key # n.key} \cup new
    /\ history' = Append(history, history[Revision])

(* A conflict, contention that outlasts every attempt, or a Store that     *)
(* refuses: the route raises and nothing is committed.                     *)
CommitRaises == UNCHANGED storeVars

(* Any other writer of the project: a Reflow transition.                   *)
Transition(c) ==
    /\ Revision < MaxRevision
    /\ history' = Append(history, c)
    /\ UNCHANGED records

StoreInit == records = {} /\ \E c \in Contents : history = <<c>>
=============================================================================
