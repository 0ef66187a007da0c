--------------------------- MODULE TransitionChain ---------------------------
(***************************************************************************)
(* runtime/transition_chain.py and the two registries on it: records that  *)
(* a Human Authority signed elsewhere are admitted to a chain, one for the *)
(* runtime root admission and one for the deployment declaration.  The     *)
(* semantic State holds the id of the current record of each chain; a      *)
(* commit stores the record and moves the pointer in one transaction.      *)
(*                                                                         *)
(* Committers run beside each other and beside every other writer of the   *)
(* State.  A commit decides on a State it loaded and swaps on it later.    *)
(***************************************************************************)
EXTENDS CommittedRecords

CONSTANTS
    Committers,     \* calls of commit_chain_transition under way
    Issued,         \* the records presented to them
    NoId,           \* a chain with no current record, a record with none before
    MaxRetries      \* MAX_COMMIT_RETRIES

Chains == {"admission", "deployment"}

ASSUME IssuedAssumption ==
    \A r \in Issued : r.chain \in Chains /\ r.generation \in Nat
ASSUME StatusAssumption == \A r \in Issued : r.status \in {"ACTIVE", "REVOKED"}
ASSUME RetriesAssumption == MaxRetries \in Nat \ {0}

VARIABLE committer  \* each call: the record, the State it decided on, retries

chainVars == <<committer>>

NoCommit == [record |-> NoId]

-----------------------------------------------------------------------------

(* current_chain_record_id, of a State. *)
HeadOf(state, chain) == state.content[chain]

(* The record as it is stored, under an id that covers all of its content  *)
(* but the signature.                                                      *)
ChainKey(id) == [kind |-> "chain_record", id |-> id]
Stored(r) == Record(ChainKey(r.id), r)
Resolved(id) == Body(ChainKey(id))

(* require_self_consistent_record: the identity, the fingerprint and the   *)
(* shape of what was presented.                                            *)
SelfConsistent(r) == r.consistent

(* The verify of each registry: a signature over the record by the trust   *)
(* anchor of the deployment, or by the Human Authority of the Binding.     *)
AdmissionVerified(r) == r.signed = "anchor"
DeclarationVerified(r) == r.signed = "human" /\ r.from <= r.until

Verified(r) ==
    \/ r.chain = "admission" /\ AdmissionVerified(r)
    \/ r.chain = "deployment" /\ DeclarationVerified(r)

Genesis(r) ==
    r.generation = 0 /\ r.predecessor = NoId /\ r.status = "ACTIVE"

Successor(r, current) ==
    /\ r.predecessor = current.id
    /\ r.generation = current.generation + 1

(* require_legal_transition. *)
LegalTransition(r, state) ==
    LET id == HeadOf(state, r.chain) IN
    IF id = NoId THEN Genesis(r)
    ELSE Resolved(id).status # "REVOKED" /\ Successor(r, Resolved(id))

(* _next_semantic_state. *)
Pointed(content, r) == [content EXCEPT ![r.chain] = r.id]

(* One transaction: the record and the State that points at it. *)
Admit(r) ==
    /\ Revision < MaxRevision
    /\ ~Conflicts({Stored(r)})
    /\ records' = records \cup {Stored(r)}
    /\ history' = Append(history, Pointed(history[Revision], r))

-----------------------------------------------------------------------------
(* commit_chain_transition. *)

(* A record that is current already is a replay and commits nothing. *)
Decidable(r) ==
    /\ HeadOf(Snapshot, r.chain) # r.id
    /\ Verified(r) /\ LegalTransition(r, Snapshot)

Decides(c, r, retries) ==
    committer' = [committer EXCEPT
       ![c] = [record |-> r, base |-> Snapshot, retries |-> retries]]

(* A call whose record is a replay, or not consistent, verified and legal, *)
(* ends here and changes nothing.                                          *)
BeginTransition(c) ==
    /\ committer[c] = NoCommit
    /\ \E r \in Issued :
          SelfConsistent(r) /\ Decidable(r) /\ Decides(c, r, MaxRetries)
    /\ UNCHANGED storeVars

(* The id of a record that is not current cannot be taken by another body: *)
(* RecordConflictError has no step here.                                   *)
SwapTransition(c) ==
    /\ committer[c] # NoCommit
    /\ committer[c].base.revision = Revision
    /\ Admit(committer[c].record)
    /\ committer' = [committer EXCEPT ![c] = NoCommit]

Stale(c) == committer[c] # NoCommit /\ committer[c].base.revision # Revision

\* Seeded fault: a retry takes the new State for the one it decided on.
KeepsDeciding(c) ==
    /\ Stale(c)
    /\ committer' = [committer EXCEPT ![c].base = Snapshot]
    /\ UNCHANGED storeVars
(* StaleStateError: the whole transition is evaluated again, and the call  *)
(* ends when it is refused, a replay by now, or out of retries.            *)
RetryTransition(c) ==
    LET held == committer[c] IN
    /\ Stale(c)
    /\ \/ /\ held.retries > 1 /\ Decidable(held.record)
          /\ Decides(c, held.record, held.retries - 1)
       \/ /\ held.retries = 1 \/ ~Decidable(held.record)
          /\ committer' = [committer EXCEPT ![c] = NoCommit]
    /\ UNCHANGED storeVars

ChainNext ==
    \E c \in Committers :
       \/ BeginTransition(c) \/ SwapTransition(c) \/ RetryTransition(c)

ChainInit == committer = [c \in Committers |-> NoCommit]

-----------------------------------------------------------------------------

(* A chain starts with an active record of generation 0 and is only ever   *)
(* advanced to a verified record that names the one it follows, never past *)
(* a revocation and never back (P15-R5: an already issued declaration must *)
(* not un-revoke the target), whoever committed what in between.           *)
HeadsAdvanceLegally ==
    \A chain \in Chains : \A i \in 2..Revision :
       LET was == history[i - 1][chain]
           is == history[i][chain] IN
       \/ is = was
       \/ /\ Committed(ChainKey(is)) /\ Verified(Resolved(is))
          /\ \/ was = NoId /\ Genesis(Resolved(is))
             \/ /\ was # NoId /\ Resolved(was).status = "ACTIVE"
                /\ Successor(Resolved(is), Resolved(was))
=============================================================================
