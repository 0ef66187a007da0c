---------------------------- MODULE Runtime_proofs ----------------------------
(***************************************************************************)
(* Proofs about the runtime: RootComposition, RuntimeObservation and       *)
(* FallbackController on TransitionChain, for any issued records, grants,  *)
(* boundaries, reports, committers, requests, observers and bounds.        *)
(*                                                                         *)
(* The two chains have records that are never replaced, each under an id   *)
(* of its own, and every step of the runtime or of another writer only     *)
(* adds to the Store (Grown): what a call found of a chain at a revision   *)
(* is true of that revision as long as the call runs.                      *)
(***************************************************************************)
EXTENDS RootComposition, FallbackController, SequenceTheorems, TLAPS

-----------------------------------------------------------------------------
(* The Store, seen by the chains.                                          *)

NoHeads == [chain \in Chains |-> NoId]
HeadIds == {r.id : r \in Issued} \cup {NoId}

(* Any other writer commits a State with the same heads, and records of    *)
(* kinds that are neither chain records nor envelopes.                     *)
OtherWriter ==
    \E new :
       /\ \A n \in new :
             n.key.kind \notin {"chain_record", "runtime_observation_envelope"}
       /\ CommitRecords(new)

(* What a chain record in the Store is, that there is one under a key, and *)
(* that a head is the id of one.                                           *)
HeadsCommitted ==
    \A i \in DOMAIN history : \A chain \in Chains :
       history[i][chain] # NoId => Committed(ChainKey(history[i][chain]))

StoreOK ==
    /\ history \in Seq([Chains -> HeadIds]) /\ history # <<>>
    /\ \A s \in records :
          s.key.kind = "chain_record" => \E r \in Issued : s = Stored(r)
    /\ \A s, t \in records : s.key.kind = "chain_record" /\ s.key = t.key => s = t
    /\ HeadsCommitted

(* What every step does to the Store. *)
Grown ==
    /\ \A i \in DOMAIN history : i \in DOMAIN history' /\ history'[i] = history[i]
    /\ \A id : Committed(ChainKey(id)) =>
          Committed(ChainKey(id))' /\ Resolved(id)' = Resolved(id)

(* The one record under the key of a chain record is what is resolved. *)
LEMMA ResolvedIsStored ==
  ASSUME StoreOK, NEW s \in records, NEW id, s.key = ChainKey(id)
  PROVE  Resolved(id) = s.body
<1> DEFINE key == ChainKey(id)
           t == CHOOSE r \in records : r.key = key
<1>1. t \in records /\ t.key = key
  OBVIOUS
<1>2. s.key.kind = "chain_record"
  BY DEF ChainKey
<1>3. s = t
  BY <1>1, <1>2 DEF StoreOK
<1>4. QED
  BY <1>3 DEF Resolved, Body

(* An id that is committed resolves to the issued record of that id. *)
LEMMA ResolvedIsIssued ==
  ASSUME StoreOK, NEW id, Committed(ChainKey(id))
  PROVE  /\ Resolved(id) \in Issued /\ Resolved(id).id = id
         /\ Stored(Resolved(id)) \in records
<1>1. PICK s \in records : s.key = ChainKey(id)
  BY DEF Committed
<1>2. PICK r \in Issued : s = Stored(r)
  BY <1>1 DEF StoreOK, ChainKey
<1>3. s.body = r /\ r.id = id
  BY <1>1, <1>2 DEF Stored, Record, ChainKey
<1>4. Resolved(id) = r
  BY <1>1, <1>3, ResolvedIsStored
<1>5. QED
  BY <1>2, <1>3, <1>4

(* Records that stay, one under each key, resolve to the same. *)
LEMMA ResolvedStays ==
  ASSUME StoreOK, StoreOK', NEW id, Committed(ChainKey(id)),
         \A s \in records : s.key.kind = "chain_record" => s \in records'
  PROVE  Committed(ChainKey(id))' /\ Resolved(id)' = Resolved(id)
<1>1. PICK s \in records : s.key = ChainKey(id)
  BY DEF Committed
<1>2. s \in records'
  BY <1>1 DEF ChainKey
<1>3. Committed(ChainKey(id))'
  BY <1>1, <1>2 DEF Committed, ChainKey
<1>4. Resolved(id) = s.body
  BY <1>1, ResolvedIsStored
<1>5. Resolved(id)' = s.body
  <2> DEFINE t == CHOOSE r \in records' : r.key = ChainKey(id)
  <2>1. t \in records' /\ t.key = ChainKey(id)
    BY <1>1, <1>2
  <2>2. s = t
    BY <1>1, <1>2, <2>1 DEF StoreOK, ChainKey
  <2>3. QED
    BY <2>2 DEF Resolved, Body, ChainKey
<1>6. QED
  BY <1>3, <1>4, <1>5

(* A history that gets one State more. *)
LEMMA HistoryGrows ==
  ASSUME StoreOK, NEW c \in [Chains -> HeadIds], history' = Append(history, c)
  PROVE  /\ history' \in Seq([Chains -> HeadIds]) /\ history' # <<>>
         /\ Revision \in Nat \ {0} /\ Revision' = Revision + 1
         /\ DOMAIN history = 1..Revision /\ DOMAIN history' = 1..Revision + 1
         /\ history'[Revision + 1] = c
         /\ \A i \in DOMAIN history : i \in DOMAIN history' /\ history'[i] = history[i]
BY DEF StoreOK, Revision

LEMMA LastState ==
  ASSUME StoreOK
  PROVE  /\ Revision \in Nat \ {0} /\ DOMAIN history = 1..Revision
         /\ Revision \in DOMAIN history /\ history[Revision] \in [Chains -> HeadIds]
BY DEF StoreOK, Revision

(* A commit of records that are no chain's keeps the chains as they are. *)
LEMMA CommitGrows ==
  ASSUME StoreOK, NEW new, CommitRecords(new),
         \A n \in new : n.key.kind # "chain_record"
  PROVE  /\ StoreOK' /\ Grown
         /\ Revision' = Revision + 1 /\ history'[Revision + 1] = history[Revision]
<1>1. history' = Append(history, history[Revision])
  BY DEF CommitRecords
<1>2. /\ history' \in Seq([Chains -> HeadIds]) /\ history' # <<>>
      /\ Revision \in Nat \ {0} /\ Revision' = Revision + 1
      /\ DOMAIN history = 1..Revision /\ DOMAIN history' = 1..Revision + 1
      /\ history'[Revision + 1] = history[Revision]
      /\ \A i \in DOMAIN history : i \in DOMAIN history' /\ history'[i] = history[i]
  BY <1>1, HistoryGrows, LastState
<1>3. records' = {r \in records : \A n \in new : r.key # n.key} \cup new
  BY DEF CommitRecords
<1>4. \A s \in records : s.key.kind = "chain_record" => s \in records'
  BY <1>3
<1>5. \A s \in records' : s.key.kind = "chain_record" => s \in records
  BY <1>3
<1>6. \A s \in records' : s.key.kind = "chain_record" => \E r \in Issued : s = Stored(r)
  BY <1>5 DEF StoreOK
<1>7. \A s, t \in records' : s.key.kind = "chain_record" /\ s.key = t.key => s = t
  BY <1>5 DEF StoreOK
<1>8. \A id : Committed(ChainKey(id)) => Committed(ChainKey(id))'
  BY <1>4 DEF Committed, ChainKey
<1>9. HeadsCommitted'
  <2>1. SUFFICES ASSUME NEW i \in 1..Revision + 1, NEW chain \in Chains,
                        history'[i][chain] # NoId
                 PROVE \E s \in records' : s.key = ChainKey(history'[i][chain])
    BY <1>2 DEF HeadsCommitted, Committed, ChainKey
  <2>2. PICK j \in DOMAIN history : history'[i] = history[j]
    BY <1>2, LastState
  <2>3. PICK s \in records : s.key = ChainKey(history[j][chain])
    BY <2>1, <2>2 DEF StoreOK, HeadsCommitted, Committed
  <2>4. QED
    BY <1>4, <2>2, <2>3 DEF ChainKey
<1>10. StoreOK'
  BY <1>2, <1>6, <1>7, <1>9 DEF StoreOK, Stored, Record, ChainKey, HeadIds
<1>11. QED
  BY <1>2, <1>4, <1>10, ResolvedStays DEF Grown

(* The commit of a transition adds its record and moves its chain's head.  *)
LEMMA AdmitGrows ==
  ASSUME StoreOK, NEW r \in Issued, Admit(r)
  PROVE  /\ StoreOK' /\ Grown
         /\ Committed(ChainKey(r.id))' /\ Resolved(r.id)' = r
         /\ Revision' = Revision + 1
         /\ \A chain \in Chains :
               history'[Revision + 1][chain] =
                  IF chain = r.chain THEN r.id ELSE history[Revision][chain]
<1> DEFINE c == Pointed(history[Revision], r)
<1>1. r.chain \in Chains
  BY IssuedAssumption
<1>2. /\ c \in [Chains -> HeadIds]
      /\ \A chain \in Chains :
            c[chain] = IF chain = r.chain THEN r.id ELSE history[Revision][chain]
  <2>1. r.id \in HeadIds
    BY DEF HeadIds
  <2>2. QED
    BY <1>1, <2>1, LastState DEF Pointed
<1>3. history' = Append(history, c)
  BY DEF Admit
<1>4. /\ history' \in Seq([Chains -> HeadIds]) /\ history' # <<>>
      /\ Revision \in Nat \ {0} /\ Revision' = Revision + 1
      /\ DOMAIN history = 1..Revision /\ DOMAIN history' = 1..Revision + 1
      /\ history'[Revision + 1] = c
      /\ \A i \in DOMAIN history : i \in DOMAIN history' /\ history'[i] = history[i]
  BY <1>2, <1>3, HistoryGrows
<1>5. records' = records \cup {Stored(r)}
  BY DEF Admit
<1>6. Stored(r).key = ChainKey(r.id) /\ Stored(r).body = r
  BY DEF Stored, Record
<1>7. \A s \in records' : s.key.kind = "chain_record" => \E q \in Issued : s = Stored(q)
  BY <1>5 DEF StoreOK
<1>8. \A s \in records : s.key = ChainKey(r.id) => s = Stored(r)
  <2>1. SUFFICES ASSUME NEW s \in records, s.key = ChainKey(r.id)
                 PROVE s = Stored(r)
    OBVIOUS
  <2>2. s.body = r
    BY <1>6, <2>1 DEF Admit, Conflicts
  <2>3. PICK q \in Issued : s = Stored(q)
    BY <2>1 DEF StoreOK, ChainKey
  <2>4. QED
    BY <2>2, <2>3 DEF Stored, Record
<1>9. \A s, t \in records' : s.key.kind = "chain_record" /\ s.key = t.key => s = t
  BY <1>5, <1>6, <1>8 DEF StoreOK
<1>10. /\ \A id : Committed(ChainKey(id)) => Committed(ChainKey(id))'
       /\ Committed(ChainKey(r.id))'
  BY <1>5, <1>6 DEF Committed, ChainKey
<1>11. HeadsCommitted'
  <2>1. SUFFICES ASSUME NEW i \in 1..Revision + 1, NEW chain \in Chains,
                        history'[i][chain] # NoId
                 PROVE \E s \in records' : s.key = ChainKey(history'[i][chain])
    BY <1>4 DEF HeadsCommitted, Committed, ChainKey
  <2>2. CASE i = Revision + 1 /\ chain = r.chain
    BY <1>2, <1>4, <1>5, <1>6, <2>2
  <2>3. CASE \E j \in DOMAIN history : history'[i][chain] = history[j][chain]
    <3>1. PICK j \in DOMAIN history : history'[i][chain] = history[j][chain]
      BY <2>3
    <3>2. \E s \in records : s.key = ChainKey(history[j][chain])
      BY <2>1, <3>1 DEF StoreOK, HeadsCommitted, Committed
    <3>3. QED
      BY <1>5, <3>1, <3>2
  <2>4. QED
    BY <1>2, <1>4, <2>2, <2>3, LastState
<1>12. StoreOK'
  BY <1>4, <1>7, <1>9, <1>11 DEF StoreOK, Stored, Record, ChainKey, HeadIds
<1>13. Resolved(r.id)' = r
  <2> DEFINE t == CHOOSE q \in records' : q.key = ChainKey(r.id)
  <2>1. t \in records' /\ t.key = ChainKey(r.id)
    BY <1>5, <1>6
  <2>2. t = Stored(r)
    BY <1>5, <1>6, <1>9, <2>1 DEF ChainKey
  <2>3. QED
    BY <1>6, <2>2 DEF Resolved, Body, ChainKey
<1>14. QED
  BY <1>2, <1>4, <1>5, <1>10, <1>12, <1>13, ResolvedStays DEF Grown

(* A step that leaves the Store alone. *)
LEMMA SameStore ==
  ASSUME StoreOK, UNCHANGED storeVars
  PROVE  StoreOK' /\ Grown
BY DEF StoreOK, HeadsCommitted, Grown, storeVars, Committed, Resolved, Body, ChainKey, Stored, Record,
       HeadIds

LEMMA OtherGrows ==
  ASSUME StoreOK, OtherWriter
  PROVE  /\ StoreOK' /\ Grown
         /\ Revision' = Revision + 1 /\ history'[Revision + 1] = history[Revision]
         /\ Envelopes(records') \subseteq Envelopes(records)
<1>1. PICK new :
         /\ \A n \in new :
               n.key.kind \notin {"chain_record", "runtime_observation_envelope"}
         /\ CommitRecords(new)
  BY DEF OtherWriter
<1>2. Envelopes(records') \subseteq Envelopes(records)
  BY <1>1 DEF Envelopes, CommitRecords
<1>3. QED
  BY <1>1, <1>2, CommitGrows

-----------------------------------------------------------------------------
(* The chains.                                                             *)

BaseOK(base) ==
    base.revision \in DOMAIN history /\ base.content = history[base.revision]

(* A call decided on a State that was, and decided rightly. *)
CommitterOK(x) ==
    x # NoCommit =>
       /\ x.record \in Issued /\ Verified(x.record)
       /\ BaseOK(x.base) /\ LegalTransition(x.record, x.base)

CommittersOK ==
    /\ committer = [c \in Committers |-> committer[c]]
    /\ \A c \in Committers : CommitterOK(committer[c])

(* One link of HeadsAdvanceLegally. *)
Advance(was, is) ==
    /\ Committed(ChainKey(is)) /\ Verified(Resolved(is))
    /\ \/ was = NoId /\ Genesis(Resolved(is))
       \/ /\ was # NoId /\ Resolved(was).status = "ACTIVE"
          /\ Successor(Resolved(is), Resolved(was))

(* What was decided of a past State stays right. *)
LEMMA BaseStays == ASSUME Grown, NEW base, BaseOK(base) PROVE BaseOK(base)'
BY DEF Grown, BaseOK

LEMMA SnapshotOK == ASSUME StoreOK PROVE BaseOK(Snapshot)
BY LastState DEF BaseOK, Snapshot

LEMMA LegalStays ==
  ASSUME StoreOK, Grown, NEW r \in Issued, NEW base, BaseOK(base),
         LegalTransition(r, base)
  PROVE  LegalTransition(r, base)'
<1> DEFINE id == HeadOf(base, r.chain)
<1>1. CASE id = NoId
  BY <1>1 DEF LegalTransition, HeadOf, Genesis
<1>2. CASE id # NoId
  <2>1. Committed(ChainKey(id))
    BY <1>2, IssuedAssumption DEF StoreOK, HeadsCommitted, BaseOK, HeadOf
  <2>2. Resolved(id)' = Resolved(id)
    BY <2>1 DEF Grown
  <2>3. QED
    BY <1>2, <2>2 DEF LegalTransition, HeadOf, Successor
<1>3. QED
  BY <1>1, <1>2

LEMMA CommitterStays ==
  ASSUME StoreOK, Grown, NEW x, CommitterOK(x)
  PROVE  CommitterOK(x)'
BY BaseStays, LegalStays DEF CommitterOK, NoCommit, Verified, AdmissionVerified,
   DeclarationVerified

(* A legal link stays legal. *)
LEMMA AdvanceStays ==
  ASSUME Grown, NEW was, NEW is, Advance(was, is),
         was # NoId => Committed(ChainKey(was))
  PROVE  Advance(was, is)'
<1>1. Committed(ChainKey(is))' /\ Resolved(is)' = Resolved(is)
  BY DEF Grown, Advance
<1>2. was # NoId => Resolved(was)' = Resolved(was)
  BY DEF Grown
<1>3. QED
  BY <1>1, <1>2 DEF Advance, Verified, AdmissionVerified, DeclarationVerified,
                    Genesis, Successor, ChainKey

(* The link that a committed transition adds is legal. *)
LEMMA AdmitAdvances ==
  ASSUME StoreOK, NEW r \in Issued, Verified(r), NEW base, BaseOK(base),
         base.revision = Revision, LegalTransition(r, base), Admit(r),
         NEW was, was = history[Revision][r.chain]
  PROVE  Advance(was, r.id)'
<1>1. /\ StoreOK' /\ Grown /\ Committed(ChainKey(r.id))' /\ Resolved(r.id)' = r
  BY AdmitGrows
<1>2. HeadOf(base, r.chain) = was
  BY DEF BaseOK, HeadOf
<1>3. CASE was = NoId
  <2>1. Genesis(r)
    BY <1>2, <1>3 DEF LegalTransition
  <2>2. QED
    BY <1>1, <1>3, <2>1 DEF Advance, Verified, AdmissionVerified, DeclarationVerified,
                            Genesis, ChainKey
<1>4. CASE was # NoId
  <2>1. Resolved(was).status # "REVOKED" /\ Successor(r, Resolved(was))
    BY <1>2, <1>4 DEF LegalTransition
  <2>2. Committed(ChainKey(was))
    BY <1>4, LastState, IssuedAssumption DEF StoreOK, HeadsCommitted
  <2>3. Resolved(was).status = "ACTIVE"
    BY <2>1, <2>2, ResolvedIsIssued, StatusAssumption
  <2>4. Resolved(was)' = Resolved(was)
    BY <1>1, <2>2 DEF Grown
  <2>5. QED
    BY <1>1, <1>4, <2>1, <2>3, <2>4 DEF Advance, Verified, AdmissionVerified,
          DeclarationVerified, Successor, ChainKey
<1>5. QED
  BY <1>3, <1>4

(* One State more, with heads that stay or advance legally. *)
LEMMA HeadsStillLegal ==
  ASSUME StoreOK, StoreOK', Grown, HeadsAdvanceLegally, Revision' = Revision + 1,
         \A chain \in Chains : \A was :
            was = history[Revision][chain] =>
               \/ history'[Revision + 1][chain] = was
               \/ /\ chain \in Chains
                  /\ \E r \in Issued : /\ history'[Revision + 1][chain] = r.id
                                      /\ Advance(was, r.id)'
  PROVE  HeadsAdvanceLegally'
<1>1. /\ Revision \in Nat \ {0} /\ DOMAIN history = 1..Revision
      /\ \A i \in 1..Revision : history'[i] = history[i]
  BY LastState DEF Grown
<1>2. SUFFICES ASSUME NEW chain \in Chains, NEW i \in 2..Revision + 1,
                      NEW was, NEW is, was = history'[i - 1][chain],
                      is = history'[i][chain]
               PROVE is = was \/ Advance(was, is)'
  BY DEF HeadsAdvanceLegally, Advance
<1>3. i - 1 \in 1..Revision /\ was = history[i - 1][chain]
  BY <1>1, <1>2
<1>4. CASE i \in 2..Revision
  <2>1. is = history[i][chain]
    BY <1>1, <1>2, <1>4
  <2>2. is = was \/ Advance(was, is)
    BY <1>2, <1>3, <1>4, <2>1 DEF HeadsAdvanceLegally, Advance
  <2>3. was # NoId => Committed(ChainKey(was))
    BY <1>1, <1>3 DEF StoreOK, HeadsCommitted
  <2>4. QED
    BY <2>2, <2>3, AdvanceStays
<1>5. CASE i = Revision + 1
  BY <1>1, <1>2, <1>3, <1>5
<1>6. QED
  BY <1>1, <1>4, <1>5

ChainInv == StoreOK /\ CommittersOK /\ HeadsAdvanceLegally

(* Committers act; whatever else grows the Store without moving a head. *)
LEMMA SameHeadsKeep ==
  ASSUME ChainInv, StoreOK', Grown, UNCHANGED committer,
         \/ UNCHANGED history
         \/ Revision' = Revision + 1 /\ history'[Revision + 1] = history[Revision]
  PROVE  ChainInv'
<1>1. CommittersOK'
  BY CommitterStays DEF ChainInv, CommittersOK
<1>2. HeadsAdvanceLegally'
  <2>1. CASE UNCHANGED history
    <3>1. SUFFICES ASSUME NEW chain \in Chains, NEW i \in 2..Revision,
                          NEW was, NEW is, was = history[i - 1][chain],
                          is = history[i][chain]
                   PROVE is = was \/ Advance(was, is)'
      BY <2>1 DEF HeadsAdvanceLegally, Advance, Revision
    <3>2. is = was \/ Advance(was, is)
      BY <3>1 DEF ChainInv, HeadsAdvanceLegally, Advance
    <3>3. i - 1 \in DOMAIN history
      BY LastState DEF ChainInv
    <3>4. was # NoId => Committed(ChainKey(was))
      BY <3>1, <3>3 DEF ChainInv, StoreOK, HeadsCommitted
    <3>5. QED
      BY <3>2, <3>4, AdvanceStays
  <2>2. CASE Revision' = Revision + 1 /\ history'[Revision + 1] = history[Revision]
    BY <2>2, HeadsStillLegal DEF ChainInv
  <2>3. QED
    BY <2>1, <2>2
<1>3. QED
  BY <1>1, <1>2 DEF ChainInv

LEMMA ChainStep ==
  ASSUME ChainInv, ChainNext
  PROVE  ChainInv' /\ Grown /\ Envelopes(records') \subseteq Envelopes(records)
<1> USE DEF ChainInv
<1>1. PICK c \in Committers : BeginTransition(c) \/ SwapTransition(c) \/ RetryTransition(c)
  BY DEF ChainNext
<1>2. CASE BeginTransition(c)
  <2>1. UNCHANGED storeVars /\ StoreOK' /\ Grown
    BY <1>2, SameStore DEF BeginTransition
  <2>2. PICK r \in Issued : Decidable(r) /\ Decides(c, r, MaxRetries)
    BY <1>2 DEF BeginTransition
  <2>3. CommitterOK([record |-> r, base |-> Snapshot, retries |-> MaxRetries])
    BY <2>2, SnapshotOK DEF CommitterOK, Decidable
  <2>4. CommittersOK'
    BY <2>1, <2>2, <2>3, CommitterStays DEF CommittersOK, Decides
  <2>5. HeadsAdvanceLegally'
    BY <2>1 DEF HeadsAdvanceLegally, storeVars, Revision, Committed, Resolved, Body,
       ChainKey, Verified, AdmissionVerified, DeclarationVerified, Genesis, Successor
  <2>6. QED
    BY <2>1, <2>4, <2>5 DEF storeVars
<1>3. CASE RetryTransition(c)
  <2>1. UNCHANGED storeVars /\ StoreOK' /\ Grown
    BY <1>3, SameStore DEF RetryTransition
  <2>2. committer[c] # NoCommit /\ CommitterOK(committer[c])
    BY <1>3 DEF RetryTransition, Stale, CommittersOK
  <2>3. \/ committer' = [committer EXCEPT ![c] = NoCommit]
        \/ \E n : /\ Decidable(committer[c].record)
                 /\ Decides(c, committer[c].record, n)
    BY <1>3 DEF RetryTransition
  <2>4. \A n : Decidable(committer[c].record) =>
           CommitterOK([record |-> committer[c].record, base |-> Snapshot, retries |-> n])
    BY <2>2, SnapshotOK DEF CommitterOK, Decidable
  <2>5. CommitterOK(NoCommit)
    BY DEF CommitterOK
  <2>6. CommittersOK'
    BY <2>1, <2>3, <2>4, <2>5, CommitterStays DEF CommittersOK, Decides
  <2>7. HeadsAdvanceLegally'
    BY <2>1 DEF HeadsAdvanceLegally, storeVars, Revision, Committed, Resolved, Body,
       ChainKey, Verified, AdmissionVerified, DeclarationVerified, Genesis, Successor
  <2>8. QED
    BY <2>1, <2>6, <2>7 DEF storeVars
<1>4. CASE SwapTransition(c)
  <2>1. PICK r \in Issued :
           \E base :
              /\ Verified(r) /\ BaseOK(base) /\ LegalTransition(r, base)
              /\ base.revision = Revision /\ Admit(r)
              /\ committer' = [committer EXCEPT ![c] = NoCommit]
    BY <1>4 DEF SwapTransition, CommittersOK, CommitterOK
  <2>2. /\ StoreOK' /\ Grown /\ Revision' = Revision + 1
        /\ \A chain \in Chains :
              history'[Revision + 1][chain] =
                 IF chain = r.chain THEN r.id ELSE history[Revision][chain]
    BY <2>1, AdmitGrows
  <2>3. \A was : was = history[Revision][r.chain] => Advance(was, r.id)'
    BY <2>1, AdmitAdvances
  <2>4. HeadsAdvanceLegally'
    BY <2>2, <2>3, HeadsStillLegal
  <2>5. CommittersOK'
    <3>1. CommitterOK(NoCommit)
      BY DEF CommitterOK
    <3>2. QED
      BY <2>1, <2>2, <3>1, CommitterStays DEF CommittersOK
  <2>6. Envelopes(records') \subseteq Envelopes(records)
    BY <2>1 DEF Admit, Stored, Record, ChainKey, Envelopes
  <2>7. QED
    BY <2>2, <2>4, <2>5, <2>6
<1>5. QED
  BY <1>1, <1>2, <1>3, <1>4

-----------------------------------------------------------------------------
(* The composed service.                                                   *)

(* The State a request goes on with was served by the admission in force.  *)
IssuedAt(base) ==
    /\ service # Unbound /\ BaseOK(base)
    /\ base.content["admission"] = service.id

CapabilityOK(x) ==
    /\ x.pc \in {"held", "projecting", "projected"}
    /\ x = [pc |-> x.pc, base |-> x.base, issued |-> x.issued,
            authorities |-> x.authorities, runs |-> x.runs]
    /\ IssuedAt(x.issued)

RequestOK(x) ==
    \/ x = NoRequest
    \/ x.pc = "decided" /\ service # Unbound
    \/ x.pc = "issuing" /\ IssuedAt(x.base)
    \/ CapabilityOK(x)

RootInv ==
    /\ service # Unbound =>
          service.commitment.status = "ACTIVE" /\ AdmissionVerified(service.commitment)
    /\ request = [q \in Requests |-> request[q]]
    /\ \A q \in Requests : RequestOK(request[q])

(* What a request has survives what others do to the Store. *)
LEMMA RequestStays ==
  ASSUME Grown, NEW x, RequestOK(x), service # Unbound => UNCHANGED service
  PROVE  RequestOK(x)'
<1>1. ASSUME NEW base, IssuedAt(base) PROVE IssuedAt(base)'
  BY <1>1, BaseStays DEF IssuedAt, Unbound
<1>2. QED
  BY <1>1 DEF RequestOK, CapabilityOK, NoRequest, IssuedAt, Unbound

LEMMA RootKept ==
  ASSUME RootInv, Grown, UNCHANGED rootVars
  PROVE  RootInv'
BY RequestStays DEF RootInv, rootVars, AdmissionVerified, Unbound

(* A request that takes its next step. *)
LEMMA RequestMoves ==
  ASSUME RootInv, Grown, UNCHANGED service, NEW q \in Requests, NEW x,
         request' = [request EXCEPT ![q] = x], RequestOK(x)'
  PROVE  RootInv'
BY RequestStays DEF RootInv, AdmissionVerified, Unbound

LEMMA RootStep ==
  ASSUME ChainInv, RootInv, RootNext
  PROVE  /\ StoreOK' /\ Grown /\ RootInv'
         /\ \/ UNCHANGED history
            \/ Revision' = Revision + 1 /\ history'[Revision + 1] = history[Revision]
         /\ Envelopes(records') \subseteq Envelopes(records)
<1> USE DEF ChainInv
<1>0. ASSUME UNCHANGED storeVars
      PROVE  /\ StoreOK' /\ Grown /\ UNCHANGED history
             /\ Envelopes(records') \subseteq Envelopes(records)
  BY <1>0, SameStore DEF storeVars
<1>1. CASE Compose
  <2>1. StoreOK' /\ Grown /\ UNCHANGED history /\ UNCHANGED records
    BY <1>0, <1>1 DEF Compose, storeVars
  <2>2. /\ service = Unbound /\ UNCHANGED request
        /\ \E r \in Issued : /\ CurrentlyAdmitted(r.id, Snapshot)
                            /\ service' = [id |-> r.id, commitment |-> Resolved(r.id)]
    BY <1>1 DEF Compose
  <2>3. service'.commitment.status = "ACTIVE" /\ AdmissionVerified(service'.commitment)
    BY <2>2 DEF CurrentlyAdmitted
  <2>4. \A q \in Requests : RequestOK(request[q])'
    BY <2>1, <2>2, RequestStays DEF RootInv
  <2>5. RootInv'
    BY <2>2, <2>3, <2>4 DEF RootInv, AdmissionVerified
  <2>6. QED
    BY <2>1, <2>5
<1>2. CASE RequestNext
  <2>1. PICK q \in Requests :
           \/ BeginRequest(q) \/ FinalBoot(q) \/ Issue(q)
           \/ Execute(q) \/ Project(q) \/ ProjectRaises(q) \/ Refresh(q)
    BY <1>2 DEF RequestNext
  <2>2. RequestOK(request[q]) /\ RequestOK(NoRequest)'
    BY DEF RootInv, RequestOK
  <2>3. CASE BeginRequest(q)
    <3>1. UNCHANGED <<service, storeVars>> /\ service # Unbound
      BY <2>3 DEF BeginRequest
    <3>2. PICK ask \in GrantRequests :
             request' = [request EXCEPT ![q] =
                [pc |-> "decided", authorities |-> {g.kind : g \in ask.grants}]]
      BY <2>3 DEF BeginRequest
    <3>3. RequestOK([pc |-> "decided", authorities |-> {g.kind : g \in ask.grants}])'
      BY <3>1 DEF RequestOK
    <3>4. QED
      BY <1>0, <3>1, <3>2, <3>3, RequestMoves
  <2>4. CASE FinalBoot(q)
    <3>1. UNCHANGED <<service, storeVars>> /\ request[q].pc = "decided"
      BY <2>4 DEF FinalBoot
    <3>2. service # Unbound
      BY <2>2, <3>1 DEF RequestOK, NoRequest, IssuedAt, CapabilityOK
    <3>3. CASE StillCurrent(Snapshot)
      <4>1. IssuedAt(Snapshot)
        BY <3>2, <3>3, SnapshotOK DEF IssuedAt, StillCurrent, HeadOf
      <4>2. PICK y : /\ y.pc = "issuing" /\ y.base = Snapshot
                     /\ request' = [request EXCEPT ![q] = y]
        BY <2>4, <3>3 DEF FinalBoot
      <4>3. RequestOK(y)
        BY <4>1, <4>2 DEF RequestOK
      <4>4. QED
        BY <1>0, <3>1, <4>2, <4>3, RequestMoves, RequestStays
    <3>4. CASE ~StillCurrent(Snapshot)
      <4>1. request' = [request EXCEPT ![q] = NoRequest]
        BY <2>4, <3>4 DEF FinalBoot
      <4>2. QED
        BY <1>0, <2>2, <3>1, <4>1, RequestMoves
    <3>5. QED
      BY <3>3, <3>4
  <2>5. CASE Issue(q)
    <3>1. UNCHANGED <<service, storeVars>> /\ request[q].pc = "issuing"
      BY <2>5 DEF Issue
    <3>2. IssuedAt(request[q].base)
      BY <2>2, <3>1 DEF RequestOK, NoRequest, CapabilityOK
    <3>3. PICK y : /\ RequestOK(y) /\ request' = [request EXCEPT ![q] = y]
      <4> DEFINE held == request[q]
                 new == [pc |-> "held", base |-> held.base, issued |-> held.base,
                         authorities |-> held.authorities, runs |-> 0]
      <4>1. RequestOK(new) /\ RequestOK(NoRequest)
        BY <3>2 DEF RequestOK, CapabilityOK
      <4>2. \/ request' = [request EXCEPT ![q] = new]
            \/ request' = [request EXCEPT ![q] = NoRequest]
        BY <2>5 DEF Issue
      <4>3. QED
        BY <4>1, <4>2
    <3>4. QED
      BY <1>0, <3>1, <3>3, RequestMoves, RequestStays
  <2>6. CASE Execute(q)
    <3>1. UNCHANGED <<service, storeVars>> /\ request[q].pc = "held"
      BY <2>6 DEF Execute
    <3>2. CapabilityOK(request[q])
      BY <2>2, <3>1 DEF RequestOK, NoRequest
    <3>3. PICK y : /\ y = [request[q] EXCEPT !.pc = "projecting", !.runs = @ + 1]
                   /\ request' = [request EXCEPT ![q] = y]
      BY <2>6 DEF Execute, RootInv
    <3>4. RequestOK(y)
      BY <3>2, <3>3 DEF RequestOK, CapabilityOK
    <3>5. QED
      BY <1>0, <3>1, <3>3, <3>4, RequestMoves, RequestStays
  <2>7. CASE Project(q) \/ ProjectRaises(q)
    <3>1. /\ UNCHANGED service /\ request[q].pc = "projecting"
          /\ CommitRecords({}) \/ UNCHANGED storeVars
      BY <2>7 DEF Project, ProjectRaises
    <3>2. CapabilityOK(request[q])
      BY <2>2, <3>1 DEF RequestOK, NoRequest
    <3>3. PICK y : /\ \/ y = [request[q] EXCEPT !.pc = "projected"]
                      \/ y = [request[q] EXCEPT !.pc = "held"]
                   /\ request' = [request EXCEPT ![q] = y]
      BY <2>7 DEF Project, ProjectRaises, RootInv
    <3>4. RequestOK(y)
      BY <3>2, <3>3 DEF RequestOK, CapabilityOK
    <3>5. /\ StoreOK' /\ Grown
          /\ \/ UNCHANGED history
             \/ Revision' = Revision + 1 /\ history'[Revision + 1] = history[Revision]
          /\ Envelopes(records') \subseteq Envelopes(records)
      <4>1. CASE CommitRecords({})
        <5>1. Envelopes(records') \subseteq Envelopes(records)
          BY <4>1 DEF CommitRecords, Envelopes
        <5>2. QED
          BY <4>1, <5>1, CommitGrows
      <4>2. QED
        BY <1>0, <3>1, <4>1
    <3>6. QED
      BY <3>1, <3>3, <3>4, <3>5, RequestMoves, RequestStays
  <2>8. CASE Refresh(q)
    <3>1. UNCHANGED <<service, storeVars>> /\ request[q].pc = "projected"
      BY <2>8 DEF Refresh
    <3>2. CapabilityOK(request[q])
      BY <2>2, <3>1 DEF RequestOK, NoRequest
    <3>3. PICK y : /\ y = [request[q] EXCEPT !.pc = "held", !.base = Snapshot]
                   /\ request' = [request EXCEPT ![q] = y]
      BY <2>8 DEF Refresh, RootInv
    <3>4. RequestOK(y)
      BY <3>2, <3>3 DEF RequestOK, CapabilityOK
    <3>5. QED
      BY <1>0, <3>1, <3>3, <3>4, RequestMoves, RequestStays
  <2>9. QED
    BY <2>1, <2>3, <2>4, <2>5, <2>6, <2>7, <2>8
<1>3. QED
  BY <1>1, <1>2 DEF RootNext

(* A capability's State is one at which the service's admission was current. *)
LEMMA RootInvIssues == ASSUME RootInv PROVE IssuedUnderAdmission
BY DEF RootInv, RequestOK, CapabilityOK, IssuedAt, BaseOK, Capability, NoRequest,
       IssuedUnderAdmission

-----------------------------------------------------------------------------
(* Observations.                                                           *)

(* The declaration an observation resolved: it was active, and a committed *)
(* record stays what it is.                                                *)
DeclaredActive(id) == Committed(ChainKey(id)) /\ Resolved(id).status = "ACTIVE"

(* The probe was covered by the grant and the boundary when it ran ... *)
ProbedLive(x) ==
    /\ x.grant.from <= x.probed /\ x.probed <= x.grant.until
    /\ x.boundary.from <= x.probed /\ x.probed <= x.boundary.until
    /\ x.grant.signed

(* ... and what the envelope shows is what the grant lets it show. *)
ShowsPermitted(x) ==
    x.envelope.fields # NoId =>
       \A f \in DOMAIN x.envelope.fields :
          /\ f \in x.grant.permitted
          /\ f \in x.grant.redaction => x.envelope.fields[f] = "redacted"

Committing(x) ==
    /\ BaseOK(x.base) /\ HeadOf(x.base, "deployment") = x.declaration
    /\ DeclaredActive(x.declaration)
    /\ x.envelope.declaration = x.declaration
    /\ x.adapter # "http" => ProbedLive(x) /\ ShowsPermitted(x)

ObserverOK(x) ==
    \/ x = NoObservation
    \/ x.pc = "resolved" /\ DeclaredActive(x.declaration)
    \/ x.pc = "commit" /\ Committing(x)
    \/ x.pc = "received" /\ (x.adapter # "http" => ShowsPermitted(x))
    \/ x.pc = "handed"

ObserversOK ==
    /\ observer = [o \in Observers |-> observer[o]]
    /\ \A o \in Observers : ObserverOK(observer[o])

(* What an envelope that enters the Store is anchored in. *)
Anchored ==
    \A e \in Envelopes(records') \ Envelopes(records) :
       /\ history[Revision]["deployment"] = e.declaration
       /\ Resolved(e.declaration).status = "ACTIVE"

LEMMA ObserverStays ==
  ASSUME Grown, NEW x, ObserverOK(x)
  PROVE  ObserverOK(x)'
<1>1. ASSUME NEW id, DeclaredActive(id) PROVE DeclaredActive(id)'
  BY <1>1 DEF DeclaredActive, Grown
<1>2. ASSUME Committing(x) PROVE Committing(x)'
  BY <1>1, <1>2, BaseStays DEF Committing, HeadOf, ProbedLive, ShowsPermitted
<1>3. QED
  BY <1>1, <1>2 DEF ObserverOK, NoObservation, ShowsPermitted

LEMMA ObserversKept ==
  ASSUME ObserversOK, Grown, UNCHANGED observer
  PROVE  ObserversOK'
BY ObserverStays DEF ObserversOK

LEMMA ObserverMoves ==
  ASSUME ObserversOK, Grown, NEW o, NEW x, ObserverOK(x) \/ ObserverOK(x)',
         observer' = [observer EXCEPT ![o] = x]
  PROVE  ObserversOK'
BY ObserverStays DEF ObserversOK

(* A call that loads the State to commit on holds what it found there. *)
LEMMA LoadedOK ==
  ASSUME StoreOK, ObserversOK, NEW o, NEW call, NEW retries,
         LoadsEnvelope(o, call, retries), UNCHANGED storeVars,
         DeclaredActive(call.declaration),
         call.envelope.declaration = call.declaration,
         call.adapter # "http" => ProbedLive(call) /\ ShowsPermitted(call)
  PROVE  ObserversOK'
<1> DEFINE new == [pc |-> "commit", adapter |-> call.adapter, grant |-> call.grant,
                   envelope |-> call.envelope, probed |-> call.probed,
                   boundary |-> call.boundary, declaration |-> call.declaration,
                   base |-> Snapshot, retries |-> retries]
<1>1. CASE DeclarationCurrent(call.declaration, Snapshot) /\ retries > 0
  <2>1. Committing(new)
    BY <1>1, SnapshotOK DEF Committing, DeclarationCurrent, ProbedLive, ShowsPermitted
  <2>2. ObserverOK(new)
    BY <2>1 DEF ObserverOK
  <2>3. observer' = [observer EXCEPT ![o] = new]
    BY <1>1 DEF LoadsEnvelope
  <2> HIDE DEF new
  <2>4. PICK y : ObserverOK(y) /\ observer' = [observer EXCEPT ![o] = y]
    BY <2>2, <2>3
  <2>5. QED
    BY <2>4, SameStore, ObserverMoves
<1>2. CASE ~(DeclarationCurrent(call.declaration, Snapshot) /\ retries > 0)
  <2>1. observer' = [observer EXCEPT ![o] = NoObservation]
    BY <1>2 DEF LoadsEnvelope
  <2>2. ObserverOK(NoObservation)
    BY DEF ObserverOK
  <2>3. QED
    BY <2>1, <2>2, SameStore, ObserverMoves
<1>3. QED
  BY <1>1, <1>2

(* What an adapter saw: bounded by the grant it verified just before. *)
LEMMA ProbeKeeps ==
  ASSUME StoreOK, ObserversOK, NEW o \in Observers, Probe(o)
  PROVE  ObserversOK' /\ UNCHANGED <<clock, storeVars>>
<1>1. observer[o].pc = "resolved" /\ UNCHANGED <<clock, storeVars>>
  BY DEF Probe
<1>2. DeclaredActive(observer[o].declaration)
  BY <1>1 DEF ObserversOK, ObserverOK, NoObservation
<1>3. CASE observer' = [observer EXCEPT ![o] = NoObservation]
  <2>1. ObserverOK(NoObservation)
    BY DEF ObserverOK
  <2>2. QED
    BY <1>1, <1>3, <2>1, SameStore, ObserverMoves
<1>4. CASE /\ Reverified(o, clock)
           /\ \E report \in Reports :
                 LET call == observer[o] IN
                 LoadsEnvelope(o,
                    [adapter |-> call.adapter, grant |-> call.grant,
                     boundary |-> call.boundary, probed |-> clock,
                     declaration |-> call.declaration,
                     envelope |-> ObservationEnvelope(o, report)], MaxRetries)
  <2> DEFINE call == observer[o]
             loaded(report) ==
                [adapter |-> call.adapter, grant |-> call.grant,
                 boundary |-> call.boundary, probed |-> clock,
                 declaration |-> call.declaration,
                 envelope |-> ObservationEnvelope(o, report)]
  <2>1. PICK report \in Reports : LoadsEnvelope(o, loaded(report), MaxRetries)
    BY <1>4
  <2>2. /\ ObservationEnvelope(o, report).declaration = call.declaration
        /\ ObservationEnvelope(o, report).fields \in {Shown(call.boundary), NoId}
    BY DEF ObservationEnvelope
  <2>3. ASSUME call.adapter # "http"
        PROVE ProbedLive(loaded(report)) /\ ShowsPermitted(loaded(report))
    <3>1. /\ ValidGrant(call.grant) /\ NotExpired(call.grant, clock)
          /\ MatchesAttempt(call.grant, call.boundary)
          /\ WithinLiveWindow(call.boundary, clock)
      BY <1>4, <2>3 DEF Reverified, Permits
    <3>2. ProbedLive(loaded(report))
      BY <3>1 DEF ProbedLive, ValidGrant, NotExpired, WithinLiveWindow
    <3>3. \A f \in DOMAIN Shown(call.boundary) :
             /\ f \in call.grant.permitted
             /\ f \in call.grant.redaction => Shown(call.boundary)[f] = "redacted"
      BY <3>1 DEF MatchesAttempt, Shown, Projected
    <3>4. ShowsPermitted(loaded(report))
      BY <2>2, <3>3 DEF ShowsPermitted
    <3>5. QED
      BY <3>2, <3>4
  <2>4. /\ DeclaredActive(loaded(report).declaration)
        /\ loaded(report).envelope.declaration = loaded(report).declaration
        /\ loaded(report).adapter # "http" =>
              ProbedLive(loaded(report)) /\ ShowsPermitted(loaded(report))
    BY <1>2, <2>2, <2>3
  <2> HIDE DEF loaded
  <2>5. QED
    BY <1>1, <2>1, <2>4, LoadedOK
<1>5. QED
  BY <1>1, <1>3, <1>4 DEF Probe

LEMMA RetryKeeps ==
  ASSUME StoreOK, ObserversOK, NEW o \in Observers, RetryEnvelope(o)
  PROVE  ObserversOK' /\ UNCHANGED <<clock, storeVars>>
<1>1. /\ observer[o].pc = "commit" /\ UNCHANGED <<clock, storeVars>>
      /\ LoadsEnvelope(o, observer[o], observer[o].retries - 1)
  BY DEF RetryEnvelope
<1>2. Committing(observer[o])
  BY <1>1 DEF ObserversOK, ObserverOK, NoObservation
<1>3. QED
  BY <1>1, <1>2, LoadedOK DEF Committing

(* The swap is on the State whose declaration was looked at. *)
LEMMA SwapKeeps ==
  ASSUME StoreOK, ObserversOK, NEW o \in Observers, SwapEnvelope(o)
  PROVE  /\ ObserversOK' /\ UNCHANGED clock /\ StoreOK' /\ Grown
         /\ Revision' = Revision + 1 /\ history'[Revision + 1] = history[Revision]
         /\ Anchored
<1> DEFINE call == observer[o]
           new == {Record(ObservedKey(call.envelope), call.envelope)}
<1>1. /\ call.pc = "commit" /\ call.base.revision = Revision
      /\ CommitRecords(new) /\ UNCHANGED clock
  BY DEF SwapEnvelope
<1>2. Committing(call)
  BY <1>1 DEF ObserversOK, ObserverOK, NoObservation
<1>3. \A n \in new : n.key.kind # "chain_record" /\ n.body = call.envelope
  BY DEF Record, ObservedKey
<1>4. /\ StoreOK' /\ Grown
      /\ Revision' = Revision + 1 /\ history'[Revision + 1] = history[Revision]
  BY <1>1, <1>3, CommitGrows
<1>5. PICK y : /\ y.pc = "received" /\ y.adapter = call.adapter
               /\ y.grant = call.grant /\ y.envelope = call.envelope
               /\ observer' = [observer EXCEPT ![o] = y]
  BY DEF SwapEnvelope
<1>6. ObserverOK(y)
  BY <1>2, <1>5 DEF ObserverOK, Committing, ShowsPermitted
<1>7. ObserversOK'
  BY <1>4, <1>5, <1>6, ObserverMoves
<1>8. Anchored
  <2>1. \A e \in Envelopes(records') \ Envelopes(records) : e = call.envelope
    BY <1>1, <1>3 DEF CommitRecords, Envelopes
  <2>2. /\ history[Revision]["deployment"] = call.envelope.declaration
        /\ Resolved(call.envelope.declaration).status = "ACTIVE"
    BY <1>1, <1>2 DEF Committing, BaseOK, HeadOf, DeclaredActive
  <2>3. QED
    BY <2>1, <2>2 DEF Anchored
<1>9. QED
  BY <1>1, <1>4, <1>7, <1>8

(* A declaration that an observation resolves is active. *)
LEMMA ResolvedOK ==
  ASSUME NEW id, NEW at, DeclarationResolved(id, Snapshot, at)
  PROVE  DeclaredActive(id)
BY DEF DeclarationResolved, DeclaredActive

LEMMA ObservationStep ==
  ASSUME ChainInv, ObserversOK, clock \in Nat, ObservationNext
  PROVE  /\ ObserversOK' /\ clock' \in Nat /\ StoreOK' /\ Grown
         /\ \/ UNCHANGED history
            \/ Revision' = Revision + 1 /\ history'[Revision + 1] = history[Revision]
         /\ Anchored
<1> USE DEF ChainInv
<1>1. ASSUME UNCHANGED storeVars
      PROVE StoreOK' /\ Grown /\ Anchored /\ UNCHANGED history
  BY <1>1, SameStore DEF storeVars, Anchored
<1>2. CASE Tick
  BY <1>1, <1>2, ObserversKept DEF Tick
<1>3. ASSUME NEW o \in Observers, BeginObservation(o)
      PROVE ObserversOK' /\ UNCHANGED <<clock, storeVars>>
  <2>1. PICK adapter \in Adapters, g \in RunGrants, b \in Boundaries :
           \E at \in ObservedAt(adapter) : Begins(o, adapter, g, b, at)
    BY <1>3 DEF BeginObservation
  <2>2. PICK at \in ObservedAt(adapter) : Begins(o, adapter, g, b, at)
    BY <2>1
  <2>3. PICK r \in Issued :
           /\ DeclarationResolved(r.id, Snapshot, at)
           /\ observer' = [observer EXCEPT ![o] =
                [pc |-> "resolved", adapter |-> adapter, grant |-> g,
                 boundary |-> b, at |-> at, declaration |-> r.id]]
    BY <2>2 DEF Begins
  <2>4. ObserverOK([pc |-> "resolved", adapter |-> adapter, grant |-> g,
                    boundary |-> b, at |-> at, declaration |-> r.id])
    BY <2>3, ResolvedOK DEF ObserverOK
  <2>5. UNCHANGED <<clock, storeVars>>
    BY <1>3 DEF BeginObservation
  <2>6. QED
    BY <1>1, <2>3, <2>4, <2>5, ObserverMoves
<1>4. ASSUME NEW o \in Observers, HandOff(o)
      PROVE ObserversOK' /\ UNCHANGED <<clock, storeVars>>
  <2>1. PICK y : y.pc = "handed" /\ observer' = [observer EXCEPT ![o] = y]
    BY <1>4 DEF HandOff
  <2>2. ObserverOK(y) /\ UNCHANGED <<clock, storeVars>>
    BY <1>4, <2>1 DEF ObserverOK, HandOff
  <2>3. QED
    BY <1>1, <2>1, <2>2, ObserverMoves
<1>5. QED
  BY <1>1, <1>2, <1>3, <1>4, ProbeKeeps, SwapKeeps, RetryKeeps DEF ObservationNext

LEMMA ObserversSound ==
  ASSUME ObserversOK
  PROVE  ProbesAreLive /\ NothingRedactedShown
BY DEF ObserversOK, ObserverOK, Committing, ProbedLive, ShowsPermitted, NoObservation,
       ProbesAreLive, NothingRedactedShown

-----------------------------------------------------------------------------
(* The deployment: committers, the composed service, observers and any     *)
(* other writer, beside each other.                                        *)

runtimeVars == <<storeVars, chainVars, rootVars, observationVars>>

RuntimeInit ==
    /\ records = {} /\ history = <<NoHeads>>
    /\ ChainInit /\ RootInit /\ ObservationInit

RuntimeNext ==
    \/ ChainNext /\ UNCHANGED <<rootVars, observationVars>>
    \/ RootNext /\ UNCHANGED <<chainVars, observationVars>>
    \/ ObservationNext /\ UNCHANGED <<chainVars, rootVars>>
    \/ OtherWriter /\ UNCHANGED <<chainVars, rootVars, observationVars>>

RuntimeSpec == RuntimeInit /\ [][RuntimeNext]_runtimeVars

RuntimeInv == ChainInv /\ RootInv /\ ObserversOK /\ clock \in Nat

LEMMA ChainsStart ==
  ASSUME records = {}, history = <<NoHeads>>, ChainInit
  PROVE  ChainInv
<1>1. Revision = 1 /\ DOMAIN history = {1} /\ history[1] = NoHeads
  BY DEF Revision
<1>2. NoHeads \in [Chains -> HeadIds]
  BY DEF NoHeads, HeadIds
<1>3. StoreOK
  BY <1>1, <1>2 DEF StoreOK, HeadsCommitted, NoHeads
<1>4. CommittersOK
  BY DEF ChainInit, CommittersOK, CommitterOK
<1>5. HeadsAdvanceLegally
  BY <1>1 DEF HeadsAdvanceLegally
<1>6. QED
  BY <1>3, <1>4, <1>5 DEF ChainInv

LEMMA ObserversStart == ObservationInit => ObserversOK /\ clock \in Nat
BY DEF ObservationInit, ObserversOK, ObserverOK

(* Every step keeps what each part knows, and anchors what it observes. *)
LEMMA RuntimeStep ==
  RuntimeInv /\ [RuntimeNext]_runtimeVars =>
     RuntimeInv' /\ [Anchored]_<<records, history>>
<1> SUFFICES ASSUME RuntimeInv, [RuntimeNext]_runtimeVars
             PROVE RuntimeInv' /\ [Anchored]_<<records, history>>
  OBVIOUS
<1> USE DEF RuntimeInv
<1>0. StoreOK
  BY DEF ChainInv
<1>1. CASE UNCHANGED runtimeVars
  <2>1. StoreOK' /\ Grown /\ UNCHANGED history /\ UNCHANGED records
    BY <1>0, <1>1, SameStore DEF runtimeVars, storeVars
  <2>2. QED
    BY <1>1, <2>1, SameHeadsKeep, RootKept, ObserversKept
       DEF runtimeVars, chainVars, rootVars, observationVars
<1>2. CASE ChainNext /\ UNCHANGED <<rootVars, observationVars>>
  BY <1>2, ChainStep, RootKept, ObserversKept DEF observationVars, Anchored
<1>3. CASE RootNext /\ UNCHANGED <<chainVars, observationVars>>
  BY <1>3, RootStep, SameHeadsKeep, ObserversKept
     DEF chainVars, observationVars, Anchored
<1>4. CASE ObservationNext /\ UNCHANGED <<chainVars, rootVars>>
  BY <1>4, ObservationStep, SameHeadsKeep, RootKept DEF chainVars
<1>5. CASE OtherWriter /\ UNCHANGED <<chainVars, rootVars, observationVars>>
  BY <1>0, <1>5, OtherGrows, SameHeadsKeep, RootKept, ObserversKept
     DEF chainVars, observationVars, Anchored
<1>6. QED
  BY <1>1, <1>2, <1>3, <1>4, <1>5 DEF RuntimeNext

LEMMA RuntimeInvariant == RuntimeSpec => []RuntimeInv
<1>1. RuntimeInit => RuntimeInv
  <2>1. RootInit => RootInv
    BY DEF RootInit, RootInv, RequestOK
  <2>2. QED
    BY <2>1, ChainsStart, ObserversStart DEF RuntimeInit, RuntimeInv
<1>2. QED
  BY <1>1, RuntimeStep, PTL DEF RuntimeSpec

(* Whatever is issued, and whoever commits and asks beside each other: no  *)
(* chain passes a revocation, forks or goes back, and a capability is only *)
(* issued at a State with the admission that the service was composed      *)
(* under.                                                                  *)
THEOREM AdmissionsHold == RuntimeSpec => []AdmissionSound
<1>1. RuntimeInv => AdmissionSound
  BY RootInvIssues DEF RuntimeInv, ChainInv, AdmissionSound
<1>2. QED
  BY <1>1, RuntimeInvariant, PTL

(* However long a probe takes and however often its commit is retried: it  *)
(* ran while its grant and boundary covered it, shows what the grant lets  *)
(* it show, and is committed under the declaration that is current.        *)
THEOREM ObservationsHold == RuntimeSpec => ObservationSound
<1>1. RuntimeInv => ProbesAreLive /\ NothingRedactedShown
  BY ObserversSound DEF RuntimeInv
<1>2. RuntimeSpec => [](ProbesAreLive /\ NothingRedactedShown)
  BY <1>1, RuntimeInvariant, PTL
<1>3. RuntimeInv /\ [RuntimeNext]_runtimeVars =>
         [\A e \in Envelopes(records') \ Envelopes(records) :
            /\ history[Revision]["deployment"] = e.declaration
            /\ Resolved(e.declaration).status = "ACTIVE"]_<<records, history>>
  BY RuntimeStep DEF Anchored
<1>4. RuntimeSpec => EnvelopesAnchored
  BY <1>3, RuntimeInvariant, PTL DEF RuntimeSpec, EnvelopesAnchored
<1>5. QED
  BY <1>2, <1>4 DEF ObservationSound

-----------------------------------------------------------------------------
(* The fallback controller, beside the committers and any other writer.    *)

fallbackVars == <<storeVars, chainVars, observationVars, controllerVars>>

FallbackInit ==
    /\ records = {} /\ history = <<NoHeads>>
    /\ ChainInit /\ ObservationInit /\ ControllerInit

FallbackNext ==
    \/ ControllerNext /\ UNCHANGED chainVars
    \/ ChainNext /\ UNCHANGED <<observationVars, controllerVars>>
    \/ OtherWriter /\ UNCHANGED <<chainVars, observationVars, controllerVars>>

FallbackSpec == FallbackInit /\ [][FallbackNext]_fallbackVars

(* Claims of operations that were carried out. *)
RealClaims(c) == c \subseteq {op \in Operations : executions[op] > 0}

Statuses == {"AVAILABLE", "UNAVAILABLE", "UNKNOWN"}

(* What the step of an invocation says of it and of its observation. *)
InvocationOK(x, o) ==
    \/ x = Idle /\ o = NoObservation
    \/ /\ x.pc = "polling" /\ o = NoObservation
       /\ x = [pc |-> x.pc, op |-> x.op, grant |-> x.grant, claims |-> x.claims,
               start |-> x.start, polls |-> x.polls, status |-> x.status]
       /\ x.op \in Operations /\ RealClaims(x.claims)
       /\ x.start \in Nat /\ x.status \in Statuses
    \/ /\ x.pc \in {"observing", "saving"}
       /\ x = [pc |-> x.pc, op |-> x.op, claims |-> x.claims,
               status |-> x.status, waited |-> x.waited]
       /\ x.op \in Operations /\ RealClaims(x.claims)
       /\ x.status = "UNAVAILABLE" \/ x.waited >= Deadline
       /\ o.pc \in {"idle", "resolved", "commit", "received"}
       /\ x.pc = "saving" \/ o.pc = "received" => executions[x.op] > 0

ControllerInv ==
    /\ executions \in [Operations -> Nat]
    /\ claims = Torn \/ RealClaims(claims)
    /\ published = NoId \/ published.status \in Statuses
    /\ controller = [k \in Observers |-> controller[k]]
    /\ \A k \in Observers : InvocationOK(controller[k], observer[k])

LEMMA ControllerSound == ASSUME ControllerInv PROVE FallbackSound
BY DEF ControllerInv, InvocationOK, RealClaims, FallbackSound,
       FallbackOnlyAfterDeadline, ClaimsAreReal, Idle

(* An invocation that takes its next step, perhaps with its observation. *)
LEMMA InvocationMoves ==
  ASSUME ControllerInv, ObserversOK, NEW k \in Observers, NEW x, NEW o,
         controller' = [controller EXCEPT ![k] = x],
         \/ observer' = [observer EXCEPT ![k] = o]
         \/ UNCHANGED observer /\ o = observer[k],
         InvocationOK(x, o), UNCHANGED <<executions, published>>,
         claims' = claims \/ claims' = Torn \/ RealClaims(claims')
  PROVE  ControllerInv'
<1>1. \A j \in Observers \ {k} : controller'[j] = controller[j] /\ observer'[j] = observer[j]
  BY DEF ControllerInv, ObserversOK
<1>2. controller'[k] = x /\ observer'[k] = o
  BY DEF ControllerInv, ObserversOK
<1>3. \A y, p : InvocationOK(y, p) => InvocationOK(y, p)'
  BY DEF InvocationOK, RealClaims
<1>4. \A j \in Observers : InvocationOK(controller[j], observer[j])'
  <2>1. SUFFICES ASSUME NEW j \in Observers,
                        NEW y, NEW p, y = controller'[j], p = observer'[j]
                 PROVE InvocationOK(y, p)'
    BY DEF InvocationOK, RealClaims
  <2>2. CASE j = k
    BY <1>2, <1>3, <2>1, <2>2
  <2>3. CASE j # k
    BY <1>1, <1>3, <2>1, <2>3 DEF ControllerInv
  <2>4. QED
    BY <2>2, <2>3
<1>5. claims' = Torn \/ RealClaims(claims)'
  BY DEF ControllerInv, RealClaims
<1>6. QED
  BY <1>4, <1>5 DEF ControllerInv

(* The steps that leave the Store and the observations alone. *)
LEMMA InvocationOwnStep ==
  ASSUME ControllerInv, ObserversOK, clock \in Nat, NEW k \in Observers,
         Invoke(k) \/ Poll(k) \/ EndsWithout(k) \/ ObservationFailed(k) \/ Truncate(k)
  PROVE  ControllerInv' /\ UNCHANGED <<observationVars, storeVars>>
<1>1. UNCHANGED <<observationVars, storeVars>> /\ UNCHANGED observer
  BY DEF Invoke, Poll, EndsWithout, ObservationFailed, Truncate, observationVars
<1>2. InvocationOK(controller[k], observer[k])
  BY DEF ControllerInv
<1>3. CASE Invoke(k)
  <2>1. PICK op \in Operations, g \in RunGrants :
           controller' = [controller EXCEPT ![k] =
              [pc |-> "polling", op |-> op, grant |-> g, claims |-> claims,
               start |-> clock, polls |-> 0, status |-> "UNKNOWN"]]
    BY <1>3 DEF Invoke
  <2>2. RealClaims(claims) /\ observer[k] = NoObservation
        /\ UNCHANGED <<claims, executions, published>>
    BY <1>3 DEF Invoke, Loaded, ControllerInv
  <2>3. InvocationOK([pc |-> "polling", op |-> op, grant |-> g, claims |-> claims,
                      start |-> clock, polls |-> 0, status |-> "UNKNOWN"], observer[k])
    BY <2>2 DEF InvocationOK, Statuses
  <2>4. QED
    BY <1>1, <2>1, <2>2, <2>3, InvocationMoves
<1>4. CASE Poll(k)
  <2> DEFINE run == controller[k]
  <2>1. run.pc = "polling" /\ UNCHANGED <<claims, executions, published>>
    BY <1>4 DEF Poll
  <2>2. PICK x : /\ x = [run EXCEPT !.polls = @ + 1, !.status = Provided(run.op)]
                 /\ controller' = [controller EXCEPT ![k] = x]
    BY <1>4 DEF Poll, ControllerInv
  <2>3. Provided(run.op) \in Statuses
    BY DEF Provided, ControllerInv, Statuses
  <2>4. /\ run = [pc |-> run.pc, op |-> run.op, grant |-> run.grant,
                  claims |-> run.claims, start |-> run.start, polls |-> run.polls,
                  status |-> run.status]
        /\ run.op \in Operations /\ RealClaims(run.claims) /\ run.start \in Nat
        /\ observer[k] = NoObservation
    BY <1>2, <2>1 DEF InvocationOK, Idle
  <2>5. /\ x.pc = "polling" /\ x.status = Provided(run.op) /\ x.op = run.op
        /\ x.claims = run.claims /\ x.start = run.start
        /\ x = [pc |-> x.pc, op |-> x.op, grant |-> x.grant, claims |-> x.claims,
                start |-> x.start, polls |-> x.polls, status |-> x.status]
    BY <2>1, <2>2, <2>4
  <2>6. InvocationOK(x, observer[k])
    BY <2>3, <2>4, <2>5 DEF InvocationOK
  <2>7. QED
    BY <1>1, <2>1, <2>2, <2>6, InvocationMoves
<1>5. CASE EndsWithout(k) \/ ObservationFailed(k)
  <2>1. observer[k] = NoObservation
    BY <1>2, <1>5 DEF EndsWithout, LoopEnded, ObservationFailed, InvocationOK, Idle
  <2>2. InvocationOK(Idle, observer[k])
    BY <2>1 DEF InvocationOK
  <2>3. /\ controller' = [controller EXCEPT ![k] = Idle]
        /\ UNCHANGED <<claims, executions, published>>
    BY <1>5 DEF EndsWithout, ObservationFailed
  <2>4. QED
    BY <1>1, <2>2, <2>3, InvocationMoves
<1>6. CASE Truncate(k)
  <2> DEFINE new == [controller[k] EXCEPT !.pc = "saving"]
  <2>1. /\ controller[k].pc = "observing" /\ observer[k].pc = "received"
        /\ claims' = Torn /\ UNCHANGED <<executions, published>>
    BY <1>6 DEF Truncate
  <2>2. controller' = [controller EXCEPT ![k] = new]
    BY <1>6 DEF Truncate, ControllerInv
  <2>3. InvocationOK(new, observer[k])
    BY <1>2, <2>1 DEF InvocationOK, Idle
  <2>4. QED
    BY <1>1, <2>1, <2>2, <2>3, InvocationMoves
<1>7. QED
  BY <1>1, <1>3, <1>4, <1>5, <1>6

(* Authorized: neither Actions available nor the deadline still ahead. *)
LEMMA FallBackKeeps ==
  ASSUME ControllerInv, ObserversOK, StoreOK, clock \in Nat, NEW k \in Observers,
         FallBack(k)
  PROVE  ControllerInv' /\ ObserversOK' /\ UNCHANGED <<clock, storeVars>>
<1> DEFINE run == controller[k]
           b == BoundaryFrom(run.grant)
           started(r) == [pc |-> "resolved", adapter |-> "ssh", grant |-> run.grant,
                          boundary |-> b, at |-> run.start, declaration |-> r.id]
           new == [pc |-> "observing", op |-> run.op, claims |-> run.claims,
                   status |-> run.status, waited |-> Elapsed(k)]
<1>1. /\ run.pc = "polling" /\ MayFallBack(k)
      /\ controller' = [controller EXCEPT ![k] = new]
      /\ UNCHANGED <<claims, executions, published, clock, storeVars>>
  BY DEF FallBack, LoopEnded
<1>2. PICK r \in Issued : /\ DeclarationResolved(r.id, Snapshot, run.start)
                          /\ observer' = [observer EXCEPT ![k] = started(r)]
  BY DEF FallBack
<1>3. InvocationOK(run, observer[k])
  BY DEF ControllerInv
<1>4. /\ run.op \in Operations /\ RealClaims(run.claims)
      /\ run.start \in Nat /\ run.status \in Statuses
  BY <1>1, <1>3 DEF InvocationOK, Idle
<1>5. run.status = "UNAVAILABLE" \/ Elapsed(k) >= Deadline
  BY <1>1, <1>4, DeadlineAssumption DEF MayFallBack, Elapsed, Statuses
<1>6. InvocationOK(new, started(r))
  BY <1>4, <1>5 DEF InvocationOK
<1>7. ObserverOK(started(r))
  BY <1>2, ResolvedOK DEF ObserverOK
<1> HIDE DEF new, started
<1>8. PICK x, o : /\ controller' = [controller EXCEPT ![k] = x]
                  /\ observer' = [observer EXCEPT ![k] = o]
                  /\ InvocationOK(x, o) /\ ObserverOK(o)
  BY <1>1, <1>2, <1>6, <1>7
<1>9. ObserversOK'
  BY <1>1, <1>8, SameStore, ObserverMoves
<1>10. ControllerInv'
  BY <1>1, <1>8, InvocationMoves
<1>11. QED
  BY <1>1, <1>9, <1>10

(* Saving, or a crash at any point: the invocation and what it observed    *)
(* are gone, and the claims it saves are real.                             *)
LEMMA InvocationEnds ==
  ASSUME ControllerInv, ObserversOK, StoreOK, NEW k \in Observers,
         Save(k) \/ CrashController(k)
  PROVE  ControllerInv' /\ ObserversOK' /\ UNCHANGED <<clock, storeVars>>
<1>1. /\ controller' = [controller EXCEPT ![k] = Idle]
      /\ observer' = [observer EXCEPT ![k] = NoObservation]
      /\ UNCHANGED <<executions, published, clock, storeVars>>
  BY DEF Save, CrashController
<1>2. InvocationOK(controller[k], observer[k])
  BY DEF ControllerInv
<1>3. claims' = claims \/ RealClaims(claims')
  <2>1. CASE Save(k)
    <3>1. /\ controller[k].pc = "saving"
          /\ claims' = controller[k].claims \cup {controller[k].op}
      BY <2>1 DEF Save
    <3>2. /\ controller[k].op \in Operations /\ RealClaims(controller[k].claims)
          /\ executions[controller[k].op] > 0
      BY <1>2, <3>1 DEF InvocationOK, Idle
    <3>3. QED
      BY <3>1, <3>2 DEF RealClaims
  <2>2. CASE CrashController(k)
    BY <2>2 DEF CrashController
  <2>3. QED
    BY <2>1, <2>2
<1>4. InvocationOK(Idle, NoObservation) /\ ObserverOK(NoObservation)
  BY DEF InvocationOK, ObserverOK
<1>5. ObserversOK'
  BY <1>1, <1>4, SameStore, ObserverMoves
<1>6. ControllerInv'
  BY <1>1, <1>3, <1>4, InvocationMoves
<1>7. QED
  BY <1>1, <1>5, <1>6

(* Loading ends with a State to commit on, or with the observation. *)
LEMMA LoadsOrEnds ==
  ASSUME NEW o, NEW call, NEW retries, LoadsEnvelope(o, call, retries)
  PROVE  \E y : y.pc \in {"idle", "commit"} /\ observer' = [observer EXCEPT ![o] = y]
<1> DEFINE new == [pc |-> "commit", adapter |-> call.adapter, grant |-> call.grant,
                   envelope |-> call.envelope, probed |-> call.probed,
                   boundary |-> call.boundary, declaration |-> call.declaration,
                   base |-> Snapshot, retries |-> retries]
<1>1. \/ observer' = [observer EXCEPT ![o] = new]
      \/ observer' = [observer EXCEPT ![o] = NoObservation]
  BY DEF LoadsEnvelope
<1>2. new.pc = "commit" /\ NoObservation.pc = "idle"
  BY DEF NoObservation
<1> HIDE DEF new
<1>3. QED
  BY <1>1, <1>2

(* An observation under way: what it commits is counted as carried out. *)
LEMMA ObservesKeeps ==
  ASSUME ControllerInv, ObserversOK, StoreOK, NEW k \in Observers, Observes(k)
  PROVE  /\ ControllerInv' /\ ObserversOK' /\ UNCHANGED clock /\ StoreOK' /\ Grown
         /\ \/ UNCHANGED history
            \/ Revision' = Revision + 1 /\ history'[Revision + 1] = history[Revision]
         /\ Anchored
<1>1. /\ controller[k].pc = "observing"
      /\ UNCHANGED <<controller, claims, published>>
  BY DEF Observes
<1>2. InvocationOK(controller[k], observer[k])
  BY DEF ControllerInv
<1>3. controller[k].op \in Operations
  BY <1>1, <1>2 DEF InvocationOK, Idle
<1>4. CASE (Probe(k) \/ RetryEnvelope(k)) /\ UNCHANGED executions
  <2>1. ObserversOK' /\ UNCHANGED <<clock, storeVars>>
    BY <1>4, ProbeKeeps, RetryKeeps
  <2>2. PICK o : /\ o.pc \in {"idle", "commit"}
                 /\ observer' = [observer EXCEPT ![k] = o]
    <3>1. CASE Probe(k)
      <4>1. \/ observer' = [observer EXCEPT ![k] = NoObservation]
            \/ \E call, n : LoadsEnvelope(k, call, n)
        BY <3>1 DEF Probe
      <4>2. NoObservation.pc = "idle"
        BY DEF NoObservation
      <4>3. QED
        BY <4>1, <4>2, LoadsOrEnds
    <3>2. CASE RetryEnvelope(k)
      BY <3>2, LoadsOrEnds DEF RetryEnvelope
    <3>3. QED
      BY <1>4, <3>1, <3>2
  <2>3. InvocationOK(controller[k], o)
    BY <1>1, <1>2, <2>2 DEF InvocationOK, Idle
  <2>4. PICK x : x = controller[k] /\ controller' = [controller EXCEPT ![k] = x]
    BY <1>1 DEF ControllerInv
  <2>5. ControllerInv'
    BY <1>1, <1>4, <2>2, <2>3, <2>4, InvocationMoves
  <2>6. StoreOK' /\ Grown /\ UNCHANGED history /\ Anchored
    BY <2>1, SameStore DEF storeVars, Anchored
  <2>7. QED
    BY <2>1, <2>5, <2>6
<1>5. CASE /\ SwapEnvelope(k)
           /\ executions' = [executions EXCEPT ![controller[k].op] = @ + 1]
  <2>1. /\ ObserversOK' /\ UNCHANGED clock /\ StoreOK' /\ Grown
        /\ Revision' = Revision + 1 /\ history'[Revision + 1] = history[Revision]
        /\ Anchored
    BY <1>5, SwapKeeps
  <2>2. /\ executions' \in [Operations -> Nat] /\ executions'[controller[k].op] > 0
        /\ \A op \in Operations : executions[op] > 0 => executions'[op] > 0
    BY <1>3, <1>5 DEF ControllerInv
  <2>3. /\ observer'[k].pc = "received"
        /\ \A j \in Observers \ {k} : observer'[j] = observer[j]
    BY <1>5 DEF SwapEnvelope, ObserversOK
  <2>4. \A c : RealClaims(c) => RealClaims(c)'
    BY <2>2 DEF RealClaims
  <2>5. \A y, p : InvocationOK(y, p) => InvocationOK(y, p)'
    BY <2>2, <2>4 DEF InvocationOK
  <2>6. \A j \in Observers : InvocationOK(controller[j], observer[j])'
    <3>1. SUFFICES ASSUME NEW j \in Observers,
                          NEW y, NEW p, y = controller[j], p = observer'[j]
                   PROVE InvocationOK(y, p)'
      BY <1>1 DEF InvocationOK, RealClaims
    <3>2. CASE j = k
      BY <1>1, <1>2, <2>2, <2>3, <2>4, <3>1, <3>2 DEF InvocationOK, Idle
    <3>3. CASE j # k
      BY <2>3, <2>5, <3>1, <3>3 DEF ControllerInv
    <3>4. QED
      BY <3>2, <3>3
  <2>7. claims' = Torn \/ RealClaims(claims)'
    BY <1>1, <2>2 DEF ControllerInv, RealClaims
  <2>8. ControllerInv'
    BY <1>1, <2>2, <2>6, <2>7 DEF ControllerInv
  <2>9. QED
    BY <2>1, <2>8
<1>6. QED
  BY <1>4, <1>5 DEF Observes

FallbackInv == ChainInv /\ ObserversOK /\ ControllerInv /\ clock \in Nat

LEMMA ControllerStep ==
  ASSUME FallbackInv, ControllerNext
  PROVE  /\ ControllerInv' /\ ObserversOK' /\ clock' \in Nat /\ StoreOK' /\ Grown
         /\ \/ UNCHANGED history
            \/ Revision' = Revision + 1 /\ history'[Revision + 1] = history[Revision]
         /\ Anchored
<1> USE DEF FallbackInv, ChainInv
<1>1. ASSUME UNCHANGED storeVars
      PROVE StoreOK' /\ Grown /\ Anchored /\ UNCHANGED history
  BY <1>1, SameStore DEF storeVars, Anchored
<1>2. ASSUME UNCHANGED <<controller, claims, executions, observer>>,
             UNCHANGED published \/ published'.status \in Statuses
      PROVE ControllerInv'
  BY <1>2 DEF ControllerInv, InvocationOK, RealClaims
<1>3. CASE Tick /\ UNCHANGED controllerVars
  BY <1>1, <1>2, <1>3, ObserversKept DEF Tick, controllerVars
<1>4. CASE Publish
  <2>1. published'.status \in Statuses
    BY <1>4 DEF Publish, ClassifiedDispatch, Statuses
  <2>2. /\ UNCHANGED <<controller, claims, executions>>
        /\ UNCHANGED observationVars /\ UNCHANGED storeVars
    BY <1>4 DEF Publish
  <2>3. QED
    BY <1>1, <1>2, <2>1, <2>2, ObserversKept DEF observationVars
<1>5. ASSUME NEW k \in Observers,
             Invoke(k) \/ Poll(k) \/ EndsWithout(k) \/ ObservationFailed(k) \/ Truncate(k)
      PROVE /\ ControllerInv' /\ UNCHANGED observationVars /\ UNCHANGED storeVars
  BY <1>5, InvocationOwnStep
<1>6. ASSUME NEW k \in Observers, FallBack(k) \/ Save(k) \/ CrashController(k)
      PROVE ControllerInv' /\ ObserversOK' /\ UNCHANGED clock /\ UNCHANGED storeVars
  BY <1>6, FallBackKeeps, InvocationEnds
<1>7. ASSUME NEW k \in Observers, Observes(k)
      PROVE /\ ControllerInv' /\ ObserversOK' /\ UNCHANGED clock /\ StoreOK' /\ Grown
            /\ \/ UNCHANGED history
               \/ Revision' = Revision + 1 /\ history'[Revision + 1] = history[Revision]
            /\ Anchored
  BY <1>7, ObservesKeeps
<1>8. ASSUME UNCHANGED observationVars, UNCHANGED storeVars
      PROVE ObserversOK' /\ UNCHANGED clock
  BY <1>1, <1>8, ObserversKept DEF observationVars
<1>9. QED
  BY <1>1, <1>3, <1>4, <1>5, <1>6, <1>7, <1>8 DEF ControllerNext

LEMMA ControllerKept ==
  ASSUME ControllerInv, UNCHANGED <<observationVars, controllerVars>>
  PROVE  ControllerInv'
BY DEF ControllerInv, InvocationOK, RealClaims, observationVars, controllerVars

LEMMA FallbackStep ==
  FallbackInv /\ [FallbackNext]_fallbackVars =>
     FallbackInv' /\ [Anchored]_<<records, history>>
<1> SUFFICES ASSUME FallbackInv, [FallbackNext]_fallbackVars
             PROVE FallbackInv' /\ [Anchored]_<<records, history>>
  OBVIOUS
<1> USE DEF FallbackInv
<1>0. StoreOK
  BY DEF ChainInv
<1>1. CASE UNCHANGED fallbackVars
  <2>1. StoreOK' /\ Grown /\ UNCHANGED history /\ UNCHANGED records
    BY <1>0, <1>1, SameStore DEF fallbackVars, storeVars
  <2>2. QED
    BY <1>1, <2>1, SameHeadsKeep, ControllerKept, ObserversKept
       DEF fallbackVars, chainVars, observationVars
<1>2. CASE ControllerNext /\ UNCHANGED chainVars
  BY <1>2, ControllerStep, SameHeadsKeep DEF chainVars
<1>3. CASE ChainNext /\ UNCHANGED <<observationVars, controllerVars>>
  BY <1>3, ChainStep, ControllerKept, ObserversKept DEF observationVars, Anchored
<1>4. CASE OtherWriter /\ UNCHANGED <<chainVars, observationVars, controllerVars>>
  BY <1>0, <1>4, OtherGrows, SameHeadsKeep, ControllerKept, ObserversKept
     DEF chainVars, observationVars, Anchored
<1>5. QED
  BY <1>1, <1>2, <1>3, <1>4 DEF FallbackNext

LEMMA FallbackInvariant == FallbackSpec => []FallbackInv
<1>1. FallbackInit => FallbackInv
  <2>1. ControllerInit /\ ObservationInit => ControllerInv
    BY DEF ControllerInit, ObservationInit, ControllerInv, InvocationOK, RealClaims
  <2>2. QED
    BY <2>1, ChainsStart, ObserversStart DEF FallbackInit, FallbackInv
<1>2. QED
  BY <1>1, FallbackStep, PTL DEF FallbackSpec

(* Through crashes and invocations side by side: a probe is unattended     *)
(* only when Actions is not available or the deadline has passed, and what *)
(* is claimed was carried out.                                             *)
THEOREM FallbackHolds == FallbackSpec => []FallbackSound
<1>1. FallbackInv => FallbackSound
  BY ControllerSound DEF FallbackInv
<1>2. QED
  BY <1>1, FallbackInvariant, PTL

(* What the controller observes is as live, as redacted and as anchored as *)
(* any other observation.                                                  *)
THEOREM FallbackObservationsHold == FallbackSpec => ObservationSound
<1>1. FallbackInv => ProbesAreLive /\ NothingRedactedShown
  BY ObserversSound DEF FallbackInv
<1>2. FallbackSpec => [](ProbesAreLive /\ NothingRedactedShown)
  BY <1>1, FallbackInvariant, PTL
<1>3. FallbackInv /\ [FallbackNext]_fallbackVars =>
         [\A e \in Envelopes(records') \ Envelopes(records) :
            /\ history[Revision]["deployment"] = e.declaration
            /\ Resolved(e.declaration).status = "ACTIVE"]_<<records, history>>
  BY FallbackStep DEF Anchored
<1>4. FallbackSpec => EnvelopesAnchored
  BY <1>3, FallbackInvariant, PTL DEF FallbackSpec, EnvelopesAnchored
<1>5. QED
  BY <1>2, <1>4 DEF ObservationSound
=============================================================================
