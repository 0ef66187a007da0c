------------------------ MODULE FileStateStore_proofs ------------------------
(***************************************************************************)
(* The State Store, for every set of transactions, records, bodies and     *)
(* readers.                                                                *)
(*                                                                         *)
(* Under any calls, crashes and recoveries (Spec): DurableInv is inductive,*)
(* one lemma per action showing that it keeps each conjunct; from it, the  *)
(* COMMITTED marker is a promise about the disk (DurableCorrect), the      *)
(* committed lineage only grows at its end (ViewMonotone), the unlocked    *)
(* readers return committed States (LoadsCommitted) and a resolved record  *)
(* keeps its body (RecordsImmutable).                                      *)
(*                                                                         *)
(* Where recover runs before the next commit (OperatedSpec): OperatedInv   *)
(* is inductive; from it, the lineage is one unbroken chain (LineageHolds),*)
(* acknowledgements stand (AcksHold), the State can be reconstructed       *)
(* unless a crash may tear a line (AlwaysReadable), and the Store          *)
(* implements the register of StateRegister (StoreImplementsRegister).     *)
(***************************************************************************)
EXTENDS FileStateStoreInv, WellOrder, SequenceTheorems, TLAPS

(* CommittedLen's CHOOSE is of something: the length of a committed prefix *)
(* that the next event, if any, does not extend.                           *)
LEMMA CommittedLenFact ==
  ASSUME TypeOK
  PROVE  /\ CommittedLen \in 0 .. Len(lineage)
         /\ \A i \in 1 .. CommittedLen : Committed(lineage[i].tx)
         /\ CommittedLen < Len(lineage) => ~Committed(lineage[CommittedLen + 1].tx)
<1> DEFINE C == {i \in 1 .. Len(lineage) : lineage[i].tx \in CommittedTx}
<1>1. Len(lineage) \in Nat
  BY DEF TypeOK
<1>2. PICK k \in 0 .. Len(lineage) :
        (\A i \in 1 .. k : i \in C) /\ (k < Len(lineage) => (k + 1) \notin C)
  BY <1>1, PrefixEnds
<1>3. k < Len(lineage) => k + 1 \in 1 .. Len(lineage)
  BY <1>1
<1>4. \A i \in C : lineage[i].tx \in CommittedTx
  OBVIOUS
<1>5. \A i \in 1 .. Len(lineage) : lineage[i].tx \in CommittedTx => i \in C
  OBVIOUS
<1> HIDE DEF C
<1>6. \A i \in 1 .. k : lineage[i].tx \in CommittedTx
  BY <1>2, <1>4
<1>7. k < Len(lineage) => lineage[k + 1].tx \notin CommittedTx
  BY <1>2, <1>3, <1>5
<1> QED
  BY <1>6, <1>7 DEF CommittedLen, Committed

(* The lock holder's locals have their type when nobody holds the lock. *)
LEMMA NoJobType == NoJob \in JobType
BY GenesisAssumption DEF JobType, NoJob, NoRecords, Records

(* Where reconstruct returns, it returns a State. *)
LEMMA ReconstructedType ==
  ASSUME TypeOK, Reconstructs
  PROVE  Reconstructed \in State
<1>1. CommittedLen \in 1 .. Len(lineage)
  BY CommittedLenFact DEF Reconstructs, TypeOK
<1>2. lineage[CommittedLen] \in Event
  BY <1>1 DEF TypeOK
<1> QED
  BY <1>2 DEF Reconstructed, StateOf, State, Event

(* Whatever base a caller of commit loaded is a State. *)
LEMMA CommittedStatesType ==
  ASSUME TypeOK
  PROVE  CommittedStates \subseteq State
<1>1. \A i \in 1 .. CommittedLen : lineage[i] \in Event
  BY CommittedLenFact DEF TypeOK
<1> QED
  BY <1>1 DEF CommittedStates, StateOf, State, Event

(* An accepted commit: its journal is new, its event not in the lineage. *)
LEMMA CommitBeginKeeps ==
  ASSUME DurableInv, NEW t \in Tx \ {Genesis}, NEW base \in State, NEW f \in Fp,
         NEW rs \in Records, CommitBegin(t, base, f, rs)
  PROVE  DurableInv'
<1> USE DEF DurableInv, CommitBegin, AddFile, Free
<1>1. TypeOK'
  BY NoneAssumption, GenesisAssumption
     DEF TypeOK, JournalsOK, JobOK, CallOK, Unappended, Appended, Intended,
         JobType, Step, JournalFile, NoJob, NoRecords, Records, State, Event,
         SuccessorOf
<1>2. JournalsOK'
  BY NoneAssumption DEF TypeOK, JournalsOK, JobOK
<1>3. JobOK'
  <2>1. job'.ev \in Event /\ job'.ev.tx = job'.tx
    BY DEF SuccessorOf, Event, State
  <2>2. pc' = "WriteEvent" /\ job'.tx \notin TxsOf(lineage)
    OBVIOUS
  <2> QED
    BY <2>1 DEF JobOK, Appended, Intended
<1>4. CallOK'
  BY GenesisAssumption DEF TypeOK, JournalsOK, JobOK, CallOK, EndsAtView
<1>5. CommittedIsDurable'
  BY DEF TypeOK, JournalsOK, JobOK, CallOK, CommittedIsDurable
<1>6. NoDuplicateEvents'
  BY DEF NoDuplicateEvents
<1> QED BY <1>1, <1>2, <1>3, <1>4, <1>5, <1>6

(* The replay of a transaction writes nothing but the view. *)
LEMMA CommitReplayKeeps ==
  ASSUME DurableInv, NEW e \in Event, NEW rs \in Records, CommitReplay(e, rs)
  PROVE  DurableInv'
<1> USE DEF DurableInv, CommitReplay, Ack, journals, Free
<1>1. TypeOK'
  BY NoneAssumption, GenesisAssumption
     DEF TypeOK, JournalsOK, JobOK, CallOK, Unappended, Appended, Intended,
         JobType, Step, JournalFile, NoJob, NoRecords, Records, StateOf,
         State, Event
<1>2. JournalsOK'
  BY NoneAssumption DEF TypeOK, JournalsOK, JobOK
<1>3. JobOK'
  BY GenesisAssumption
     DEF TypeOK, JournalsOK, JobOK, CallOK, Unappended, Appended, Intended
<1>4. CallOK'
  BY GenesisAssumption DEF TypeOK, JournalsOK, JobOK, CallOK
<1>5. CommittedIsDurable'
  BY DEF TypeOK, JournalsOK, JobOK, CallOK, CommittedIsDurable
<1>6. NoDuplicateEvents'
  BY DEF NoDuplicateEvents
<1> QED BY <1>1, <1>2, <1>3, <1>4, <1>5, <1>6

(* initialize is let in only on an empty lineage. *)
LEMMA InitializeBeginKeeps ==
  ASSUME DurableInv, NEW f \in Fp, NEW rs \in Records, InitializeBegin(f, rs)
  PROVE  DurableInv'
<1> USE DEF DurableInv, InitializeBegin, AddFile, Uninitialized, Free
<1>0. GenesisEvent(f, rs) \in Event /\ GenesisEvent(f, rs).tx = Genesis
  <2>1. ReceiptOf(rs) \in Receipt
    BY DEF ReceiptOf, Receipt, Supplied
  <2> QED
    BY <2>1, GenesisAssumption DEF GenesisEvent, Event
<1>1. TypeOK'
  <2>1. job' \in JobType /\ pc' \in Step
    BY <1>0, GenesisAssumption DEF JobType, Step
  <2>2. files' \in [Tx -> SUBSET JournalFile]
    BY GenesisAssumption DEF TypeOK, JournalFile
  <2> QED
    BY <2>1, <2>2 DEF TypeOK
<1>2. JournalsOK'
  BY NoneAssumption DEF TypeOK, JournalsOK, JobOK, Supplied
<1>3. JobOK'
  <2>1. job'.ev \in Event /\ job'.ev.tx = job'.tx
    BY <1>0
  <2>2. pc' \in {"WriteReceipt", "WriteEvent"} /\ TxsOf(lineage') = {}
    BY DEF TxsOf
  <2> QED
    BY <2>1, <2>2 DEF JobOK, Appended, Intended
<1>4. CallOK'
  BY GenesisAssumption DEF TypeOK, JournalsOK, JobOK, CallOK, EndsAtView
<1>5. CommittedIsDurable'
  BY DEF TypeOK, JournalsOK, JobOK, CallOK, CommittedIsDurable
<1>6. NoDuplicateEvents'
  BY DEF NoDuplicateEvents
<1> QED BY <1>1, <1>2, <1>3, <1>4, <1>5, <1>6

(* event.json is written before any COMMIT_INTENT can be. *)
LEMMA WriteEventKeeps ==
  ASSUME DurableInv, WriteEvent
  PROVE  DurableInv'
<1> USE DEF DurableInv, WriteEvent, AddFile, Goto
<1>1. TypeOK'
  BY NoneAssumption, GenesisAssumption
     DEF TypeOK, JournalsOK, JobOK, CallOK, Unappended, Appended, Intended,
         JobType, Step, JournalFile, NoJob, NoRecords, Records
<1>2. JournalsOK'
  BY DEF TypeOK, JournalsOK, JobOK, Unappended, TxsOf
<1>3. JobOK'
  BY GenesisAssumption
     DEF TypeOK, JournalsOK, JobOK, CallOK, Unappended, Appended, Intended,
         JobType
<1>4. CallOK'
  BY GenesisAssumption
     DEF TypeOK, JournalsOK, JobOK, CallOK, Unappended, EndsAtView
<1>5. CommittedIsDurable'
  BY DEF TypeOK, JournalsOK, JobOK, CallOK, Unappended, TxsOf,
         CommittedIsDurable
<1>6. NoDuplicateEvents'
  BY DEF NoDuplicateEvents
<1> QED BY <1>1, <1>2, <1>3, <1>4, <1>5, <1>6

(* Every record the manifest claims is staged or permanent already. *)
LEMMA StageRecordsKeeps ==
  ASSUME DurableInv, StageRecords
  PROVE  DurableInv'
<1> USE DEF DurableInv, StageRecords, AddFile, Goto, AfterStaging
<1>1. TypeOK'
  BY NoneAssumption, GenesisAssumption
     DEF TypeOK, JournalsOK, JobOK, CallOK, Unappended, Appended, Intended,
         JobType, Step, JournalFile, NoJob, NoRecords, Records, Supplied
<1>2. JournalsOK'
  BY NoneAssumption DEF TypeOK, JournalsOK, JobOK, Supplied
<1>3. JobOK'
  BY GenesisAssumption
     DEF TypeOK, JournalsOK, JobOK, CallOK, Unappended, Appended, Intended
<1>4. CallOK'
  BY GenesisAssumption
     DEF TypeOK, JournalsOK, JobOK, CallOK, Unappended, EndsAtView
<1>5. CommittedIsDurable'
  BY DEF TypeOK, JournalsOK, JobOK, CallOK, Unappended, TxsOf,
         CommittedIsDurable
<1>6. NoDuplicateEvents'
  BY DEF NoDuplicateEvents
<1> QED BY <1>1, <1>2, <1>3, <1>4, <1>5, <1>6

(* A RecordConflictError leaves the journal without COMMIT_INTENT. *)
LEMMA StageConflictKeeps ==
  ASSUME DurableInv, StageConflict
  PROVE  DurableInv'
<1> USE DEF DurableInv, StageConflict, Release, disk
<1>1. TypeOK'
  BY NoneAssumption, GenesisAssumption
     DEF TypeOK, JournalsOK, JobOK, CallOK, Unappended, Appended, Intended,
         JobType, Step, JournalFile, NoJob, NoRecords, Records
<1>2. JournalsOK'
  BY NoneAssumption DEF TypeOK, JournalsOK, JobOK
<1>3. JobOK'
  BY GenesisAssumption
     DEF TypeOK, JournalsOK, JobOK, CallOK, Unappended, Appended, Intended
<1>4. CallOK'
  BY GenesisAssumption DEF TypeOK, JournalsOK, JobOK, CallOK, NoJob
<1>5. CommittedIsDurable'
  BY DEF TypeOK, JournalsOK, JobOK, CallOK, CommittedIsDurable
<1>6. NoDuplicateEvents'
  BY DEF NoDuplicateEvents
<1> QED BY <1>1, <1>2, <1>3, <1>4, <1>5, <1>6

(* The genesis receipt, with a journal or, for a bare genesis, without one. *)
LEMMA WriteReceiptKeeps ==
  ASSUME DurableInv, WriteReceipt
  PROVE  DurableInv'
<1> USE DEF DurableInv, WriteReceipt, Goto, journals
<1>1. TypeOK'
  BY NoneAssumption, GenesisAssumption
     DEF TypeOK, JournalsOK, JobOK, CallOK, Unappended, Appended, Intended,
         JobType, Step, JournalFile, NoJob, NoRecords, Records, Event
<1>2. JournalsOK'
  BY NoneAssumption DEF TypeOK, JournalsOK, JobOK
<1>3. JobOK'
  BY GenesisAssumption
     DEF TypeOK, JournalsOK, JobOK, CallOK, Unappended, Appended, Intended,
         EndsAtView
<1>4. CallOK'
  BY GenesisAssumption
     DEF TypeOK, JournalsOK, JobOK, CallOK, Unappended, EndsAtView
<1>5. CommittedIsDurable'
  BY DEF TypeOK, JournalsOK, JobOK, CallOK, CommittedIsDurable
<1>6. NoDuplicateEvents'
  BY DEF NoDuplicateEvents
<1> QED BY <1>1, <1>2, <1>3, <1>4, <1>5, <1>6

(* COMMIT_INTENT follows the journal's event.json. *)
LEMMA WriteIntentKeeps ==
  ASSUME DurableInv, WriteIntent
  PROVE  DurableInv'
<1> USE DEF DurableInv, WriteIntent, AddFile, Goto
<1>1. TypeOK'
  BY NoneAssumption, GenesisAssumption
     DEF TypeOK, JournalsOK, JobOK, CallOK, Unappended, Appended, Intended,
         JobType, Step, JournalFile, NoJob, NoRecords, Records
<1>2. JournalsOK'
  BY NoneAssumption DEF TypeOK, JournalsOK, JobOK, CallOK
<1>3. JobOK'
  BY GenesisAssumption
     DEF TypeOK, JournalsOK, JobOK, CallOK, Unappended, Appended, JobType
<1>4. CallOK'
  BY GenesisAssumption
     DEF TypeOK, JournalsOK, JobOK, CallOK, Unappended, EndsAtView
<1>5. CommittedIsDurable'
  BY DEF TypeOK, JournalsOK, JobOK, CallOK, CommittedIsDurable
<1>6. NoDuplicateEvents'
  BY DEF NoDuplicateEvents
<1> QED BY <1>1, <1>2, <1>3, <1>4, <1>5, <1>6

(* The one append of a transaction, by commit or by recover. *)
LEMMA AppendLineageKeeps ==
  ASSUME DurableInv, AppendLineage
  PROVE  DurableInv'
<1> USE DEF DurableInv, AppendLineage, Goto, journals
<1>1. TypeOK'
  BY NoneAssumption, GenesisAssumption
     DEF TypeOK, JournalsOK, JobOK, CallOK, Unappended, Appended, Intended,
         JobType, Step, JournalFile, NoJob, NoRecords, Records
<1>2. JournalsOK'
  BY NoneAssumption
     DEF TypeOK, JournalsOK, JobOK, CallOK, Unappended, Intended
<1>3. JobOK'
  BY GenesisAssumption
     DEF TypeOK, JournalsOK, JobOK, CallOK, Unappended, Appended, Intended
<1>4. CallOK'
  BY GenesisAssumption
     DEF TypeOK, JournalsOK, JobOK, CallOK, Unappended, EndsAtView
<1>5. CommittedIsDurable'
  BY DEF TypeOK, JournalsOK, JobOK, CallOK, Appended, JournalFile, EndsAtView,
         AllPromoted, CommittedIsDurable
<1>6. NoDuplicateEvents'
  BY DEF JobOK, Unappended, TxsOf, NoDuplicateEvents
<1> QED BY <1>1, <1>2, <1>3, <1>4, <1>5, <1>6

(* The bare genesis writes the first line of an empty lineage. *)
LEMMA WriteLineageKeeps ==
  ASSUME DurableInv, WriteLineage
  PROVE  DurableInv'
<1> USE DEF DurableInv, WriteLineage, Goto, journals
<1>1. TypeOK'
  BY NoneAssumption, GenesisAssumption
     DEF TypeOK, JournalsOK, JobOK, CallOK, Unappended, Appended, Intended,
         JobType, Step, JournalFile, NoJob, NoRecords, Records
<1>2. JournalsOK'
  BY NoneAssumption DEF TypeOK, JournalsOK, JobOK, CallOK, Unappended
<1>3. JobOK'
  BY GenesisAssumption
     DEF TypeOK, JournalsOK, JobOK, CallOK, Unappended, Appended, EndsAtView
<1>4. CallOK'
  BY GenesisAssumption DEF TypeOK, JournalsOK, JobOK, CallOK, Unappended
<1>5. CommittedIsDurable'
  BY DEF TypeOK, JournalsOK, JobOK, CallOK, Unappended, CommittedIsDurable
<1>6. NoDuplicateEvents'
  BY DEF NoDuplicateEvents
<1> QED BY <1>1, <1>2, <1>3, <1>4, <1>5, <1>6

(* Promotion fills an absent permanent file and changes no other. *)
LEMMA PromoteRecordKeeps ==
  ASSUME DurableInv, NEW r \in Rec, PromoteRecord(r)
  PROVE  DurableInv'
<1> USE DEF DurableInv, PromoteRecord, Promotable, journals
<1>1. TypeOK'
  BY NoneAssumption, GenesisAssumption
     DEF TypeOK, JournalsOK, JobOK, CallOK, Unappended, Appended, Intended,
         JobType, Step, JournalFile, NoJob, NoRecords, Records
<1>2. JournalsOK'
  BY NoneAssumption DEF TypeOK, JournalsOK, JobOK
<1>3. JobOK'
  BY GenesisAssumption
     DEF TypeOK, JournalsOK, JobOK, CallOK, Unappended, Appended
<1>4. CallOK'
  BY GenesisAssumption DEF TypeOK, JournalsOK, JobOK, CallOK, EndsAtView
<1>5. CommittedIsDurable'
  BY DEF TypeOK, JournalsOK, JobOK, CallOK, CommittedIsDurable
<1>6. NoDuplicateEvents'
  BY DEF NoDuplicateEvents
<1> QED BY <1>1, <1>2, <1>3, <1>4, <1>5, <1>6

(* A diverging staged body releases the lock and changes no file. *)
LEMMA PromoteDivergesKeeps ==
  ASSUME DurableInv, PromoteDiverges
  PROVE  DurableInv'
<1> USE DEF DurableInv, PromoteDiverges, Release, disk
<1>1. TypeOK'
  BY NoneAssumption, GenesisAssumption
     DEF TypeOK, JournalsOK, JobOK, CallOK, Unappended, Appended, Intended,
         JobType, Step, JournalFile, NoJob, NoRecords, Records
<1>2. JournalsOK'
  BY NoneAssumption DEF TypeOK, JournalsOK, JobOK
<1>3. JobOK'
  BY GenesisAssumption
     DEF TypeOK, JournalsOK, JobOK, CallOK, Unappended, Appended, Intended
<1>4. CallOK'
  BY GenesisAssumption DEF TypeOK, JournalsOK, JobOK, CallOK, NoJob
<1>5. CommittedIsDurable'
  BY DEF TypeOK, JournalsOK, JobOK, CallOK, CommittedIsDurable
<1>6. NoDuplicateEvents'
  BY DEF NoDuplicateEvents
<1> QED BY <1>1, <1>2, <1>3, <1>4, <1>5, <1>6

(* Past promotion every staged record is permanent. *)
LEMMA PromoteDoneKeeps ==
  ASSUME DurableInv, PromoteDone
  PROVE  DurableInv'
<1> USE DEF DurableInv, PromoteDone, Goto, disk
<1>1. TypeOK'
  BY NoneAssumption, GenesisAssumption
     DEF TypeOK, JournalsOK, JobOK, CallOK, Unappended, Appended, Intended,
         JobType, Step, JournalFile, NoJob, NoRecords, Records
<1>2. JournalsOK'
  BY NoneAssumption DEF TypeOK, JournalsOK, JobOK
<1>3. JobOK'
  BY GenesisAssumption
     DEF TypeOK, JournalsOK, JobOK, CallOK, Unappended, Appended, Intended,
         AllPromoted
<1>4. CallOK'
  BY GenesisAssumption
     DEF TypeOK, JournalsOK, JobOK, CallOK, Unappended, EndsAtView
<1>5. CommittedIsDurable'
  BY DEF TypeOK, JournalsOK, JobOK, CallOK, CommittedIsDurable
<1>6. NoDuplicateEvents'
  BY DEF NoDuplicateEvents
<1> QED BY <1>1, <1>2, <1>3, <1>4, <1>5, <1>6

(* The view is no part of what COMMITTED promises. *)
LEMMA ReplaceCurrentKeeps ==
  ASSUME DurableInv, ReplaceCurrent
  PROVE  DurableInv'
<1> USE DEF DurableInv, ReplaceCurrent, Release, Goto, Ack, journals
<1>1. TypeOK'
  BY NoneAssumption, GenesisAssumption
     DEF TypeOK, JournalsOK, JobOK, CallOK, Unappended, Appended, Intended,
         JobType, Step, JournalFile, NoJob, NoRecords, Records, StateOf,
         State, Event
<1>2. JournalsOK'
  BY NoneAssumption DEF TypeOK, JournalsOK, JobOK
<1>3. JobOK'
  BY GenesisAssumption
     DEF TypeOK, JournalsOK, JobOK, CallOK, Unappended, Appended, Intended,
         AllPromoted
<1>4. CallOK'
  <2>1. CASE EndsAtView
    BY <2>1 DEF CallOK, NoJob
  <2>2. CASE ~EndsAtView
    <3>1. job' = job /\ pc' = "MarkCommitted" /\ ~EndsAtView' /\ job.op # "recover"
      BY <2>2 DEF EndsAtView, CallOK
    <3> QED
      BY <3>1 DEF CallOK, Unappended
  <2> QED
    BY <2>1, <2>2
<1>5. CommittedIsDurable'
  BY DEF TypeOK, JournalsOK, JobOK, CallOK, CommittedIsDurable
<1>6. NoDuplicateEvents'
  BY DEF NoDuplicateEvents
<1> QED BY <1>1, <1>2, <1>3, <1>4, <1>5, <1>6

(* COMMITTED is written once the event and all records are durable. *)
LEMMA MarkCommittedKeeps ==
  ASSUME DurableInv, MarkCommitted
  PROVE  DurableInv'
<1> USE DEF DurableInv, MarkCommitted, AddFile, Release, Ack
<1>1. TypeOK'
  <2>0. job.todo \ {job.tx} \in SUBSET Tx /\ job \in JobType
    BY DEF TypeOK, JobType
  <2>1. job' \in JobType
    BY NoJobType, <2>0 DEF JobType
  <2>2. files' \in [Tx -> SUBSET JournalFile]
    BY DEF TypeOK, JobType, JournalFile
  <2>3. acked' \in SUBSET Tx /\ pc' \in Step
    BY DEF TypeOK, JobType, Step
  <2> QED
    BY <2>1, <2>2, <2>3 DEF TypeOK
<1>2. JournalsOK'
  BY NoneAssumption DEF TypeOK, JournalsOK, JobOK, CallOK, Appended, Intended
<1>3. JobOK'
  BY GenesisAssumption
     DEF TypeOK, JournalsOK, JobOK, CallOK, Unappended, Appended, Intended
<1>4. CallOK'
  BY GenesisAssumption DEF TypeOK, JournalsOK, JobOK, CallOK, JobType, NoJob
<1>5. CommittedIsDurable'
  BY DEF TypeOK, JournalsOK, JobOK, CallOK, Appended, Intended, AllPromoted,
         CommittedIsDurable
<1>6. NoDuplicateEvents'
  BY DEF NoDuplicateEvents
<1> QED BY <1>1, <1>2, <1>3, <1>4, <1>5, <1>6

(* recover only lists journals that hold COMMIT_INTENT. *)
LEMMA RecoverBeginKeeps ==
  ASSUME DurableInv, RecoverBegin
  PROVE  DurableInv'
<1> USE DEF DurableInv, RecoverBegin, Free, disk
<1>1. TypeOK'
  <2>1. NoJob \in JobType /\ {t \in Tx : Recoverable(t)} \in SUBSET Tx
    BY NoJobType
  <2>2. job' \in JobType
    BY <2>1 DEF JobType
  <2> QED
    BY <2>2 DEF TypeOK, Step
<1>2. JournalsOK'
  BY NoneAssumption DEF TypeOK, JournalsOK, JobOK
<1>3. JobOK'
  BY GenesisAssumption
     DEF TypeOK, JournalsOK, JobOK, CallOK, Unappended, Appended, Intended
<1>4. CallOK'
  BY GenesisAssumption
     DEF TypeOK, JournalsOK, JobOK, CallOK, NoJob, Recoverable
<1>5. CommittedIsDurable'
  BY DEF TypeOK, JournalsOK, JobOK, CallOK, CommittedIsDurable
<1>6. NoDuplicateEvents'
  BY DEF NoDuplicateEvents
<1> QED BY <1>1, <1>2, <1>3, <1>4, <1>5, <1>6

(* recover resumes at the append exactly when the event is missing. *)
LEMMA RecoverJournalKeeps ==
  ASSUME DurableInv, NEW t \in Tx, RecoverJournal(t)
  PROVE  DurableInv'
<1> USE DEF DurableInv, RecoverJournal, ResumeAt, disk
<1>1. TypeOK'
  BY NoneAssumption, GenesisAssumption
     DEF TypeOK, JournalsOK, JobOK, CallOK, Unappended, Appended, Intended,
         JobType, Step, JournalFile, NoJob, NoRecords, Records
<1>2. JournalsOK'
  BY NoneAssumption DEF TypeOK, JournalsOK, JobOK
<1>3. JobOK'
  <2>1. /\ "COMMIT_INTENT" \in files[t] /\ "event" \in files[t]
        /\ jevent[t] \in Event /\ jevent[t].tx = t
    BY DEF JournalsOK, CallOK
  <2>2. job'.tx = t /\ job'.ev = jevent[t] /\ job'.op = job.op
    BY DEF TypeOK, JobType
  <2>3. ASSUME t \in TxsOf(lineage) PROVE \E i \in DOMAIN lineage : lineage[i] = jevent[t]
    BY <2>1, <2>3 DEF TxsOf, JournalsOK, JournalTrusted
  <2> QED
    BY <2>1, <2>3 DEF JobOK, Unappended, Appended
<1>4. CallOK'
  BY GenesisAssumption DEF TypeOK, JournalsOK, JobOK, CallOK, EndsAtView
<1>5. CommittedIsDurable'
  BY DEF TypeOK, JournalsOK, JobOK, CallOK, CommittedIsDurable
<1>6. NoDuplicateEvents'
  BY DEF NoDuplicateEvents
<1> QED BY <1>1, <1>2, <1>3, <1>4, <1>5, <1>6

(* recover refuses an unbound genesis journal and changes no file. *)
LEMMA RecoverDistrustsKeeps ==
  ASSUME DurableInv, NEW t \in Tx, RecoverDistrusts(t)
  PROVE  DurableInv'
<1> USE DEF DurableInv, RecoverDistrusts, Release, disk
<1>1. TypeOK'
  BY NoneAssumption, GenesisAssumption
     DEF TypeOK, JournalsOK, JobOK, CallOK, Unappended, Appended, Intended,
         JobType, Step, JournalFile, NoJob, NoRecords, Records
<1>2. JournalsOK'
  BY NoneAssumption DEF TypeOK, JournalsOK, JobOK
<1>3. JobOK'
  BY GenesisAssumption
     DEF TypeOK, JournalsOK, JobOK, CallOK, Unappended, Appended, Intended
<1>4. CallOK'
  BY GenesisAssumption DEF TypeOK, JournalsOK, JobOK, CallOK, NoJob
<1>5. CommittedIsDurable'
  BY DEF TypeOK, JournalsOK, JobOK, CallOK, CommittedIsDurable
<1>6. NoDuplicateEvents'
  BY DEF NoDuplicateEvents
<1> QED BY <1>1, <1>2, <1>3, <1>4, <1>5, <1>6

(* recover's last write is the view. *)
LEMMA RecoverFinishKeeps ==
  ASSUME DurableInv, RecoverFinish
  PROVE  DurableInv'
<1> USE DEF DurableInv, RecoverFinish, Release, journals
<1>1. TypeOK'
  <2>1. Reconstructs => Reconstructed \in State
    BY ReconstructedType
  <2>2. current' \in State \cup {None}
    BY <2>1 DEF TypeOK
  <2> QED
    BY <2>2, NoJobType DEF TypeOK, Step
<1>2. JournalsOK'
  BY NoneAssumption DEF TypeOK, JournalsOK, JobOK
<1>3. JobOK'
  BY GenesisAssumption
     DEF TypeOK, JournalsOK, JobOK, CallOK, Unappended, Appended, Intended
<1>4. CallOK'
  BY GenesisAssumption DEF TypeOK, JournalsOK, JobOK, CallOK, NoJob
<1>5. CommittedIsDurable'
  BY DEF TypeOK, JournalsOK, JobOK, CallOK, CommittedIsDurable
<1>6. NoDuplicateEvents'
  BY DEF NoDuplicateEvents
<1> QED BY <1>1, <1>2, <1>3, <1>4, <1>5, <1>6

(* A crash between two writes loses the locals and no file. *)
LEMMA CrashKeeps ==
  ASSUME DurableInv, Crash
  PROVE  DurableInv'
<1> USE DEF DurableInv, Crash, Release, disk
<1>1. TypeOK'
  BY NoneAssumption, GenesisAssumption
     DEF TypeOK, JournalsOK, JobOK, CallOK, Unappended, Appended, Intended,
         JobType, Step, JournalFile, NoJob, NoRecords, Records
<1>2. JournalsOK'
  BY NoneAssumption DEF TypeOK, JournalsOK, JobOK
<1>3. JobOK'
  BY GenesisAssumption
     DEF TypeOK, JournalsOK, JobOK, CallOK, Unappended, Appended, Intended
<1>4. CallOK'
  BY GenesisAssumption DEF TypeOK, JournalsOK, JobOK, CallOK, NoJob
<1>5. CommittedIsDurable'
  BY DEF TypeOK, JournalsOK, JobOK, CallOK, CommittedIsDurable
<1>6. NoDuplicateEvents'
  BY DEF NoDuplicateEvents
<1> QED BY <1>1, <1>2, <1>3, <1>4, <1>5, <1>6

(* A crash inside the append adds no complete line. *)
LEMMA CrashMidAppendKeeps ==
  ASSUME DurableInv, CrashMidAppend
  PROVE  DurableInv'
<1> USE DEF DurableInv, CrashMidAppend, Release, journals
<1>1. TypeOK'
  BY NoneAssumption, GenesisAssumption
     DEF TypeOK, JournalsOK, JobOK, CallOK, Unappended, Appended, Intended,
         JobType, Step, JournalFile, NoJob, NoRecords, Records
<1>2. JournalsOK'
  BY NoneAssumption DEF TypeOK, JournalsOK, JobOK
<1>3. JobOK'
  BY GenesisAssumption
     DEF TypeOK, JournalsOK, JobOK, CallOK, Unappended, Appended, Intended
<1>4. CallOK'
  BY GenesisAssumption DEF TypeOK, JournalsOK, JobOK, CallOK, NoJob
<1>5. CommittedIsDurable'
  BY DEF TypeOK, JournalsOK, JobOK, CallOK, CommittedIsDurable
<1>6. NoDuplicateEvents'
  BY DEF NoDuplicateEvents
<1> QED BY <1>1, <1>2, <1>3, <1>4, <1>5, <1>6

(* A reader writes at most a missing view. *)
LEMMA ReadKeeps ==
  ASSUME DurableInv, Read
  PROVE  DurableInv'
<1> USE DEF DurableInv, LoadReconstruct, LoadCheck, LoadWrite, BootBegin, BootReconstruct,
    BootCheck, ReadDone, ReadStep, Read, disk, journals
<1>1. TypeOK'
  <2> SUFFICES ASSUME NEW p \in Readers,
                      \/ LoadReconstruct(p) \/ LoadCheck(p) \/ LoadWrite(p)
                      \/ BootBegin(p) \/ BootReconstruct(p) \/ BootCheck(p)
                      \/ ReadDone(p)
               PROVE  rd' \in [Readers -> Reader] /\ current' \in State \cup {None}
    BY DEF TypeOK
  <2>1. rd[p].snap \in State \cup {None} /\ (Reconstructs => Reconstructed \in State)
    BY ReconstructedType DEF TypeOK, Reader
  <2>2. rd' \in [Readers -> Reader]
    BY <2>1 DEF TypeOK, Reader
  <2>3. current' \in State \cup {None}
    BY <2>1 DEF TypeOK
  <2> QED
    BY <2>2, <2>3
<1>2. JournalsOK'
  BY NoneAssumption DEF TypeOK, JournalsOK, JobOK
<1>3. JobOK'
  BY GenesisAssumption
     DEF TypeOK, JournalsOK, JobOK, CallOK, Unappended, Appended, EndsAtView,
         AllPromoted
<1>4. CallOK'
  BY GenesisAssumption DEF TypeOK, JournalsOK, JobOK, CallOK, EndsAtView
<1>5. CommittedIsDurable'
  BY DEF TypeOK, JournalsOK, JobOK, CallOK, CommittedIsDurable
<1>6. NoDuplicateEvents'
  BY DEF NoDuplicateEvents
<1> QED BY <1>1, <1>2, <1>3, <1>4, <1>5, <1>6

(* The empty disk satisfies the invariant. *)
LEMMA DurableInit == Init => DurableInv
<1> SUFFICES ASSUME Init PROVE DurableInv
  OBVIOUS
<1> USE DEF Init
<1>1. TypeOK
  <2>1. NoRecords \in Records
    BY DEF NoRecords, Records
  <2>2. rd \in [Readers -> Reader]
    BY DEF Reader, IdleReader
  <2>3. files \in [Tx -> SUBSET JournalFile] /\ jevent \in [Tx -> Event \cup {None}]
    OBVIOUS
  <2>4. manifest \in [Tx -> SUBSET Rec] /\ staged \in [Tx -> Records]
    BY <2>1
  <2>5. lineage \in Seq(Event)
    BY SMT
  <2>6. torn \in BOOLEAN
    BY Zenon
  <2>7. record \in Records
    BY <2>1
  <2>8. pc \in Step /\ job \in JobType
    BY NoJobType DEF Step
  <2>9. /\ manifest \in [Tx -> SUBSET Rec] /\ acked \in SUBSET Tx
        /\ current \in State \cup {None} /\ receipt \in Receipt \cup {None}
    OBVIOUS
  <2> QED
    BY <2>1, <2>2, <2>3, <2>4, <2>5, <2>6, <2>7, <2>8, <2>9, ZenonT(30)
       DEF TypeOK
<1>2. JournalsOK
  BY DEF JournalsOK
<1>3. JobOK /\ CallOK
  BY DEF JobOK, CallOK, Unappended, Appended, Intended, NoJob
<1>4. CommittedIsDurable /\ NoDuplicateEvents
  BY DEF CommittedIsDurable, NoDuplicateEvents
<1> QED
  BY <1>1, <1>2, <1>3, <1>4 DEF DurableInv

(* A step of the Store, whoever takes it. *)
LEMMA DurableNext == DurableInv /\ [Next]_vars => DurableInv'
<1> SUFFICES ASSUME DurableInv, [Next]_vars PROVE DurableInv'
  OBVIOUS
<1>1. CASE CallCommit
  <2>1. PICK t \in Tx \ {Genesis}, base \in CommittedStates, f \in Fp, rs \in Records :
           CommitBegin(t, base, f, rs)
    BY <1>1 DEF CallCommit
  <2>2. base \in State
    BY <2>1, CommittedStatesType DEF DurableInv
  <2> QED
    BY <2>1, <2>2, CommitBeginKeeps
<1>2. CASE CallReplay
  <2>1. PICK i \in DOMAIN lineage, rs \in Records : CommitReplay(lineage[i], rs)
    BY <1>2 DEF CallReplay
  <2>2. lineage[i] \in Event
    BY <2>1 DEF DurableInv, TypeOK
  <2> QED
    BY <2>1, <2>2, CommitReplayKeeps
<1>3. CASE CallInitialize
  BY <1>3, InitializeBeginKeeps DEF CallInitialize
<1>4. CASE Advance
  BY <1>4, WriteEventKeeps, StageRecordsKeeps, StageConflictKeeps,
     WriteReceiptKeeps,
     WriteIntentKeeps, AppendLineageKeeps, WriteLineageKeeps, PromoteRecordKeeps,
     PromoteDivergesKeeps, PromoteDoneKeeps, ReplaceCurrentKeeps, MarkCommittedKeeps,
     RecoverJournalKeeps, RecoverDistrustsKeeps, RecoverFinishKeeps
     DEF Advance
<1>5. CASE RecoverBegin \/ Crash \/ CrashMidAppend \/ Read
  BY <1>5, RecoverBeginKeeps, CrashKeeps, CrashMidAppendKeeps, ReadKeeps
<1>6. CASE UNCHANGED vars
  BY <1>6 DEF vars, disk, DurableInv, TypeOK, JournalsOK, JobOK, CallOK,
     CommittedIsDurable, NoDuplicateEvents, AllPromoted, EndsAtView, TxsOf
<1> QED
  BY <1>1, <1>2, <1>3, <1>4, <1>5, <1>6 DEF Next

(* Under any calls, crashes and reads: every variable keeps its type, a    *)
(* COMMITTED marker keeps its promise and no event is appended twice.      *)
THEOREM DurableCorrect == Spec => [](TypeOK /\ CommittedIsDurable /\ NoDuplicateEvents)
<1>1. Spec => []DurableInv
  BY DurableInit, DurableNext, PTL DEF Spec
<1>2. DurableInv => TypeOK /\ CommittedIsDurable /\ NoDuplicateEvents
  BY DEF DurableInv
<1> QED
  BY <1>1, <1>2, PTL

(* Every variable of the Store has its type, whatever is called and        *)
(* whenever it crashes.                                                    *)
THEOREM StoreTyped == Spec => []TypeOK
<1>1. DurableInv => TypeOK
  BY DEF DurableInv
<1> QED
  BY <1>1, DurableInit, DurableNext, PTL DEF Spec

-----------------------------------------------------------------------------
(* What the disk never loses. *)

(* Only two steps write the lineage. *)
LEMMA LineageSteps ==
  ASSUME [Next]_vars
  PROVE  AppendLineage \/ WriteLineage \/ UNCHANGED lineage
<1>1. CASE CallCommit \/ CallReplay \/ CallInitialize \/ RecoverBegin
           \/ Crash \/ CrashMidAppend
  BY <1>1 DEF CallCommit, CallReplay, CallInitialize, RecoverBegin, Crash,
              CrashMidAppend, CommitBegin, CommitReplay, InitializeBegin, disk
<1>2. CASE Advance
  BY <1>2 DEF Advance, WriteEvent, StageRecords, StageConflict, WriteReceipt,
              WriteIntent, PromoteRecord, PromoteDiverges, PromoteDone,
              ReplaceCurrent, MarkCommitted, RecoverJournal, RecoverDistrusts,
              RecoverFinish, disk
<1>3. CASE Read
  BY <1>3 DEF Read, LoadReconstruct, LoadCheck, LoadWrite, BootBegin,
              BootReconstruct, BootCheck, ReadDone, ReadStep, disk
<1>4. CASE UNCHANGED vars
  BY <1>4 DEF vars, disk
<1> QED
  BY <1>1, <1>2, <1>3, <1>4 DEF Next

(* The lineage only ever grows at its end. *)
LEMMA LineageGrows ==
  ASSUME DurableInv, [Next]_vars
  PROVE  /\ lineage' = lineage \/ lineage' = Append(lineage, job.ev)
         /\ Len(lineage) \in Nat /\ Len(lineage') \in Nat /\ Len(lineage) <= Len(lineage')
         /\ \A i \in DOMAIN lineage : i \in DOMAIN lineage' /\ lineage'[i] = lineage[i]
<1>1. CASE AppendLineage
  BY <1>1 DEF AppendLineage, DurableInv, TypeOK, JobOK, Unappended
<1>2. CASE WriteLineage
  <2>1. lineage = <<>> /\ job.ev \in Event
    BY <1>2 DEF WriteLineage, DurableInv, CallOK, JobOK, Unappended, EndsAtView
  <2> QED
    BY <1>2, <2>1 DEF WriteLineage
<1>3. CASE UNCHANGED lineage
  BY <1>3 DEF DurableInv, TypeOK
<1>4. \/ AppendLineage \/ WriteLineage \/ UNCHANGED lineage
  BY LineageSteps
<1> QED
  BY <1>1, <1>2, <1>3, <1>4

(* No journal file disappears, and a journal is begun only for a           *)
(* transaction the lineage does not name yet.                              *)
LEMMA FilesGrow ==
  ASSUME DurableInv, [Next]_vars, NEW t \in Tx
  PROVE  /\ files[t] \subseteq files'[t]
         /\ files[t] = {} /\ t \in TxsOf(lineage) => files'[t] = {}
<1> USE DEF DurableInv, TypeOK
<1>1. CASE UNCHANGED files
  BY <1>1
<1>2. ASSUME NEW u \in Tx, NEW f, AddFile(u, f), files[u] # {} \/ u \notin TxsOf(lineage)
      PROVE  /\ files[t] \subseteq files'[t]
             /\ files[t] = {} /\ t \in TxsOf(lineage) => files'[t] = {}
  BY <1>2 DEF AddFile
<1>3. CASE CallCommit \/ CallInitialize
  <2>1. CASE CallCommit
    BY <1>2, <2>1 DEF CallCommit, CommitBegin
  <2>2. CASE CallInitialize
    BY <1>1, <1>2, <2>2, GenesisAssumption
       DEF CallInitialize, InitializeBegin, Uninitialized, TxsOf
  <2> QED
    BY <1>3, <2>1, <2>2
<1>4. CASE WriteEvent \/ StageRecords \/ WriteIntent \/ MarkCommitted
  <2>1. job.tx \in Tx
    BY DEF JobType
  <2>2. files[job.tx] # {} \/ job.tx \notin TxsOf(lineage)
    BY <1>4 DEF WriteEvent, StageRecords, WriteIntent, MarkCommitted, JobOK, CallOK,
                Unappended, Appended, Intended
  <2> QED
    BY <1>2, <1>4, <2>1, <2>2 DEF WriteEvent, StageRecords, WriteIntent, MarkCommitted
<1>5. CASE UNCHANGED vars \/ Read \/ RecoverBegin \/ Crash \/ CrashMidAppend \/ CallReplay
  BY <1>1, <1>5 DEF vars, Read, LoadReconstruct, LoadCheck, LoadWrite, BootBegin,
                BootReconstruct, BootCheck, ReadDone, ReadStep, disk, journals,
                RecoverBegin, Crash, CrashMidAppend, CallReplay, CommitReplay
<1>6. CASE Advance /\ ~(WriteEvent \/ StageRecords \/ WriteIntent \/ MarkCommitted)
  BY <1>1, <1>6 DEF Advance, StageConflict, WriteReceipt, AppendLineage, WriteLineage,
                PromoteRecord, PromoteDiverges, PromoteDone, ReplaceCurrent,
                RecoverJournal, RecoverDistrusts, RecoverFinish, disk, journals
<1> QED
  BY <1>3, <1>4, <1>5, <1>6 DEF Next

(* The genesis receipt is written while there is no lineage. *)
LEMMA ReceiptStays ==
  ASSUME DurableInv, [Next]_vars, Genesis \in TxsOf(lineage)
  PROVE  receipt' = receipt
<1>1. CASE WriteReceipt
  <2>1. job.tx = Genesis /\ job.tx \notin TxsOf(lineage)
    BY <1>1 DEF DurableInv, WriteReceipt, JobOK, CallOK, Unappended
  <2> QED
    BY <2>1
<1>2. CASE ~WriteReceipt
  <2>1. CASE CallCommit \/ CallReplay \/ CallInitialize \/ RecoverBegin
             \/ Crash \/ CrashMidAppend
    BY <2>1 DEF CallCommit, CallReplay, CallInitialize, RecoverBegin, Crash,
                CrashMidAppend, CommitBegin, CommitReplay, InitializeBegin, disk
  <2>2. CASE Advance
    BY <1>2, <2>2 DEF Advance, WriteEvent, StageRecords, StageConflict, AppendLineage,
                WriteLineage, WriteIntent, PromoteRecord, PromoteDiverges, PromoteDone,
                ReplaceCurrent, MarkCommitted, RecoverJournal, RecoverDistrusts,
                RecoverFinish, disk
  <2>3. CASE Read
    BY <2>3 DEF Read, LoadReconstruct, LoadCheck, LoadWrite, BootBegin,
                BootReconstruct, BootCheck, ReadDone, ReadStep, disk
  <2>4. CASE UNCHANGED vars
    BY <2>4 DEF vars, disk
  <2> QED
    BY <2>1, <2>2, <2>3, <2>4 DEF Next
<1> QED
  BY <1>1, <1>2

(* _transaction_committed never takes its word back. *)
LEMMA CommittedStays ==
  ASSUME DurableInv, [Next]_vars, NEW t \in Tx, Committed(t)
  PROVE  Committed(t)'
<1>1. CASE t # Genesis \/ files[Genesis] # {}
  <2>1. "COMMITTED" \in files[t]
    BY <1>1 DEF Committed, CommittedTx, GenesisCommitted
  <2>2. "COMMITTED" \in files'[t]
    BY <2>1, FilesGrow
  <2> QED
    BY <2>2 DEF Committed, CommittedTx, GenesisCommitted
<1>2. CASE t = Genesis /\ files[Genesis] = {}
  <2>1. receipt # None /\ receipt.mode = "BARE" /\ Genesis \in TxsOf(lineage)
    BY <1>2 DEF Committed, CommittedTx, GenesisCommitted
  <2>2. files'[Genesis] = {} /\ receipt' = receipt
    BY <1>2, <2>1, FilesGrow, ReceiptStays
  <2>3. Genesis \in TxsOf(lineage')
    BY <2>1, LineageGrows DEF TxsOf
  <2> QED
    BY <1>2, <2>1, <2>2, <2>3 DEF Committed, CommittedTx, GenesisCommitted, TxsOf
<1> QED
  BY <1>1, <1>2

(* CommittedLenFact of the next state. *)
LEMMA CommittedLenNext ==
  TypeOK' => /\ CommittedLen' \in 0 .. Len(lineage')
             /\ \A i \in 1 .. CommittedLen' : lineage'[i].tx \in CommittedTx'
             /\ CommittedLen' < Len(lineage') =>
                    lineage'[CommittedLen' + 1].tx \notin CommittedTx'
<1> DEFINE F == /\ CommittedLen \in 0 .. Len(lineage)
                /\ \A i \in 1 .. CommittedLen : lineage[i].tx \in CommittedTx
                /\ CommittedLen < Len(lineage) =>
                       lineage[CommittedLen + 1].tx \notin CommittedTx
<1>1. TypeOK => F
  BY CommittedLenFact DEF Committed
<1>2. TypeOK' => F'
  BY <1>1, PTL
<1> QED
  BY <1>2

(* The committed prefix of the lineage stays where it is and may grow. *)
LEMMA PrefixStays ==
  ASSUME DurableInv, [Next]_vars
  PROVE  /\ CommittedLen <= CommittedLen'
         /\ \A i \in 1 .. CommittedLen : lineage'[i] = lineage[i]
<1>1. /\ CommittedLen \in 0 .. Len(lineage)
      /\ \A i \in 1 .. CommittedLen : Committed(lineage[i].tx)
  BY CommittedLenFact DEF DurableInv
<1>2. TypeOK'
  BY DurableNext DEF DurableInv
<1>3. /\ CommittedLen' \in 0 .. Len(lineage')
      /\ CommittedLen' < Len(lineage') =>
            lineage'[CommittedLen' + 1].tx \notin CommittedTx'
  BY <1>2, CommittedLenNext
<1>4. \A i \in 1 .. CommittedLen : i \in DOMAIN lineage /\ lineage'[i] = lineage[i]
  BY <1>1, LineageGrows DEF DurableInv, TypeOK
<1>5. ASSUME CommittedLen' < CommittedLen PROVE FALSE
  <2>1. PICK m, n : m = CommittedLen' /\ n = CommittedLen
    OBVIOUS
  <2>2. m \in Nat /\ n \in Nat /\ m < n /\ n <= Len(lineage)
    BY <1>1, <1>3, <1>5, <2>1, LineageGrows
  <2>3. m + 1 \in 1 .. n /\ m < Len(lineage')
    BY <2>2, LineageGrows
  <2>4. PICK e : e = lineage[m + 1]
    OBVIOUS
  <2>5. Committed(e.tx) /\ lineage'[m + 1] = e /\ m + 1 \in DOMAIN lineage
    BY <1>1, <1>4, <2>1, <2>3, <2>4
  <2>6. e.tx \in Tx
    <3>1. e \in Event
      BY <2>4, <2>5 DEF DurableInv, TypeOK
    <3> QED
      BY <3>1 DEF Event
  <2>7. e.tx \in CommittedTx'
    BY <2>5, <2>6, CommittedStays DEF Committed
  <2> QED
    BY <1>3, <2>1, <2>3, <2>5, <2>7
<1> QED
  BY <1>1, <1>3, <1>4, <1>5, LineageGrows

(* The committed lineage every read surface is built on is never taken     *)
(* back or reordered, under any calls, crashes and recoveries, recover or  *)
(* no recover.                                                             *)
THEOREM ViewMonotone == Spec => CommittedViewMonotone
<1>1. Spec => []DurableInv
  BY DurableInit, DurableNext, PTL DEF Spec
<1>2. DurableInv /\ [Next]_vars =>
        [/\ CommittedLen <= CommittedLen'
         /\ \A i \in 1 .. CommittedLen : lineage'[i] = lineage[i]]_vars
  BY PrefixStays
<1> QED
  BY <1>1, <1>2, PTL DEF Spec, CommittedViewMonotone
(* A State the committed lineage passed through it has passed through for  *)
(* ever.                                                                   *)
LEMMA CommittedStatesGrow ==
  ASSUME DurableInv, [Next]_vars
  PROVE  CommittedStates \subseteq CommittedStates'
<1>1. DurableInv'
  BY DurableNext
<1>2. PICK m, n : m = CommittedLen' /\ n = CommittedLen
  OBVIOUS
<1>3. n <= m /\ n \in Nat /\ m \in Nat
  BY <1>1, <1>2, PrefixStays, CommittedLenFact, CommittedLenNext DEF DurableInv
<1>4. \A i \in 1 .. n : i \in 1 .. m /\ lineage'[i] = lineage[i]
  BY <1>2, <1>3, PrefixStays
<1>5. CommittedStates = {StateOf(lineage[i]) : i \in 1 .. n}
  BY <1>2 DEF CommittedStates
<1>6. CommittedStates' = {StateOf(lineage'[i]) : i \in 1 .. m}
  BY <1>2 DEF CommittedStates, StateOf
<1> QED
  BY <1>4, <1>5, <1>6

(* What a reader holds, from its reconstruction on. *)
HeldIsCommitted ==
    \A p \in Readers :
        rd[p].pc \in {"LoadCheck", "LoadWrite", "BootCheck", "returned"} =>
            rd[p].snap \in CommittedStates

(* It stays committed: the committed States only become more. *)
LEMMA HeldNext == DurableInv /\ HeldIsCommitted /\ [Next]_vars => HeldIsCommitted'
<1> SUFFICES ASSUME DurableInv, HeldIsCommitted, [Next]_vars PROVE HeldIsCommitted'
  OBVIOUS
<1>1. CommittedStates \subseteq CommittedStates'
  BY CommittedStatesGrow
<1>2. CASE UNCHANGED rd
  BY <1>1, <1>2 DEF HeldIsCommitted
<1>3. ASSUME NEW p \in Readers, NEW next, NEW s,
             rd' = [rd EXCEPT ![p] = [pc |-> next, snap |-> s]],
             next \in {"LoadCheck", "LoadWrite", "BootCheck", "returned"} =>
                 s \in CommittedStates
      PROVE  HeldIsCommitted'
  <2>1. ASSUME NEW q \in Readers,
               rd'[q].pc \in {"LoadCheck", "LoadWrite", "BootCheck", "returned"}
        PROVE  rd'[q].snap \in CommittedStates
    <3>1. CASE q = p
      BY <1>3, <2>1, <3>1 DEF DurableInv, TypeOK
    <3>2. CASE q # p
      BY <1>3, <2>1, <3>2 DEF DurableInv, TypeOK, HeldIsCommitted
    <3> QED
      BY <3>1, <3>2
  <2> QED
    BY <1>1, <2>1 DEF HeldIsCommitted
<1>4. ASSUME NEW p \in Readers, \/ LoadReconstruct(p) \/ BootReconstruct(p)
      PROVE  HeldIsCommitted'
  <2>1. Reconstructs => Reconstructed \in CommittedStates
    BY CommittedLenFact DEF Reconstructs, Reconstructed, CommittedStates, DurableInv, TypeOK
  <2> QED
    BY <1>3, <1>4, <2>1 DEF LoadReconstruct, BootReconstruct, ReadStep
<1>5. ASSUME NEW p \in Readers, LoadCheck(p) \/ BootCheck(p) PROVE HeldIsCommitted'
  BY <1>3, <1>5 DEF LoadCheck, BootCheck, ReadStep, HeldIsCommitted
<1>6. ASSUME NEW p \in Readers, LoadWrite(p) PROVE HeldIsCommitted'
  <2>1. rd' = [rd EXCEPT ![p] = [pc |-> "returned", snap |-> rd[p].snap]]
    <3>1. rd[p] \in Reader
      BY DEF DurableInv, TypeOK
    <3>2. [rd[p] EXCEPT !.pc = "returned"] = [pc |-> "returned", snap |-> rd[p].snap]
      BY <3>1 DEF Reader
    <3>3. rd' = [rd EXCEPT ![p] = [rd[p] EXCEPT !.pc = "returned"]]
      BY <1>6 DEF LoadWrite
    <3> QED
      BY <3>2, <3>3, Zenon
  <2>2. rd[p].snap \in CommittedStates
    BY <1>6 DEF LoadWrite, HeldIsCommitted
  <2> QED
    BY <1>3, <2>1, <2>2, Zenon
<1>7. ASSUME NEW p \in Readers, BootBegin(p) \/ ReadDone(p) PROVE HeldIsCommitted'
  BY <1>3, <1>7 DEF BootBegin, ReadDone, ReadStep
<1>8. CASE Read
  BY <1>4, <1>5, <1>6, <1>7, <1>8 DEF Read
<1>9. CASE ~Read
  <2>1. CASE CallCommit \/ CallReplay \/ CallInitialize \/ RecoverBegin
             \/ Crash \/ CrashMidAppend
    BY <1>2, <2>1 DEF CallCommit, CallReplay, CallInitialize, RecoverBegin, Crash,
                CrashMidAppend, CommitBegin, CommitReplay, InitializeBegin
  <2>2. CASE Advance
    BY <1>2, <2>2 DEF Advance, WriteEvent, StageRecords, StageConflict, WriteReceipt,
                WriteIntent, AppendLineage, WriteLineage, PromoteRecord,
                PromoteDiverges, PromoteDone,
                ReplaceCurrent, MarkCommitted, RecoverJournal, RecoverDistrusts,
                RecoverFinish
  <2>3. CASE UNCHANGED vars
    BY <1>2, <2>3 DEF vars
  <2> QED
    BY <1>9, <2>1, <2>2, <2>3 DEF Next
<1> QED
  BY <1>8, <1>9

(* What load_current or read_current_consistent returns, at any            *)
(* interleaving of its unlocked reads with commits, crashes and            *)
(* recoveries, is a State the committed lineage passed through.            *)
THEOREM LoadsCommitted == Spec => []LoadedIsCommitted
<1>1. Spec => []DurableInv
  BY DurableInit, DurableNext, PTL DEF Spec
<1>2. Init => HeldIsCommitted
  BY DEF Init, IdleReader, HeldIsCommitted
<1>3. HeldIsCommitted => LoadedIsCommitted
  BY DEF HeldIsCommitted, LoadedIsCommitted
<1> QED
  BY <1>1, <1>2, <1>3, HeldNext, PTL DEF Spec

(* Only one step writes a manifest and stages records. *)
LEMMA ManifestSteps ==
  ASSUME [Next]_vars
  PROVE  StageRecords \/ UNCHANGED <<manifest, staged>>
<1>1. CASE CallCommit \/ CallReplay \/ CallInitialize \/ RecoverBegin
           \/ Crash \/ CrashMidAppend
  BY <1>1 DEF CallCommit, CallReplay, CallInitialize, RecoverBegin, Crash, journals,
              CrashMidAppend, CommitBegin, CommitReplay, InitializeBegin, disk
<1>2. CASE Advance
  BY <1>2 DEF Advance, WriteEvent, StageConflict, WriteReceipt,
              WriteIntent, AppendLineage, WriteLineage, PromoteRecord, PromoteDiverges,
              PromoteDone, ReplaceCurrent, MarkCommitted, RecoverJournal,
              RecoverDistrusts, RecoverFinish, disk, journals
<1>3. CASE Read
  BY <1>3 DEF Read, LoadReconstruct, LoadCheck, LoadWrite, BootBegin,
              BootReconstruct, BootCheck, ReadDone, ReadStep, disk, journals
<1>4. CASE UNCHANGED vars
  BY <1>4 DEF vars, disk, journals
<1> QED
  BY <1>1, <1>2, <1>3, <1>4 DEF Next

(* Each journal file is written by the step that is named for it. *)
LEMMA FilesNext ==
  ASSUME DurableInv, [Next]_vars
  PROVE  \/ UNCHANGED files
         \/ \E t \in Tx, f \in JournalFile :
              /\ files' = [files EXCEPT ![t] = files[t] \cup {f}]
              /\ f = "manifest" => StageRecords /\ t = job.tx
              /\ f = "COMMITTED" => MarkCommitted /\ t = job.tx
<1> USE DEF DurableInv, TypeOK, JournalFile, JobType
<1>1. CASE CallCommit
  BY <1>1, Zenon DEF CallCommit, CommitBegin, AddFile
<1>2. CASE CallInitialize
  BY <1>2, GenesisAssumption DEF CallInitialize, InitializeBegin, AddFile
<1>3. CASE WriteEvent \/ StageRecords \/ WriteIntent \/ MarkCommitted
  BY <1>3 DEF WriteEvent, StageRecords, WriteIntent, MarkCommitted, AddFile
<1>4. CASE CallReplay \/ RecoverBegin \/ Crash \/ CrashMidAppend
  BY <1>4 DEF CallReplay, CommitReplay, RecoverBegin, Crash, CrashMidAppend, disk, journals
<1>5. CASE Advance /\ ~WriteEvent /\ ~StageRecords /\ ~WriteIntent /\ ~MarkCommitted
  BY <1>5 DEF Advance, StageConflict, WriteReceipt, AppendLineage, WriteLineage,
              PromoteRecord, PromoteDiverges, PromoteDone, ReplaceCurrent,
              RecoverJournal, RecoverDistrusts, RecoverFinish, disk, journals
<1>6. CASE Read \/ UNCHANGED vars
  BY <1>6 DEF Read, LoadReconstruct, LoadCheck, LoadWrite, BootBegin, vars,
              BootReconstruct, BootCheck, ReadDone, ReadStep, disk, journals
<1> QED
  BY <1>1, <1>2, <1>3, <1>4, <1>5, <1>6 DEF Next

(* A committed transaction keeps what its manifest claims, and a permanent *)
(* record its bytes.                                                       *)
LEMMA ClaimsStay ==
  ASSUME DurableInv, [Next]_vars, NEW r \in Rec
  PROVE  /\ \A t \in Tx : Committed(t) /\ t \in Claimants(r) => t \in Claimants(r)'
         /\ record[r] # None => record'[r] = record[r]
<1>1. CASE StageRecords
  <2>1. ASSUME Committed(job.tx) PROVE files[job.tx] = {}
    <3>1. job.tx \notin TxsOf(lineage) /\ job.tx \in Tx
      BY <1>1 DEF StageRecords, DurableInv, JobOK, Unappended, TypeOK, JobType
    <3>2. "COMMITTED" \notin files[job.tx]
      BY <3>1 DEF DurableInv, CommittedIsDurable, JournalsOK, TxsOf
    <3> QED
      BY <2>1, <3>1, <3>2 DEF Committed, CommittedTx, GenesisCommitted
  <2>2. ASSUME NEW t \in Tx, Committed(t), t \in Claimants(r)
        PROVE  t \in Claimants(r)'
    <3>1. t # job.tx
      BY <2>1, <2>2 DEF Claimants
    <3>2. manifest'[t] = manifest[t] /\ files'[t] = files[t]
      BY <1>1, <3>1 DEF StageRecords, AddFile, DurableInv, TypeOK
    <3> QED
      BY <2>2, <3>2 DEF Claimants
  <2> QED
    BY <1>1, <2>2 DEF StageRecords
<1>2. CASE UNCHANGED manifest
  <2>1. \A t \in Tx : t \in Claimants(r) => t \in Claimants(r)'
    BY <1>2, FilesGrow DEF Claimants
  <2>2. CASE \E u \in Rec : PromoteRecord(u)
    BY <2>1, <2>2 DEF PromoteRecord, Promotable, DurableInv, TypeOK, Records
  <2>3. CASE UNCHANGED record
    BY <2>1, <2>3
  <2>4. CASE Next /\ ~(\E u \in Rec : PromoteRecord(u))
    <3>1. CASE CallCommit \/ CallReplay \/ CallInitialize \/ RecoverBegin
               \/ Crash \/ CrashMidAppend
      BY <2>3, <3>1 DEF CallCommit, CallReplay, CallInitialize, RecoverBegin, Crash,
                  CrashMidAppend, CommitBegin, CommitReplay, InitializeBegin, disk
    <3>2. CASE Advance
      BY <2>3, <2>4, <3>2 DEF Advance, WriteEvent, StageRecords, StageConflict,
                  WriteReceipt, AppendLineage, WriteLineage, WriteIntent,
                  PromoteDiverges, PromoteDone, ReplaceCurrent, MarkCommitted,
                  RecoverJournal, RecoverDistrusts, RecoverFinish, disk
    <3>3. CASE Read
      BY <2>3, <3>3 DEF Read, LoadReconstruct, LoadCheck, LoadWrite, BootBegin,
                  BootReconstruct, BootCheck, ReadDone, ReadStep, disk
    <3> QED
      BY <2>4, <3>1, <3>2, <3>3 DEF Next
  <2> QED
    BY <2>2, <2>3, <2>4 DEF vars, disk
<1> QED
  BY <1>1, <1>2, ManifestSteps

(* A journal stages records in the step that writes its manifest, the      *)
(* journal of a commit once.                                               *)
LEMMA FreshInit == Init => FreshOK
BY DEF Init, FreshOK

LEMMA FreshNext ==
  ASSUME DurableInv, FreshOK, [Next]_vars
  PROVE  FreshOK'
<1> DEFINE Early == pc \in {"WriteEvent", "StageRecords"} /\ job.op # "initialize"
<1>1. ASSUME NEW t \in Tx, "manifest" \notin files'[t]
      PROVE  staged'[t] = NoRecords
  <2>1. "manifest" \notin files[t] /\ staged[t] = NoRecords
    BY <1>1, FilesGrow DEF FreshOK
  <2>2. CASE StageRecords
    <3>1. t # job.tx
      BY <1>1, <2>2 DEF StageRecords, AddFile, DurableInv, TypeOK
    <3> QED
      BY <2>1, <2>2, <3>1 DEF StageRecords, DurableInv, TypeOK
  <2> QED
    BY <2>1, <2>2, ManifestSteps
<1>2. Early' => "manifest" \notin files'[job'.tx]
  <2>1. CASE CallCommit
    BY <2>1 DEF CallCommit, CommitBegin, AddFile, DurableInv, TypeOK
  <2>2. CASE CallInitialize \/ CallReplay \/ RecoverBegin \/ Crash \/ CrashMidAppend
    BY <2>2 DEF CallInitialize, InitializeBegin, CallReplay, CommitReplay, RecoverBegin,
                Crash, CrashMidAppend, Release, Free, NoJob
  <2>3. CASE WriteEvent
    BY <2>3 DEF WriteEvent, Goto, AddFile, FreshOK, DurableInv, TypeOK, JobType
  <2>4. CASE Advance /\ ~WriteEvent
    BY <2>4 DEF Advance, StageRecords, StageConflict, WriteReceipt, WriteIntent,
                AppendLineage, WriteLineage, PromoteRecord, PromoteDiverges,
                PromoteDone, ReplaceCurrent, MarkCommitted, RecoverJournal,
                RecoverDistrusts, RecoverFinish, Release, Goto, AfterStaging, ResumeAt,
                NoJob
  <2>5. CASE Read \/ UNCHANGED vars
    BY <2>5 DEF Read, LoadReconstruct, LoadCheck, LoadWrite, BootBegin, vars, FreshOK,
                BootReconstruct, BootCheck, ReadDone, ReadStep, disk, journals
  <2> QED
    BY <2>1, <2>2, <2>3, <2>4, <2>5 DEF Next
<1> QED
  BY <1>1, <1>2 DEF FreshOK

(* The bodies there are of a record that a committed transaction claims:   *)
(* its file, never absent, and what its claimants once staged, to which a  *)
(* later claimant adds none.                                               *)
LEMMA BodiesStay ==
  ASSUME DurableInv, FreshOK, [Next]_vars, NEW r \in Rec, NEW t \in Claimants(r),
         Committed(t)
  PROVE  /\ record[r] # None /\ record'[r] = record[r]
         /\ t \in Claimants(r)' /\ t \in CommittedTx'
         /\ Bodies(r)' = Bodies(r)
<1>1. /\ t \in Tx /\ "COMMITTED" \in files[t] /\ "manifest" \in files[t]
      /\ r \in manifest[t]
  BY DEF Claimants, Committed, CommittedTx, GenesisCommitted
<1>2. record[r] # None
  BY <1>1 DEF DurableInv, CommittedIsDurable
<1>3. record'[r] = record[r] /\ t \in Claimants(r)' /\ t \in CommittedTx'
  BY <1>1, <1>2, ClaimsStay, CommittedStays DEF Committed
<1>4. ASSUME NEW u \in Tx
      PROVE  \/ (u \in Claimants(r)' <=> u \in Claimants(r)) /\ staged'[u][r] = staged[u][r]
             \/ u \notin Claimants(r) /\ staged'[u][r] = None
  <2>1. CASE StageRecords /\ u = job.tx
    <3>1. lineage # <<>>
      BY <1>1 DEF DurableInv, CommittedIsDurable
    <3>2. "manifest" \notin files[u] /\ staged[u] = NoRecords
      BY <2>1, <3>1 DEF StageRecords, DurableInv, CallOK, Unappended, FreshOK
    <3>3. staged'[u][r] = staged[u][r]
      BY <1>2, <2>1 DEF StageRecords, DurableInv, TypeOK
    <3> QED
      BY <3>2, <3>3 DEF Claimants, NoRecords
  <2>2. CASE ~(StageRecords /\ u = job.tx)
    <3>1. manifest'[u] = manifest[u] /\ staged'[u] = staged[u]
      BY <2>2, ManifestSteps DEF StageRecords, DurableInv, TypeOK
    <3>2. "manifest" \in files'[u] <=> "manifest" \in files[u]
      BY <2>2, FilesNext, FilesGrow DEF DurableInv, TypeOK
    <3> QED
      BY <3>1, <3>2 DEF Claimants
  <2> QED
    BY <2>1, <2>2
<1>5. \A u \in Claimants(r) \cup Claimants(r)' : u \in Tx
  BY DEF Claimants
<1> HIDE DEF Claimants
<1>6. {staged'[u][r] : u \in Claimants(r)'} \ {None} = {staged[u][r] : u \in Claimants(r)} \ {None}
  BY <1>4, <1>5
<1> QED
  BY <1>3, <1>6, <1>2 DEF Bodies

(* Hence what a public read answers of it. *)
LEMMA AnswerStays ==
  ASSUME DurableInv, FreshOK, [Next]_vars, NEW r \in Rec, NEW t \in Claimants(r),
         Committed(t)
  PROVE  Resolved(r)' = Resolved(r)
<1>1. /\ record[r] # None /\ record'[r] = record[r] /\ Bodies(r)' = Bodies(r)
      /\ t \in Claimants(r)' /\ t \in CommittedTx'
  BY BodiesStay
<1>2. Resolved(r) = IF Cardinality(Bodies(r)) > 1 THEN Corrupt ELSE record[r]
  BY <1>1 DEF Resolved
<1>3. Resolved(r)' = IF Cardinality(Bodies(r)') > 1 THEN Corrupt ELSE record'[r]
  BY <1>1 DEF Resolved, Committed
<1> QED
  BY <1>1, <1>2, <1>3

(* An answer, be it a body or a refusal, stays so. *)
LEMMA ResolvedStays ==
  ASSUME DurableInv, FreshOK, [Next]_vars, NEW r \in Rec, Resolved(r) # None
  PROVE  Resolved(r)' = Resolved(r)
<1>1. PICK t \in Claimants(r) : Committed(t)
  BY DEF Resolved
<1> QED
  BY <1>1, AnswerStays

(* What a public read answers of a record it answers for good, whatever is *)
(* staged, committed, interrupted or recovered later.                      *)
THEOREM RecordsImmutable == Spec => ResolvedImmutable
<1>1. Spec => []DurableInv
  BY DurableInit, DurableNext, PTL DEF Spec
<1>2. Spec => []FreshOK
  BY <1>1, FreshInit, FreshNext, PTL DEF Spec
<1>3. DurableInv /\ FreshOK /\ [Next]_vars =>
        [\A r \in Rec : Resolved(r) # None => Resolved(r)' = Resolved(r)]_vars
  BY ResolvedStays
<1> QED
  BY <1>1, <1>2, <1>3, PTL DEF Spec, ResolvedImmutable

-----------------------------------------------------------------------------
(* The Store whose operators recover it. *)

(* A transaction whose event is not in the lineage is not committed. *)
LEMMA NotYetCommitted ==
  ASSUME DurableInv, NEW t \in Tx, t \notin TxsOf(lineage)
  PROVE  "COMMITTED" \notin files[t] /\ ~Committed(t)
<1>1. "COMMITTED" \notin files[t]
  BY DEF DurableInv, CommittedIsDurable, JournalsOK, TxsOf
<1> QED
  BY <1>1 DEF Committed, CommittedTx, GenesisCommitted

(* Nothing interrupted: the committed view is the whole lineage. *)
LEMMA WholeLineage ==
  ASSUME OperatedInv, Interrupted = {}
  PROVE  CommittedLen = Len(lineage)
<1>1. Len(lineage) \in Nat /\ \A i \in DOMAIN lineage : Committed(lineage[i].tx)
  BY DEF OperatedInv, InterruptedOK, DurableInv, TypeOK
<1>2. /\ CommittedLen \in 0 .. Len(lineage)
      /\ CommittedLen < Len(lineage) => ~Committed(lineage[CommittedLen + 1].tx)
  BY CommittedLenFact DEF OperatedInv, DurableInv
<1>3. PICK n : n = CommittedLen
  OBVIOUS
<1>4. n < Len(lineage) => n + 1 \in DOMAIN lineage
  BY <1>1, <1>2, <1>3
<1> QED
  BY <1>1, <1>2, <1>3, <1>4

(* A step that appends nothing and marks nothing. *)
LEMMA InterruptedKeeps ==
  ASSUME OperatedInv, [Next]_vars, lineage' = lineage, Interrupted' = Interrupted,
         \A t \in Interrupted : jevent'[t] = jevent[t]
  PROVE  InterruptedOK' /\ LineageVerifies'
<1>1. ASSUME NEW i \in DOMAIN lineage, Committed(lineage[i].tx)
      PROVE  lineage[i].tx \in CommittedTx'
  <2>1. lineage[i] \in Event
    BY DEF OperatedInv, DurableInv, TypeOK
  <2>2. PICK t \in Tx : t = lineage[i].tx
    BY <2>1 DEF Event
  <2> QED
    BY <1>1, <2>2, CommittedStays DEF OperatedInv, Committed
<1>2. \A i \in DOMAIN lineage :
        \/ lineage[i].tx \in CommittedTx'
        \/ i = Len(lineage) /\ lineage[i].tx \in Interrupted
  BY <1>1 DEF OperatedInv, InterruptedOK
<1>3. \A t \in Interrupted : t \notin TxsOf(lineage) => Extending(jevent[t])'
  BY DEF OperatedInv, InterruptedOK, Extending, LastEvent, StateOf, Contiguous
<1> QED
  BY <1>2, <1>3 DEF OperatedInv, InterruptedOK, LineageVerifies, ChainHolds, Committed,
                    TxsOf, StateOf, Contiguous

(* A step that leaves the genesis as it is bound. *)
LEMMA GenesisKeeps ==
  ASSUME OperatedInv, TxsOf(lineage)' = TxsOf(lineage), receipt' = receipt,
         files'[Genesis] = files[Genesis], manifest'[Genesis] = manifest[Genesis],
         jevent'[Genesis] = jevent[Genesis]
  PROVE  GenesisOK'
BY DEF OperatedInv, GenesisOK, GenesisJournalAgrees

(* Nothing that was acknowledged is taken back. *)
LEMMA AckedKeeps ==
  ASSUME OperatedInv, [Next]_vars,
         \A t \in acked' \ acked : t \in CommittedTx' /\ t \in TxsOf(lineage')
  PROVE  AckedOK'
<1>1. ASSUME NEW t \in acked PROVE t \in CommittedTx' /\ t \in TxsOf(lineage')
  <2>1. t \in Tx /\ Committed(t) /\ t \in TxsOf(lineage)
    BY DEF OperatedInv, AckedOK, DurableInv, TypeOK
  <2> QED
    BY <2>1, CommittedStays, LineageGrows DEF OperatedInv, Committed, TxsOf
<1> QED
  BY <1>1 DEF AckedOK, Committed, TxsOf

(* A step that writes nothing but records, the view and the locals. *)
LEMMA UnchangedKeeps ==
  ASSUME OperatedInv, [Next]_vars,
         UNCHANGED <<lineage, files, jevent, manifest, receipt, acked>>,
         torn' => TornAppends, AloneOK', BindingOK'
  PROVE  OperatedInv'
<1>1. DurableInv'
  BY DurableNext DEF OperatedInv
<1>2. InterruptedOK' /\ LineageVerifies'
  BY InterruptedKeeps DEF Interrupted
<1>3. GenesisOK'
  BY GenesisKeeps DEF TxsOf
<1>4. AckedOK'
  BY AckedKeeps
<1> QED
  BY <1>1, <1>2, <1>3, <1>4 DEF OperatedInv

(* A call that ends, is refused or dies. *)
LEMMA ReleaseKeeps ==
  ASSUME OperatedInv, [Next]_vars, Release, torn' => TornAppends,
         UNCHANGED <<lineage, files, jevent, manifest, receipt, acked>>
  PROVE  OperatedInv'
<1>1. job' = NoJob /\ pc' = "idle"
  BY DEF Release
<1>2. AloneOK' /\ BindingOK'
  BY <1>1 DEF AloneOK, BindingOK, NoJob, Unappended, EndsAtView
<1> QED
  BY <1>2, UnchangedKeeps

(* The steps that give up the lock without touching the disk, and the crashes. *)
LEMMA OperatedReleases ==
  ASSUME OperatedInv, [Next]_vars,
         \/ StageConflict \/ PromoteDiverges \/ RecoverFinish
         \/ \E t \in Tx : RecoverDistrusts(t)
         \/ Crash \/ CrashMidAppend
  PROVE  OperatedInv'
<1>1. Release /\ UNCHANGED <<lineage, files, jevent, manifest, receipt, acked>>
  BY DEF StageConflict, PromoteDiverges, RecoverFinish, RecoverDistrusts, Crash,
         CrashMidAppend, disk, journals
<1>2. torn' => TornAppends
  BY DEF StageConflict, PromoteDiverges, RecoverFinish, RecoverDistrusts, Crash,
         CrashMidAppend, disk, journals, OperatedInv
<1> QED
  BY <1>1, <1>2, ReleaseKeeps

(* Steps that leave the lock holder where it is, or past its promotion. *)
LEMMA OperatedReads ==
  ASSUME OperatedInv, [Next]_vars,
         Read \/ UNCHANGED vars \/ PromoteDone \/ \E r \in Rec : PromoteRecord(r)
  PROVE  OperatedInv'
<1>1. /\ UNCHANGED <<lineage, files, jevent, manifest, receipt, acked, torn, job>>
      /\ UNCHANGED pc \/ PromoteDone
  BY DEF Read, LoadReconstruct, LoadCheck, LoadWrite, BootBegin, BootReconstruct,
         BootCheck, ReadDone, ReadStep, PromoteDone, PromoteRecord, vars, disk, journals,
         Goto
<1>2. Interrupted' = Interrupted
  BY <1>1 DEF Interrupted
<1>3. pc' = pc \/ (pc = "PromoteRecords" /\ pc' \in {"MarkCommitted", "ReplaceCurrent"})
  BY <1>1 DEF PromoteDone, Goto
<1>4. AloneOK'
  BY <1>1, <1>2, <1>3
     DEF OperatedInv, AloneOK, Unappended, Extending, LastEvent, StateOf, Contiguous
<1>5. BindingOK'
  <2>1. pc = "PromoteRecords" => ~EndsAtView
    BY DEF OperatedInv, DurableInv, CallOK
  <2> QED
    BY <1>1, <1>3, <2>1 DEF OperatedInv, BindingOK, EndsAtView
<1> QED
  BY <1>1, <1>4, <1>5, UnchangedKeeps DEF OperatedInv

(* recover takes up the journals. *)
LEMMA OperatedRecovers ==
  ASSUME OperatedInv, [Next]_vars, RecoverBegin \/ \E t \in Tx : RecoverJournal(t)
  PROVE  OperatedInv'
<1>1. CASE RecoverBegin
  <2>1. UNCHANGED disk /\ UNCHANGED acked /\ pc' = "RecoverNext" /\ job'.op = "recover"
    BY <1>1 DEF RecoverBegin, NoJob
  <2>2. AloneOK' /\ BindingOK'
    BY <2>1 DEF AloneOK, BindingOK, Unappended, EndsAtView
  <2> QED
    BY <2>1, <2>2, UnchangedKeeps DEF disk, journals, OperatedInv
<1>2. ASSUME NEW t \in Tx, RecoverJournal(t) PROVE OperatedInv'
  <2>1. /\ UNCHANGED disk /\ UNCHANGED acked /\ pc' = ResumeAt(t)
        /\ job'.op = "recover" /\ job'.ev = jevent[t]
        /\ "COMMIT_INTENT" \in files[t]
    BY <1>2 DEF RecoverJournal, OperatedInv, DurableInv, CallOK, TypeOK, JobType
  <2>2. ASSUME t \notin TxsOf(lineage) PROVE Extending(jevent[t])
    BY <2>1, <2>2, NotYetCommitted DEF OperatedInv, InterruptedOK, Interrupted
  <2>3. AloneOK'
    BY <2>1, <2>2 DEF AloneOK, Unappended, ResumeAt, Extending, LastEvent, StateOf,
                      Contiguous, disk
  <2>4. BindingOK'
    BY <2>1 DEF BindingOK, ResumeAt, EndsAtView
  <2> QED
    BY <2>1, <2>3, <2>4, UnchangedKeeps DEF disk, journals, OperatedInv
<1> QED
  BY <1>1, <1>2

(* A commit is let in on a State that is the end of the lineage. *)
LEMMA OperatedCommits ==
  ASSUME OperatedInv, [Next]_vars, Interrupted = {},
         NEW t \in Tx \ {Genesis}, NEW base \in State, NEW f \in Fp, NEW rs \in Records,
         CommitBegin(t, base, f, rs)
  PROVE  OperatedInv'
<1> DEFINE ev == SuccessorOf(base, t, f)
<1>1. /\ UNCHANGED <<lineage, torn, jevent, manifest, receipt, acked>>
      /\ files' = [files EXCEPT ![t] = files[t] \cup {"dir"}]
      /\ job' = [op |-> "commit", tx |-> t, ev |-> ev, recs |-> rs, todo |-> {}]
      /\ pc' = "WriteEvent" /\ t \notin TxsOf(lineage)
      /\ Reconstructs /\ Contiguous(ev, Reconstructed)
  BY DEF CommitBegin, AddFile, Accepts
<1>2. Interrupted' = Interrupted
  BY <1>1 DEF Interrupted, OperatedInv, DurableInv, TypeOK
<1>3. files'[Genesis] = files[Genesis]
  BY <1>1, GenesisAssumption DEF OperatedInv, DurableInv, TypeOK
<1>4. InterruptedOK' /\ LineageVerifies'
  BY <1>1, <1>2, InterruptedKeeps
<1>5. GenesisOK'
  BY <1>1, <1>3, GenesisKeeps DEF TxsOf
<1>6. AckedOK'
  BY <1>1, AckedKeeps
<1>7. CommittedLen = Len(lineage) /\ lineage # <<>>
  BY <1>1, WholeLineage DEF Reconstructs
<1>8. AloneOK'
  <2>1. ev.tx = t
    BY DEF SuccessorOf
  <2>2. Contiguous(ev, StateOf(LastEvent))
    BY <1>1, <1>7 DEF Reconstructed, LastEvent
  <2> HIDE DEF ev
  <2>3. Extending(ev)'
    BY <1>1, <1>7, <2>1, <2>2 DEF Extending, LastEvent, StateOf, Contiguous
  <2> QED
    BY <1>1, <1>2, <2>1, <2>3 DEF AloneOK
<1>9. BindingOK'
  BY <1>1 DEF BindingOK, EndsAtView
<1>10. DurableInv'
  BY DurableNext DEF OperatedInv
<1> QED
  BY <1>1, <1>4, <1>5, <1>6, <1>8, <1>9, <1>10 DEF OperatedInv

(* A replay acknowledges a transaction that is committed. *)
LEMMA OperatedReplays ==
  ASSUME OperatedInv, [Next]_vars, Interrupted = {}, NEW j \in DOMAIN lineage,
         NEW rs \in Records, CommitReplay(lineage[j], rs)
  PROVE  OperatedInv'
<1>1. /\ UNCHANGED <<lineage, torn, files, jevent, manifest, receipt, pc, job>>
      /\ acked' = acked \cup {lineage[j].tx}
  BY DEF CommitReplay, journals, Ack
<1>2. Interrupted' = Interrupted
  BY <1>1 DEF Interrupted
<1>3. InterruptedOK' /\ LineageVerifies'
  BY <1>1, <1>2, InterruptedKeeps
<1>4. GenesisOK'
  BY <1>1, GenesisKeeps DEF TxsOf
<1>5. lineage[j].tx \in CommittedTx' /\ lineage[j].tx \in TxsOf(lineage')
  <2>1. lineage[j].tx \in CommittedTx /\ lineage[j].tx \in Tx
    BY DEF OperatedInv, InterruptedOK, Committed, CommittedTx
  <2> QED
    BY <1>1, <2>1, CommittedStays DEF OperatedInv, Committed, TxsOf
<1>6. AckedOK'
  BY <1>1, <1>5, AckedKeeps
<1>7. AloneOK' /\ BindingOK'
  BY <1>1, <1>2 DEF OperatedInv, AloneOK, BindingOK, EndsAtView, Extending, LastEvent,
                    StateOf, Contiguous
<1>8. DurableInv'
  BY DurableNext DEF OperatedInv
<1> QED
  BY <1>1, <1>3, <1>4, <1>6, <1>7, <1>8 DEF OperatedInv

(* A genesis starts where there is no lineage, and stays of the kind it    *)
(* was.                                                                    *)
LEMMA OperatedInitializes ==
  ASSUME OperatedInv, [Next]_vars, Interrupted = {}, NEW f \in Fp, NEW rs \in Records,
         InitializeBegin(f, rs), InKind
  PROVE  OperatedInv'
<1> DEFINE ev == GenesisEvent(f, rs)
<1>1. /\ UNCHANGED <<lineage, torn, jevent, manifest, receipt, acked>>
      /\ lineage = <<>>
      /\ job' = [op |-> "initialize", tx |-> Genesis, ev |-> ev, recs |-> rs,
                 todo |-> {}]
      /\ \/ Supplied(rs) = {} /\ pc' = "WriteReceipt" /\ files' = files
         \/ /\ Supplied(rs) # {} /\ pc' = "WriteEvent"
            /\ files' = [files EXCEPT ![Genesis] = files[Genesis] \cup {"dir"}]
  BY DEF InitializeBegin, Uninitialized, AddFile
<1>2. ev.tx = Genesis /\ ev.ref = ReceiptOf(rs)
  BY DEF GenesisEvent
<1> HIDE DEF ev
<1>3. Supplied(rs) = {} => files[Genesis] = {}
  BY <1>1 DEF InKind
<1>4. Interrupted' = Interrupted
  BY <1>1 DEF Interrupted, OperatedInv, DurableInv, TypeOK
<1>5. InterruptedOK' /\ LineageVerifies'
  BY <1>1, <1>4, InterruptedKeeps
<1>6. AckedOK'
  BY <1>1, AckedKeeps
<1>7. TxsOf(lineage) = {} /\ TxsOf(lineage') = {}
  BY <1>1 DEF TxsOf
<1>8. GenesisOK'
  <2>1. "COMMIT_INTENT" \notin files[Genesis]
    BY <1>7, NotYetCommitted, GenesisAssumption DEF Interrupted, OperatedInv
  <2>2. "COMMIT_INTENT" \notin files'[Genesis]
    BY <1>1, <2>1, GenesisAssumption DEF OperatedInv, DurableInv, TypeOK
  <2> QED
    BY <1>7, <2>2 DEF GenesisOK
<1>9. AloneOK'
  BY <1>1, <1>2, <1>4 DEF AloneOK, Extending
<1>10. BindingOK'
  BY <1>1, <1>2, <1>3 DEF BindingOK, EndsAtView
<1>11. DurableInv'
  BY DurableNext DEF OperatedInv
<1> QED
  BY <1>1, <1>5, <1>6, <1>8, <1>9, <1>10, <1>11 DEF OperatedInv

(* Before COMMIT_INTENT the journal of the transaction under way is its    *)
(* own affair.                                                             *)
LEMMA OperatedStages ==
  ASSUME OperatedInv, [Next]_vars, WriteEvent \/ StageRecords
  PROVE  OperatedInv'
<1>1. /\ UNCHANGED <<lineage, torn, receipt, acked, job>>
      /\ pc \in Unappended \ {"AppendLineage"} /\ ~EndsAtView /\ job.tx \in Tx
      /\ \E f \in {"event", "manifest"} : 
             files' = [files EXCEPT ![job.tx] = files[job.tx] \cup {f}]
      /\ jevent' = [jevent EXCEPT ![job.tx] = jevent'[job.tx]]
      /\ \/ manifest' = manifest
         \/ manifest' = [manifest EXCEPT ![job.tx] = Supplied(job.recs)]
  BY DEF WriteEvent, StageRecords, AddFile, Goto, Unappended, OperatedInv, DurableInv,
         CallOK, TypeOK, JobType
<1>2. Interrupted = {} /\ Interrupted' = {}
  BY <1>1 DEF Interrupted, OperatedInv, AloneOK, DurableInv, TypeOK
<1>3. InterruptedOK' /\ LineageVerifies'
  BY <1>1, <1>2, InterruptedKeeps
<1>4. AckedOK'
  BY <1>1, AckedKeeps
<1>5. pc' \in Unappended \ {"AppendLineage"}
  BY DEF WriteEvent, StageRecords, Goto, AfterStaging, Unappended
<1>6. AloneOK'
  BY <1>1, <1>2, <1>5 DEF OperatedInv, AloneOK, Extending, LastEvent, StateOf, Contiguous
<1>7. job.tx \notin TxsOf(lineage) /\ "COMMIT_INTENT" \notin files[job.tx]
  BY <1>1, <1>2, NotYetCommitted DEF Interrupted, OperatedInv, DurableInv, JobOK
<1>8. GenesisOK'
  <2>1. CASE job.tx = Genesis
    <3>1. "COMMIT_INTENT" \notin files'[Genesis] /\ files'[Genesis] # {}
      BY <1>1, <1>7, <2>1 DEF OperatedInv, DurableInv, TypeOK
    <3> QED
      BY <3>1 DEF GenesisOK
  <2>2. CASE job.tx # Genesis
    <3>1. /\ files'[Genesis] = files[Genesis] /\ jevent'[Genesis] = jevent[Genesis]
          /\ manifest'[Genesis] = manifest[Genesis]
      BY <1>1, <2>2, GenesisAssumption DEF OperatedInv, DurableInv, TypeOK
    <3> QED
      BY <1>1, <3>1, GenesisKeeps DEF TxsOf
  <2> QED
    BY <2>1, <2>2
<1>9. BindingOK'
  <2>1. ~EndsAtView'
    BY <1>1 DEF EndsAtView
  <2>2. pc' # "StageRecords" =>
          /\ pc' = IF job.op = "initialize" THEN "WriteReceipt" ELSE "WriteIntent"
          /\ "manifest" \in files'[job.tx] /\ manifest'[job.tx] = Supplied(job.recs)
    BY <1>1 DEF WriteEvent, StageRecords, AddFile, Goto, AfterStaging, OperatedInv,
                DurableInv, TypeOK
  <2>3. job.op = "initialize" => job.tx = Genesis
    BY DEF OperatedInv, DurableInv, CallOK
  <2>4. pc' \in {"StageRecords", "WriteReceipt", "WriteIntent"}
    BY DEF WriteEvent, StageRecords, Goto, AfterStaging
  <2> QED
    BY <1>1, <2>1, <2>2, <2>3, <2>4 DEF BindingOK, OperatedInv
<1>10. DurableInv'
  BY DurableNext DEF OperatedInv
<1> QED
  BY <1>1, <1>3, <1>4, <1>6, <1>8, <1>9, <1>10 DEF OperatedInv

(* The receipt is written while no genesis is there it could contradict. *)
LEMMA OperatedWritesReceipt ==
  ASSUME OperatedInv, [Next]_vars, WriteReceipt
  PROVE  OperatedInv'
<1>1. /\ UNCHANGED <<lineage, torn, files, jevent, manifest, acked, job>>
      /\ pc = "WriteReceipt" /\ receipt' = job.ev.ref
      /\ pc' = IF Supplied(job.recs) = {} THEN "WriteLineage" ELSE "WriteIntent"
      /\ job.op = "initialize" /\ job.tx = Genesis
  BY DEF WriteReceipt, Goto, journals, OperatedInv, DurableInv, CallOK
<1>2. Interrupted' = {} /\ Interrupted = {}
  BY <1>1 DEF Interrupted, OperatedInv, AloneOK, Unappended
<1>3. InterruptedOK' /\ LineageVerifies'
  BY <1>1, <1>2, InterruptedKeeps
<1>4. AckedOK'
  BY <1>1, AckedKeeps
<1>5. AloneOK'
  BY <1>1, <1>2 DEF OperatedInv, AloneOK, Unappended, Extending, LastEvent, StateOf,
                    Contiguous
<1>6. Genesis \notin TxsOf(lineage) /\ "COMMIT_INTENT" \notin files[Genesis]
  BY <1>1, <1>2, NotYetCommitted, GenesisAssumption
     DEF Interrupted, OperatedInv, DurableInv, JobOK, Unappended
<1>7. GenesisOK'
  BY <1>1, <1>6 DEF GenesisOK, TxsOf
<1>8. BindingOK'
  <2>1. EndsAtView' <=> Supplied(job.recs) = {}
    BY <1>1 DEF EndsAtView
  <2>2. ~EndsAtView => "manifest" \in files[Genesis] /\ manifest[Genesis] = Supplied(job.recs)
    BY <1>1 DEF OperatedInv, BindingOK
  <2>3. EndsAtView' <=> EndsAtView
    BY <1>1 DEF EndsAtView
  <2> QED
    BY <1>1, <2>1, <2>2, <2>3 DEF OperatedInv, BindingOK
<1>9. DurableInv'
  BY DurableNext DEF OperatedInv
<1> QED
  BY <1>1, <1>3, <1>4, <1>5, <1>7, <1>8, <1>9 DEF OperatedInv

(* From COMMIT_INTENT on the transaction under way may be interrupted. *)
LEMMA OperatedIntends ==
  ASSUME OperatedInv, [Next]_vars, WriteIntent
  PROVE  OperatedInv'
<1>1. /\ UNCHANGED <<lineage, torn, jevent, manifest, receipt, acked, job>>
      /\ pc = "WriteIntent" /\ pc' = "AppendLineage" /\ ~EndsAtView /\ job.tx \in Tx
      /\ files' = [files EXCEPT ![job.tx] = files[job.tx] \cup {"COMMIT_INTENT"}]
      /\ job.op # "recover" /\ jevent[job.tx] = job.ev
      /\ job.tx \notin TxsOf(lineage) /\ job.ev.tx = job.tx
  BY DEF WriteIntent, AddFile, Goto, OperatedInv, DurableInv, CallOK, JobOK, TypeOK,
         JobType, Unappended
<1>2. Interrupted = {} /\ Interrupted' \subseteq {job.tx}
  BY <1>1 DEF Interrupted, OperatedInv, AloneOK, Unappended, DurableInv, TypeOK
<1>3. Extending(job.ev) /\ Extending(job.ev)'
  BY <1>1 DEF OperatedInv, AloneOK, Unappended, Extending, LastEvent, StateOf, Contiguous
<1>4. \A i \in DOMAIN lineage : lineage[i].tx \in CommittedTx'
  <2>1. ASSUME NEW i \in DOMAIN lineage PROVE lineage[i].tx \in CommittedTx'
    <3>1. PICK t \in Tx : t = lineage[i].tx /\ Committed(t)
      BY <1>2 DEF OperatedInv, InterruptedOK, Committed, CommittedTx
    <3> QED
      BY <3>1, CommittedStays DEF OperatedInv, Committed
  <2> QED
    BY <2>1
<1>5. InterruptedOK'
  <2>1. ASSUME NEW t \in Interrupted' PROVE Extending(jevent[t])'
    BY <1>1, <1>2, <1>3, <2>1 DEF Extending, LastEvent, StateOf, Contiguous
  <2> QED
    BY <1>1, <1>2, <1>4, <2>1 DEF InterruptedOK, Committed
<1>6. LineageVerifies'
  BY <1>1 DEF OperatedInv, LineageVerifies, ChainHolds, Contiguous, StateOf
<1>7. AckedOK'
  BY <1>1, AckedKeeps
<1>8. AloneOK'
  BY <1>1, <1>2, <1>3 DEF OperatedInv, AloneOK, Unappended
<1>9. BindingOK'
  BY <1>1 DEF OperatedInv, BindingOK, EndsAtView
<1>10. GenesisOK'
  <2>1. CASE job.tx = Genesis
    <3>1. job.op = "initialize"
      BY <1>1, <2>1 DEF OperatedInv, AloneOK, DurableInv, TypeOK, JobType
    <3>2. /\ receipt = job.ev.ref /\ receipt = ReceiptOf(job.recs)
          /\ "manifest" \in files[Genesis] /\ manifest[Genesis] = Supplied(job.recs)
          /\ Supplied(job.recs) # {}
      BY <1>1, <3>1 DEF OperatedInv, BindingOK, EndsAtView
    <3>3. receipt.mode = "WITH_RECORDS" /\ receipt.members = Supplied(job.recs)
          /\ receipt \in Receipt
      BY <3>2 DEF ReceiptOf, Receipt, Supplied
    <3>4. receipt # None
      BY <3>3, ReceiptAssumption
    <3>5. GenesisJournalAgrees'
      BY <1>1, <2>1, <3>2, <3>3, <3>4
         DEF GenesisJournalAgrees, OperatedInv, DurableInv, TypeOK
    <3>6. files'[Genesis] # {}
      BY <1>1, <2>1 DEF OperatedInv, DurableInv, TypeOK
    <3> QED
      BY <3>5, <3>6 DEF GenesisOK
  <2>2. CASE job.tx # Genesis
    <3>1. files'[Genesis] = files[Genesis]
      BY <1>1, <2>2, GenesisAssumption DEF OperatedInv, DurableInv, TypeOK
    <3> QED
      BY <1>1, <3>1, GenesisKeeps DEF TxsOf
  <2> QED
    BY <2>1, <2>2
<1>11. DurableInv'
  BY DurableNext DEF OperatedInv
<1> QED
  BY <1>1, <1>5, <1>6, <1>7, <1>8, <1>9, <1>10, <1>11 DEF OperatedInv

(* What is appended continues the chain behind committed events only. *)
LEMMA OperatedAppends ==
  ASSUME OperatedInv, [Next]_vars, AppendLineage
  PROVE  OperatedInv'
<1>1. /\ lineage' = Append(lineage, job.ev) /\ job.ev \in Event
      /\ UNCHANGED <<torn, files, jevent, manifest, receipt, acked, job>>
      /\ pc = "AppendLineage" /\ pc' = "PromoteRecords" /\ ~EndsAtView /\ job.tx \in Tx
      /\ job.tx \notin TxsOf(lineage) /\ job.ev.tx = job.tx
      /\ "COMMIT_INTENT" \in files[job.tx]
  BY DEF AppendLineage, Goto, journals, OperatedInv, DurableInv, CallOK, JobOK, TypeOK,
         JobType, Unappended, Intended
<1>2. Interrupted' = Interrupted /\ job.tx \in Interrupted
  BY <1>1, NotYetCommitted DEF Interrupted, OperatedInv
<1>3. /\ Len(lineage) \in Nat /\ Len(lineage') = Len(lineage) + 1
      /\ \A i \in DOMAIN lineage : i \in DOMAIN lineage' /\ lineage'[i] = lineage[i]
      /\ \A i \in DOMAIN lineage' : i \in DOMAIN lineage \/ i = Len(lineage')
      /\ Len(lineage') \in DOMAIN lineage' /\ lineage'[Len(lineage')] = job.ev
      /\ TxsOf(lineage') = TxsOf(lineage) \cup {job.tx}
  <2>1. lineage \in Seq(Event)
    BY DEF OperatedInv, DurableInv, TypeOK
  <2>2. /\ Len(lineage) \in Nat /\ Len(lineage') = Len(lineage) + 1
        /\ \A i \in DOMAIN lineage : i \in DOMAIN lineage' /\ lineage'[i] = lineage[i]
        /\ \A i \in DOMAIN lineage' : i \in DOMAIN lineage \/ i = Len(lineage')
        /\ Len(lineage') \in DOMAIN lineage' /\ lineage'[Len(lineage')] = job.ev
    BY <1>1, <2>1
  <2>3. TxsOf(lineage') = TxsOf(lineage) \cup {job.tx}
    <3>1. \A t \in TxsOf(lineage') : t \in TxsOf(lineage) \/ t = job.tx
      BY <1>1, <2>2, Zenon DEF TxsOf
    <3>2. \A t \in TxsOf(lineage) : t \in TxsOf(lineage')
      BY <2>2, Zenon DEF TxsOf
    <3>3. job.tx \in TxsOf(lineage')
      BY <1>1, <2>2, Zenon DEF TxsOf
    <3> QED
      BY <3>1, <3>2, <3>3
  <2> QED
    BY <2>2, <2>3
<1>4. \A i \in DOMAIN lineage : lineage[i].tx \in CommittedTx'
  <2>1. ASSUME NEW i \in DOMAIN lineage PROVE lineage[i].tx \in CommittedTx'
    <3>1. lineage[i].tx \notin Interrupted
      BY <1>1, <1>2 DEF OperatedInv, InterruptedOK, TxsOf
    <3>2. PICK t \in Tx : t = lineage[i].tx /\ Committed(t)
      BY <3>1 DEF OperatedInv, InterruptedOK, Committed, CommittedTx
    <3> QED
      BY <3>2, CommittedStays DEF OperatedInv, Committed
  <2> QED
    BY <2>1
<1>5. InterruptedOK'
  <2>1. \A t \in Interrupted : t \in TxsOf(lineage')
    BY <1>2, <1>3 DEF OperatedInv, InterruptedOK
  <2>2. \A i \in DOMAIN lineage' :
            \/ lineage'[i].tx \in CommittedTx'
            \/ i = Len(lineage') /\ lineage'[i].tx \in Interrupted
    BY <1>1, <1>2, <1>3, <1>4
  <2>3. \A t, u \in Interrupted : t = u
    BY DEF OperatedInv, InterruptedOK
  <2> QED
    BY <1>2, <2>1, <2>2, <2>3 DEF InterruptedOK, Committed
<1>6. LineageVerifies'
  <2>1. Extending(job.ev)
    BY <1>1 DEF OperatedInv, AloneOK, Unappended
  <2>2. ASSUME NEW i \in 2 .. Len(lineage')
        PROVE  Contiguous(lineage'[i], StateOf(lineage'[i - 1]))
    <3>1. CASE i \in 2 .. Len(lineage)
      <4>1. i \in DOMAIN lineage /\ i - 1 \in DOMAIN lineage
        BY <1>3, <3>1
      <4> QED
        BY <1>3, <3>1, <4>1 DEF OperatedInv, LineageVerifies, ChainHolds
    <3>2. CASE i = Len(lineage) + 1
      <4>1. lineage # <<>> /\ Contiguous(job.ev, StateOf(LastEvent))
        BY <1>3, <2>1, <2>2, <3>2 DEF Extending
      <4>2. i - 1 = Len(lineage) /\ i - 1 \in DOMAIN lineage
        BY <1>3, <2>2, <3>2
      <4> QED
        BY <1>3, <3>2, <4>1, <4>2 DEF LastEvent
    <3> QED
      BY <1>3, <3>1, <3>2
  <2> QED
    BY <2>2 DEF LineageVerifies, ChainHolds, Contiguous, StateOf
<1>7. AckedOK'
  BY <1>1, AckedKeeps
<1>8. AloneOK'
  BY <1>1, <1>2 DEF OperatedInv, AloneOK, Unappended
<1>9. BindingOK'
  BY <1>1 DEF OperatedInv, BindingOK, EndsAtView
<1>10. GenesisOK'
  BY <1>1, <1>3 DEF OperatedInv, GenesisOK, GenesisJournalAgrees
<1>11. DurableInv'
  BY DurableNext DEF OperatedInv
<1> QED
  BY <1>1, <1>5, <1>6, <1>7, <1>8, <1>9, <1>10, <1>11 DEF OperatedInv

(* A bare genesis is committed by its one line. *)
LEMMA BareGenesis ==
  ASSUME OperatedInv, WriteLineage
  PROVE  /\ lineage = <<>> /\ lineage' = <<job.ev>> /\ job.ev.tx = Genesis
         /\ Interrupted' = {} /\ files[Genesis] = {}
         /\ receipt # None /\ receipt.mode = "BARE"
         /\ Genesis \in CommittedTx'
<1>1. /\ lineage = <<>> /\ lineage' = <<job.ev>> /\ job.ev \in Event
      /\ UNCHANGED <<torn, files, jevent, manifest, receipt, acked, job>>
      /\ pc = "WriteLineage" /\ pc' = "ReplaceCurrent" /\ EndsAtView
      /\ job.op = "initialize" /\ job.tx = Genesis /\ job.ev.tx = Genesis
  BY DEF WriteLineage, Goto, journals, OperatedInv, DurableInv, CallOK, JobOK,
         Unappended, EndsAtView
<1>2. Interrupted = {} /\ Interrupted' = {} /\ files[Genesis] = {}
  BY <1>1 DEF Interrupted, OperatedInv, AloneOK, Unappended, BindingOK
<1>3. receipt # None /\ receipt.mode = "BARE"
  <2>1. receipt = ReceiptOf(job.recs) /\ Supplied(job.recs) = {}
    BY <1>1 DEF OperatedInv, BindingOK, EndsAtView
  <2>2. receipt \in Receipt /\ receipt.mode = "BARE"
    BY <2>1 DEF ReceiptOf, Receipt, Supplied
  <2> QED
    BY <2>2, ReceiptAssumption
<1>4. /\ Len(lineage') = 1 /\ DOMAIN lineage' = {1} /\ lineage'[1] = job.ev
      /\ TxsOf(lineage') = {Genesis}
  BY <1>1 DEF TxsOf
<1>5. Genesis \in CommittedTx'
  BY <1>1, <1>2, <1>3, <1>4, GenesisAssumption DEF CommittedTx, GenesisCommitted, TxsOf
<1> QED
  BY <1>1, <1>2, <1>3, <1>5

(* After it nothing is interrupted and the lineage is that one line. *)
LEMMA OperatedWritesLineage ==
  ASSUME OperatedInv, [Next]_vars, WriteLineage
  PROVE  OperatedInv'
<1>1. /\ UNCHANGED <<torn, files, jevent, manifest, receipt, acked, job>>
      /\ pc = "WriteLineage" /\ pc' = "ReplaceCurrent" /\ EndsAtView
      /\ job.op = "initialize"
  BY DEF WriteLineage, Goto, journals, OperatedInv, DurableInv, CallOK
<1>2. /\ lineage' = <<job.ev>> /\ job.ev.tx = Genesis
      /\ Interrupted' = {} /\ files[Genesis] = {}
  BY BareGenesis
<1>3. receipt # None /\ receipt.mode = "BARE"
  BY BareGenesis
<1>4. /\ Len(lineage') = 1 /\ DOMAIN lineage' = {1} /\ lineage'[1] = job.ev
      /\ TxsOf(lineage') = {Genesis}
  BY <1>2 DEF TxsOf
<1>5. Genesis \in CommittedTx'
  BY BareGenesis
<1>6. InterruptedOK' /\ LineageVerifies'
  BY <1>1, <1>2, <1>4, <1>5 DEF InterruptedOK, LineageVerifies, ChainHolds, Committed
<1>7. AckedOK'
  BY <1>1, AckedKeeps
<1>8. AloneOK' /\ BindingOK'
  BY <1>1, <1>2 DEF OperatedInv, AloneOK, BindingOK, Unappended, EndsAtView
<1>9. GenesisOK'
  BY <1>1, <1>2, <1>3 DEF OperatedInv, GenesisOK, GenesisJournalAgrees
<1>10. DurableInv'
  BY DurableNext DEF OperatedInv
<1> QED
  BY <1>1, <1>6, <1>7, <1>8, <1>9, <1>10 DEF OperatedInv

(* A bare genesis is acknowledged once its line is there. *)
LEMMA OperatedReplaces ==
  ASSUME OperatedInv, [Next]_vars, ReplaceCurrent
  PROVE  OperatedInv'
<1>1. UNCHANGED <<lineage, torn, files, jevent, manifest, receipt>>
  BY DEF ReplaceCurrent, journals
<1>2. CASE EndsAtView
  <2>1. /\ job' = NoJob /\ pc' = "idle" /\ acked' = acked \cup {Genesis}
        /\ job.tx = Genesis /\ pc = "ReplaceCurrent"
    BY <1>2 DEF ReplaceCurrent, Release, Ack, OperatedInv, DurableInv, CallOK, EndsAtView
  <2>2. Genesis \in TxsOf(lineage)
    BY <2>1 DEF OperatedInv, DurableInv, JobOK, Appended, TxsOf
  <2>3. files[Genesis] = {} /\ receipt # None /\ receipt.mode = "BARE"
    BY <1>2, <2>2 DEF OperatedInv, BindingOK, GenesisOK
  <2>4. Genesis \in CommittedTx' /\ Genesis \in TxsOf(lineage')
    BY <1>1, <2>2, <2>3, GenesisAssumption DEF CommittedTx, GenesisCommitted, TxsOf
  <2>5. AckedOK'
    BY <2>1, <2>4, AckedKeeps
  <2>6. InterruptedOK' /\ LineageVerifies'
    BY <1>1, InterruptedKeeps DEF Interrupted
  <2>7. AloneOK' /\ BindingOK'
    BY <2>1 DEF AloneOK, BindingOK, NoJob, Unappended, EndsAtView
  <2>8. GenesisOK'
    BY <1>1, GenesisKeeps DEF TxsOf
  <2>9. DurableInv'
    BY DurableNext DEF OperatedInv
  <2> QED
    BY <1>1, <2>5, <2>6, <2>7, <2>8, <2>9 DEF OperatedInv
<1>3. CASE ~EndsAtView
  <2>1. UNCHANGED <<acked, job>> /\ pc' = "MarkCommitted"
    BY <1>3 DEF ReplaceCurrent, Goto
  <2>2. AloneOK' /\ BindingOK'
    BY <1>1, <1>3, <2>1
       DEF OperatedInv, AloneOK, BindingOK, Unappended, EndsAtView, Interrupted
  <2> QED
    BY <1>1, <2>1, <2>2, UnchangedKeeps DEF OperatedInv
<1> QED
  BY <1>2, <1>3

(* COMMITTED ends the interruption. *)
LEMMA OperatedMarks ==
  ASSUME OperatedInv, [Next]_vars, MarkCommitted
  PROVE  OperatedInv'
<1>1. /\ UNCHANGED <<lineage, torn, jevent, manifest, receipt>>
      /\ pc = "MarkCommitted" /\ ~EndsAtView /\ job.tx \in Tx
      /\ files' = [files EXCEPT ![job.tx] = files[job.tx] \cup {"COMMITTED"}]
      /\ "COMMIT_INTENT" \in files[job.tx] /\ job.tx \in TxsOf(lineage)
  BY DEF MarkCommitted, AddFile, OperatedInv, DurableInv, CallOK, JobOK, TypeOK,
         JobType, Appended, Intended, TxsOf
<1>2. /\ Interrupted' = Interrupted \ {job.tx}
      /\ job.tx \in CommittedTx'
  BY <1>1 DEF Interrupted, OperatedInv, DurableInv, TypeOK, CommittedTx, GenesisCommitted
<1>3. \A i \in DOMAIN lineage :
        \/ lineage[i].tx \in CommittedTx'
        \/ i = Len(lineage) /\ lineage[i].tx \in Interrupted'
  <2>1. ASSUME NEW i \in DOMAIN lineage, Committed(lineage[i].tx)
        PROVE  lineage[i].tx \in CommittedTx'
    <3>1. PICK t \in Tx : t = lineage[i].tx
      BY <2>1 DEF Committed, CommittedTx
    <3> QED
      BY <2>1, <3>1, CommittedStays DEF OperatedInv, Committed
  <2> QED
    BY <1>2, <2>1 DEF OperatedInv, InterruptedOK
<1>4. \A t \in Interrupted' : t \notin TxsOf(lineage) => Extending(jevent[t])'
  BY <1>1, <1>2
     DEF OperatedInv, InterruptedOK, Extending, LastEvent, StateOf, Contiguous
<1>5. InterruptedOK' /\ LineageVerifies'
  BY <1>1, <1>2, <1>3, <1>4
     DEF OperatedInv, InterruptedOK, LineageVerifies, ChainHolds, Committed, TxsOf,
         StateOf, Contiguous
<1>6. AckedOK'
  <2>1. acked' \ acked \subseteq {job.tx}
    BY DEF MarkCommitted, Ack
  <2> QED
    BY <1>1, <1>2, <2>1, AckedKeeps DEF TxsOf
<1>7. pc' \in {"idle", "RecoverNext"} /\ job'.op = "recover"
  BY DEF MarkCommitted, Release, NoJob, OperatedInv, DurableInv, TypeOK, JobType
<1>8. AloneOK' /\ BindingOK'
  BY <1>7 DEF AloneOK, BindingOK, Unappended, EndsAtView
<1>9. GenesisOK'
  <2>1. files'[Genesis] # {} => "COMMIT_INTENT" \in files[Genesis] \/ files'[Genesis] = files[Genesis]
    BY <1>1, GenesisAssumption DEF OperatedInv, DurableInv, TypeOK
  <2>2. "COMMIT_INTENT" \in files'[Genesis] => "COMMIT_INTENT" \in files[Genesis]
    BY <1>1, GenesisAssumption DEF OperatedInv, DurableInv, TypeOK
  <2>3. files[Genesis] \subseteq files'[Genesis]
    BY <1>1, GenesisAssumption DEF OperatedInv, DurableInv, TypeOK
  <2> QED
    BY <1>1, <2>2, <2>3 DEF OperatedInv, GenesisOK, GenesisJournalAgrees, TxsOf
<1>10. DurableInv'
  BY DurableNext DEF OperatedInv
<1> QED
  BY <1>1, <1>5, <1>6, <1>8, <1>9, <1>10 DEF OperatedInv

(* OperatedInv holds of the empty Store, and every operated step keeps it. *)
LEMMA OperatedInit == Init => OperatedInv
<1> SUFFICES ASSUME Init PROVE OperatedInv
  OBVIOUS
<1>1. DurableInv
  BY DurableInit
<1>2. Interrupted = {} /\ TxsOf(lineage) = {} /\ lineage = <<>>
  BY DEF Init, Interrupted, TxsOf
<1>3. AloneOK /\ BindingOK
  BY <1>2 DEF Init, AloneOK, BindingOK, NoJob, Unappended, EndsAtView
<1>4. InterruptedOK /\ GenesisOK /\ AckedOK /\ LineageVerifies /\ ~torn
  BY <1>2, GenesisAssumption
     DEF Init, InterruptedOK, GenesisOK, AckedOK, LineageVerifies, ChainHolds
<1> QED
  BY <1>1, <1>3, <1>4 DEF OperatedInv

(* An operated call starts with nothing interrupted; the other steps are as above. *)
LEMMA OperatedStep == OperatedInv /\ [OperatedNext]_vars => OperatedInv'
<1> SUFFICES ASSUME OperatedInv, [OperatedNext]_vars PROVE OperatedInv'
  OBVIOUS
<1>1. [Next]_vars
  BY DEF OperatedNext, OperatedCall, Next
<1>2. CASE OperatedCall
  <2>1. Interrupted = {}
    BY <1>2 DEF OperatedCall, NothingInterrupted, Interrupted
  <2>2. CASE CallCommit
    <3>1. CommittedStates \subseteq State
      BY CommittedStatesType DEF OperatedInv, DurableInv
    <3> QED
      BY <1>1, <2>1, <2>2, <3>1, OperatedCommits DEF CallCommit
  <2>3. CASE CallReplay
    BY <1>1, <2>1, <2>3, OperatedReplays DEF CallReplay
  <2>4. CASE CallInitialize /\ InKind
    BY <1>1, <2>1, <2>4, OperatedInitializes DEF CallInitialize
  <2> QED
    BY <1>2, <2>2, <2>3, <2>4 DEF OperatedCall
<1>3. CASE RecoverBegin \/ Crash \/ CrashMidAppend \/ Read \/ UNCHANGED vars
  BY <1>1, <1>3, OperatedRecovers, OperatedReleases, OperatedReads
<1>4. CASE Advance
  BY <1>1, <1>4, OperatedStages, OperatedReleases, OperatedWritesReceipt,
     OperatedIntends, OperatedAppends, OperatedWritesLineage, OperatedReads,
     OperatedReplaces, OperatedMarks, OperatedRecovers DEF Advance
<1> QED
  BY <1>2, <1>3, <1>4 DEF OperatedNext

(* OperatedInv holds of the Store whose operators recover it before the    *)
(* next commit.                                                            *)
THEOREM OperatedSafe == OperatedSpec => []OperatedInv
<1> QED
  BY OperatedInit, OperatedStep, PTL DEF OperatedSpec

(* The lineage never breaks: every event of it but the last is committed,  *)
(* none is there twice and each continues its predecessor.                 *)
THEOREM LineageHolds == OperatedSpec => []LineageSound
<1>1. ASSUME OperatedInv PROVE LineageSound
  <2>1. Len(lineage) \in Nat
    BY <1>1 DEF OperatedInv, DurableInv, TypeOK
  <2>2. OnlyTrailingUncommitted
    BY <1>1, <2>1 DEF OperatedInv, InterruptedOK, OnlyTrailingUncommitted
  <2> QED
    BY <1>1, <2>2 DEF LineageSound, OperatedInv, DurableInv
<1> QED
  BY <1>1, OperatedSafe, PTL

(* An event of a committed transaction is in the committed prefix.         *)
LEMMA CommittedInPrefix ==
  ASSUME OperatedInv, NEW i \in DOMAIN lineage, Committed(lineage[i].tx)
  PROVE  i \in 1 .. CommittedLen
<1>1. Len(lineage) \in Nat /\ DOMAIN lineage = 1 .. Len(lineage)
  BY DEF OperatedInv, DurableInv, TypeOK
<1>2. PICK n : n = CommittedLen
  OBVIOUS
<1>3. n \in 0 .. Len(lineage) /\ (n < Len(lineage) => ~Committed(lineage[n + 1].tx))
  BY <1>2, CommittedLenFact DEF OperatedInv, DurableInv
<1>4. SUFFICES ASSUME n < i PROVE FALSE
  BY <1>1, <1>2, <1>3
<1>5. n + 1 \in DOMAIN lineage /\ ~Committed(lineage[n + 1].tx)
  BY <1>1, <1>3, <1>4
<1>6. n + 1 = Len(lineage)
  BY <1>5 DEF OperatedInv, InterruptedOK
<1>7. i = n + 1
  BY <1>1, <1>3, <1>4, <1>6
<1> QED
  BY <1>5, <1>7

(* What a caller was told is committed stays in the committed lineage.     *)
THEOREM AcksHold == OperatedSpec => []AckedStaysCommitted
<1>1. ASSUME OperatedInv PROVE AckedStaysCommitted
  <2>1. ASSUME NEW t \in acked
        PROVE  Committed(t) /\ \E i \in 1 .. CommittedLen : lineage[i].tx = t
    <3>1. Committed(t) /\ t \in TxsOf(lineage)
      BY <1>1 DEF OperatedInv, AckedOK
    <3>2. PICK i \in DOMAIN lineage : lineage[i].tx = t
      BY <3>1 DEF TxsOf
    <3>3. i \in 1 .. CommittedLen
      BY <1>1, <3>1, <3>2, CommittedInPrefix
    <3> QED
      BY <3>1, <3>2, <3>3
  <2> QED
    BY <2>1 DEF AckedStaysCommitted
<1> QED
  BY <1>1, OperatedSafe, PTL

(* Where no crash tears the last line, the State of a project that was     *)
(* created can be reconstructed at every moment.                           *)
THEOREM AlwaysReadable ==
  ASSUME ~TornAppends
  PROVE  OperatedSpec => []StoreReadable
<1>1. ASSUME OperatedInv, Genesis \in acked PROVE Reconstructs
  <2>1. ~torn
    BY <1>1 DEF OperatedInv
  <2>2. GenesisSound
    <3>1. CASE files[Genesis] # {}
      <4>1. ASSUME "COMMITTED" \in files[Genesis]
            PROVE  /\ GenesisJournalAgrees
                   /\ \E i \in DOMAIN lineage : lineage[i] = jevent[Genesis]
        BY <1>1, <4>1, GenesisAssumption
           DEF OperatedInv, DurableInv, JournalsOK, CommittedIsDurable, GenesisOK
      <4> QED
        BY <3>1, <4>1 DEF GenesisSound
    <3>2. CASE files[Genesis] = {}
      BY <1>1, <3>2 DEF OperatedInv, GenesisOK, GenesisSound
    <3> QED
      BY <3>1, <3>2
  <2>3. PICK n : n = CommittedLen
    OBVIOUS
  <2>4. n \in 0 .. Len(lineage) /\ Len(lineage) \in Nat
    BY <1>1, <2>3, CommittedLenFact DEF OperatedInv, DurableInv, TypeOK
  <2>5. n > 0
    <3>1. Committed(Genesis) /\ Genesis \in TxsOf(lineage)
      BY <1>1 DEF OperatedInv, AckedOK
    <3>2. PICK i \in DOMAIN lineage : lineage[i].tx = Genesis
      BY <3>1 DEF TxsOf
    <3>3. i \in 1 .. n
      BY <1>1, <2>3, <3>1, <3>2, CommittedInPrefix
    <3> QED
      BY <2>4, <3>3
  <2>6. ChainHolds(n)
    BY <1>1, <2>4 DEF OperatedInv, LineageVerifies, ChainHolds
  <2> QED
    BY <2>1, <2>2, <2>3, <2>5, <2>6 DEF Reconstructs
<1>2. OperatedInv => StoreReadable
  BY <1>1 DEF StoreReadable
<1> QED
  BY <1>2, OperatedSafe, PTL

(* A genesis event as initialize builds it. *)
GenesisForm(e) == e.to = 0 /\ e.before = None

(* The lineage begins with one, and so does whatever may still begin it. *)
FirstOK ==
    /\ pc \in Unappended \cup Appended /\ job.tx = Genesis => GenesisForm(job.ev)
    /\ "event" \in files[Genesis] => GenesisForm(jevent[Genesis])
    /\ lineage # <<>> => lineage[1].tx = Genesis /\ GenesisForm(lineage[1])

(* Nothing else can begin the lineage: what extends an empty one is a      *)
(* genesis.                                                                *)
LEMMA FirstNext == OperatedInv /\ FirstOK /\ [Next]_vars => FirstOK'
<1> SUFFICES ASSUME OperatedInv, FirstOK, [Next]_vars PROVE FirstOK'
  OBVIOUS
<1>1. pc' \in Unappended \cup Appended /\ job'.tx = Genesis => GenesisForm(job'.ev)
  <2>1. CASE UNCHANGED <<pc, job>>
    BY <2>1 DEF FirstOK
  <2>2. CASE CallCommit
    BY <2>2 DEF CallCommit, CommitBegin
  <2>3. CASE CallInitialize
    BY <2>3 DEF CallInitialize, InitializeBegin, GenesisEvent, GenesisForm
  <2>4. CASE RecoverBegin \/ Crash \/ CrashMidAppend
    BY <2>4 DEF RecoverBegin, Crash, CrashMidAppend, Release, Unappended, Appended
  <2>5. CASE \E t \in Tx : RecoverJournal(t)
    BY <2>5 DEF RecoverJournal, FirstOK, OperatedInv, DurableInv, CallOK, JournalsOK,
                TypeOK, JobType
  <2>6. CASE WriteEvent \/ StageRecords \/ WriteReceipt \/ WriteIntent \/ AppendLineage
             \/ WriteLineage \/ PromoteDone
    BY <2>6 DEF WriteEvent, StageRecords, WriteReceipt, WriteIntent, AppendLineage,
                WriteLineage, PromoteDone, Goto, FirstOK, Unappended, Appended
  <2>7. CASE StageConflict \/ PromoteDiverges \/ RecoverFinish
             \/ \E t \in Tx : RecoverDistrusts(t)
    BY <2>7 DEF StageConflict, PromoteDiverges, RecoverFinish, RecoverDistrusts, Release,
                Unappended, Appended
  <2>8. CASE ReplaceCurrent \/ MarkCommitted
    BY <2>8 DEF ReplaceCurrent, MarkCommitted, Goto, Release, FirstOK, Unappended,
                Appended
  <2>9. CASE Read \/ CallReplay \/ (\E r \in Rec : PromoteRecord(r)) \/ UNCHANGED vars
    BY <2>1, <2>9 DEF Read, LoadReconstruct, LoadCheck, LoadWrite, BootBegin, BootReconstruct,
                BootCheck, ReadDone, ReadStep, CallReplay, CommitReplay, PromoteRecord, vars
  <2> QED
    BY <2>2, <2>3, <2>4, <2>5, <2>6, <2>7, <2>8, <2>9 DEF Next, Advance
<1>2. "event" \in files'[Genesis] => GenesisForm(jevent'[Genesis])
  <2>1. CASE WriteEvent
    BY <2>1, GenesisAssumption
       DEF WriteEvent, AddFile, FirstOK, Unappended, OperatedInv, DurableInv, TypeOK
  <2>2. CASE /\ UNCHANGED jevent
             /\ "event" \in files'[Genesis] => "event" \in files[Genesis]
    BY <2>2 DEF FirstOK
  <2>3. CASE CallCommit \/ CallInitialize
    <3>1. UNCHANGED jevent
      BY <2>3 DEF CallCommit, CommitBegin, CallInitialize, InitializeBegin
    <3>2. UNCHANGED files \/ \E t \in Tx : AddFile(t, "dir")
      BY <2>3, GenesisAssumption
         DEF CallCommit, CommitBegin, CallInitialize, InitializeBegin
    <3> QED
      BY <2>2, <3>1, <3>2, GenesisAssumption DEF AddFile, OperatedInv, DurableInv, TypeOK
  <2>4. CASE StageRecords \/ WriteIntent \/ MarkCommitted
    BY <2>2, <2>4, GenesisAssumption
       DEF StageRecords, WriteIntent, MarkCommitted, AddFile, OperatedInv, DurableInv, TypeOK
  <2>5. CASE UNCHANGED <<files, jevent>>
    BY <2>2, <2>5
  <2>6. CASE CallReplay \/ RecoverBegin \/ Crash \/ CrashMidAppend
    BY <2>5, <2>6 DEF CallReplay, CommitReplay, RecoverBegin, Crash, CrashMidAppend, disk,
                      journals
  <2>7. CASE Advance /\ ~WriteEvent /\ ~StageRecords /\ ~WriteIntent /\ ~MarkCommitted
    BY <2>5, <2>7 DEF Advance, StageConflict, WriteReceipt, AppendLineage, WriteLineage,
                PromoteRecord, PromoteDiverges, PromoteDone, ReplaceCurrent,
                RecoverJournal, RecoverDistrusts, RecoverFinish, disk, journals
  <2>8. CASE Read \/ UNCHANGED vars
    BY <2>5, <2>8 DEF Read, LoadReconstruct, LoadCheck, LoadWrite, BootBegin, vars,
                BootReconstruct, BootCheck, ReadDone, ReadStep, disk, journals
  <2> QED
    BY <2>1, <2>3, <2>4, <2>6, <2>7, <2>8 DEF Next
<1>3. lineage' # <<>> => lineage'[1].tx = Genesis /\ GenesisForm(lineage'[1])
  <2>1. CASE lineage # <<>>
    <3>1. 1 \in DOMAIN lineage
      BY <2>1 DEF OperatedInv, DurableInv, TypeOK
    <3> QED
      BY <2>1, <3>1, LineageGrows DEF FirstOK, OperatedInv
  <2>2. CASE lineage = <<>> /\ AppendLineage
    <3>1. job.tx = Genesis /\ job.ev.tx = Genesis
      BY <2>2 DEF AppendLineage, OperatedInv, AloneOK, Unappended, Extending, DurableInv,
                  JobOK
    <3> QED
      BY <2>2, <3>1 DEF AppendLineage, FirstOK, Unappended
  <2>3. CASE lineage = <<>> /\ WriteLineage
    <3>1. job.tx = Genesis /\ job.ev.tx = Genesis
      BY <2>3 DEF WriteLineage, OperatedInv, DurableInv, JobOK, CallOK, Unappended,
                  EndsAtView
    <3> QED
      BY <2>3, <3>1 DEF WriteLineage, FirstOK, Unappended
  <2>4. CASE lineage = <<>> /\ UNCHANGED lineage
    BY <2>4
  <2>5. AppendLineage \/ WriteLineage \/ UNCHANGED lineage
    BY LineageSteps
  <2> QED
    BY <2>1, <2>2, <2>3, <2>4, <2>5
<1> QED
  BY <1>1, <1>2, <1>3 DEF FirstOK

-----------------------------------------------------------------------------
(* The Store implements the register.                                      *)

(* A step that neither marks a transaction nor writes a bare genesis.      *)
Invisible == (MarkCommitted => "COMMITTED" \in files[job.tx]) /\ ~WriteLineage

(* Such a step commits nothing.                                            *)
LEMMA CommittedSame ==
  ASSUME DurableInv, [Next]_vars, Invisible, NEW t \in Tx, t \in CommittedTx'
  PROVE  Committed(t)
<1>1. "COMMITTED" \in files'[t] => "COMMITTED" \in files[t]
  BY FilesNext DEF Invisible, DurableInv, TypeOK
<1>2. files'[t] = {} => files[t] = {}
  BY FilesGrow
<1>3. CASE t # Genesis \/ files'[Genesis] # {}
  BY <1>1, <1>3 DEF Committed, CommittedTx, GenesisCommitted
<1>4. CASE t = Genesis /\ files'[Genesis] = {}
  <2>1. receipt' # None /\ receipt'.mode = "BARE" /\ Genesis \in TxsOf(lineage')
    BY <1>4 DEF CommittedTx, GenesisCommitted, TxsOf
  <2>2. Genesis \in TxsOf(lineage)
    <3>1. CASE AppendLineage
      <4>1. job.tx # Genesis /\ job.ev.tx = job.tx /\ job.ev \in Event
        BY <1>2, <1>4, <3>1 DEF AppendLineage, DurableInv, JobOK, CallOK, Intended, Unappended
      <4>2. PICK i \in DOMAIN lineage' : lineage'[i].tx = Genesis
        BY <2>1 DEF TxsOf
      <4>3. i \in DOMAIN lineage /\ lineage'[i] = lineage[i]
        BY <3>1, <4>1, <4>2 DEF AppendLineage, DurableInv, TypeOK
      <4> QED
        BY <4>2, <4>3 DEF TxsOf
    <3>2. CASE UNCHANGED lineage
      BY <2>1, <3>2
    <3> QED
      BY <3>1, <3>2, LineageSteps DEF Invisible
  <2>3. receipt' = receipt
    BY <2>2, ReceiptStays
  <2> QED
    BY <1>2, <1>4, <2>1, <2>2, <2>3 DEF Committed, CommittedTx, GenesisCommitted
<1> QED
  BY <1>3, <1>4

(* Nor does it lengthen the committed prefix. *)
LEMMA CommittedLenSame ==
  ASSUME DurableInv, [Next]_vars, Invisible
  PROVE  CommittedLen' = CommittedLen
<1>1. PICK m, n : m = CommittedLen' /\ n = CommittedLen
  OBVIOUS
<1>2. n \in 0 .. Len(lineage) /\ (n < Len(lineage) => ~Committed(lineage[n + 1].tx))
  BY <1>1, CommittedLenFact DEF DurableInv
<1>3. m \in 0 .. Len(lineage') /\ \A i \in 1 .. m : lineage'[i].tx \in CommittedTx'
  <2>1. TypeOK'
    BY DurableNext DEF DurableInv
  <2> QED
    BY <1>1, <2>1, CommittedLenNext
<1>4. n <= m
  BY <1>1, PrefixStays
<1>5. SUFFICES ASSUME n < m PROVE FALSE
  BY <1>1, <1>2, <1>3, <1>4, LineageGrows
<1>6. n + 1 \in 1 .. m /\ lineage'[n + 1].tx \in CommittedTx' /\ n \in Nat /\ m \in Nat
  BY <1>2, <1>3, <1>5, LineageGrows
<1>7. CASE n < Len(lineage)
  <2>1. n + 1 \in DOMAIN lineage
    BY <1>2, <1>7 DEF DurableInv, TypeOK
  <2>2. lineage'[n + 1] = lineage[n + 1]
    BY <2>1, LineageGrows
  <2>3. PICK t : t = lineage[n + 1].tx
    OBVIOUS
  <2>4. t \in Tx
    <3>1. lineage[n + 1] \in Event
      BY <2>1 DEF DurableInv, TypeOK
    <3> QED
      BY <2>3, <3>1 DEF Event
  <2>5. t \in CommittedTx' /\ ~Committed(t)
    BY <1>2, <1>6, <1>7, <2>2, <2>3
  <2> QED
    BY <2>4, <2>5, CommittedSame
<1>8. CASE n = Len(lineage)
  <2>1. AppendLineage
    <3>1. lineage' # lineage
      BY <1>3, <1>6, <1>8, LineageGrows
    <3> QED
      BY <3>1, LineageSteps DEF Invisible
  <2>2. job.ev \in Event /\ job.ev.tx = job.tx /\ job.tx \in Tx /\ job.tx \notin TxsOf(lineage)
    BY <2>1 DEF AppendLineage, DurableInv, JobOK, Unappended, TypeOK, JobType
  <2>3. lineage'[n + 1] = job.ev
    BY <1>8, <2>1, <2>2 DEF AppendLineage, DurableInv, TypeOK
  <2>4. job.tx \in CommittedTx'
    BY <1>6, <2>2, <2>3
  <2> QED
    BY <2>2, <2>4, CommittedSame, NotYetCommitted
<1> QED
  BY <1>2, <1>7, <1>8, LineageGrows

(* A committed transaction claims nothing more.                            *)
LEMMA ClaimsOfCommitted ==
  ASSUME DurableInv, [Next]_vars, NEW r \in Rec, NEW t \in Tx, Committed(t),
         t \in Claimants(r)'
  PROVE  t \in Claimants(r)
<1>1. CASE StageRecords /\ t = job.tx
  <2>1. t \notin TxsOf(lineage)
    BY <1>1 DEF StageRecords, DurableInv, JobOK, Unappended
  <2> QED
    BY <2>1, NotYetCommitted
<1>2. CASE ~(StageRecords /\ t = job.tx)
  <2>1. "manifest" \in files'[t] => "manifest" \in files[t]
    BY <1>2, FilesNext DEF DurableInv, TypeOK
  <2>2. manifest'[t] = manifest[t]
    BY <1>2, ManifestSteps DEF StageRecords, DurableInv, TypeOK
  <2> QED
    BY <2>1, <2>2 DEF Claimants
<1> QED
  BY <1>1, <1>2

(* Nor does it change what a public read answers. *)
LEMMA ResolvedSame ==
  ASSUME DurableInv, FreshOK, [Next]_vars, Invisible, NEW r \in Rec
  PROVE  Resolved(r)' = Resolved(r)
<1>1. CASE \E t \in Claimants(r) : Committed(t)
  <2>1. PICK t \in Claimants(r) : Committed(t)
    BY <1>1
  <2> QED
    BY <2>1, AnswerStays
<1>2. CASE ~ \E t \in Claimants(r) : Committed(t)
  <2>1. ASSUME NEW t \in Claimants(r)', Committed(t)' PROVE FALSE
    <3>1. t \in Tx /\ Committed(t)
      BY <2>1, CommittedSame DEF Claimants, Committed
    <3>2. t \notin Claimants(r)
      BY <1>2, <3>1
    <3> QED
      BY <2>1, <3>1, <3>2, ClaimsOfCommitted
  <2> QED
    BY <1>2, <2>1 DEF Resolved
<1> QED
  BY <1>1, <1>2

(* A function on 1 .. n + 1 is one on 1 .. n with an element appended.      *)
LEMMA SequenceExtends ==
  ASSUME NEW S, NEW n \in Nat, NEW h \in [1 .. n -> S], NEW k \in [1 .. n + 1 -> S],
         \A i \in 1 .. n : k[i] = h[i]
  PROVE  /\ h \in Seq(S) /\ Len(h) = n /\ k = Append(h, k[n + 1])
         /\ n = 0 => h = <<>> /\ k = <<k[n + 1]>>
<1>1. h \in Seq(S) /\ k \in Seq(S) /\ Len(h) = n /\ Len(k) = n + 1
  OBVIOUS
<1>2. Append(h, k[n + 1]) \in Seq(S) /\ Len(Append(h, k[n + 1])) = n + 1
  BY <1>1
<1>3. \A i \in 1 .. n + 1 : Append(h, k[n + 1])[i] = k[i]
  BY <1>1
<1>4. k = Append(h, k[n + 1])
  BY <1>1, <1>2, <1>3, SeqEqual
<1>5. ASSUME n = 0 PROVE h = <<>>
  BY <1>1, <1>5
<1> QED
  BY <1>1, <1>4, <1>5

(* The register's view of an event, and of the lineage. *)
Seen(e) == [tx |-> e.tx, to |-> e.to, before |-> e.before, fp |-> e.fp]
Seens == [tx : Tx, to : Nat, before : Fp \cup {None}, fp : Fp]
History == [i \in 1 .. CommittedLen |->
              [tx |-> lineage[i].tx, to |-> lineage[i].to,
               before |-> lineage[i].before, fp |-> lineage[i].fp]]
Visible == [r \in Rec |-> Resolved(r)]

(* The step that marks a transaction commits the lineage's last event.     *)
LEMMA MarkCommits ==
  ASSUME OperatedInv, [Next]_vars, MarkCommitted, "COMMITTED" \notin files[job.tx]
  PROVE  /\ lineage' = lineage /\ CommittedLen + 1 = Len(lineage)
         /\ CommittedLen' = Len(lineage)
<1>1. /\ lineage' = lineage /\ job.tx \in Tx /\ job.tx \in TxsOf(lineage)
      /\ "COMMIT_INTENT" \in files[job.tx]
      /\ files' = [files EXCEPT ![job.tx] = files[job.tx] \cup {"COMMITTED"}]
  BY DEF MarkCommitted, AddFile, OperatedInv, DurableInv, CallOK, JobOK, TypeOK,
         JobType, Appended, Intended, TxsOf
<1>2. job.tx \in Interrupted /\ ~Committed(job.tx)
  BY <1>1 DEF Interrupted, Committed, CommittedTx, GenesisCommitted
<1>3. PICK i \in DOMAIN lineage : lineage[i].tx = job.tx
  BY <1>1 DEF TxsOf
<1>4. i = Len(lineage) /\ Len(lineage) \in Nat \ {0} /\ DOMAIN lineage = 1 .. Len(lineage)
  BY <1>2, <1>3 DEF OperatedInv, InterruptedOK, DurableInv, TypeOK
<1>5. PICK n : n = CommittedLen
  OBVIOUS
<1>6. n \in 0 .. Len(lineage) /\ \A j \in 1 .. n : Committed(lineage[j].tx)
  BY <1>5, CommittedLenFact DEF OperatedInv, DurableInv
<1>7. n < Len(lineage)
  BY <1>2, <1>3, <1>4, <1>6
<1>8. n + 1 = Len(lineage)
  <2>1. SUFFICES ASSUME n + 1 < Len(lineage) PROVE FALSE
    BY <1>4, <1>6, <1>7
  <2>2. n + 1 \in DOMAIN lineage /\ n + 1 # Len(lineage)
    BY <1>4, <1>6, <2>1
  <2>3. Committed(lineage[n + 1].tx)
    BY <2>2 DEF OperatedInv, InterruptedOK
  <2>4. n + 1 \in 1 .. n
    BY <1>5, <2>2, <2>3, CommittedInPrefix
  <2> QED
    BY <1>6, <2>4
<1>9. CommittedLen' = Len(lineage)
  <2>1. PICK m : m = CommittedLen'
    OBVIOUS
  <2>2. m \in 0 .. Len(lineage) /\ (m < Len(lineage) => lineage[m + 1].tx \notin CommittedTx')
    <3>1. TypeOK'
      BY DurableNext DEF OperatedInv, DurableInv
    <3> QED
      BY <1>1, <2>1, <3>1, CommittedLenNext
  <2>3. n <= m
    BY <1>5, <2>1, PrefixStays DEF OperatedInv
  <2>4. job.tx \in CommittedTx'
    BY <1>1 DEF CommittedTx, GenesisCommitted, OperatedInv, DurableInv, TypeOK
  <2>5. m < Len(lineage) => m + 1 = Len(lineage)
    BY <1>4, <1>6, <1>8, <2>2, <2>3
  <2>6. lineage[Len(lineage)].tx = job.tx
    BY <1>3, <1>4
  <2>7. ~(m < Len(lineage))
    BY <2>2, <2>4, <2>5, <2>6
  <2> QED
    BY <1>4, <2>1, <2>2, <2>7
<1> QED
  BY <1>1, <1>5, <1>8, <1>9

(* What is seen of the lineage is a sequence that grows by its last event. *)
LEMMA HistoryGrows ==
  ASSUME OperatedInv, [Next]_vars, CommittedLen' = CommittedLen + 1,
         Len(lineage') = CommittedLen + 1
  PROVE  /\ History \in Seq(Seens) /\ Len(History) = CommittedLen
         /\ History' = Append(History, Seen(lineage'[Len(lineage')]))
         /\ CommittedLen = 0 => History = <<>> /\ History' = <<Seen(lineage'[1])>>
<1>1. PICK n : n = CommittedLen
  OBVIOUS
<1>2. n \in 0 .. Len(lineage) /\ n \in Nat
  BY <1>1, CommittedLenFact DEF OperatedInv, DurableInv, TypeOK
<1>3. lineage' \in Seq(Event)
  BY DurableNext DEF OperatedInv, DurableInv, TypeOK
<1>4. \A i \in 1 .. n : lineage'[i] = lineage[i]
  BY <1>1, PrefixStays DEF OperatedInv
<1>5. \A i \in 1 .. n + 1 : lineage'[i] \in Event
  BY <1>1, <1>2, <1>3
<1>6. PICK h, k : h = History /\ k = History'
  OBVIOUS
<1>7. h = [i \in 1 .. n |-> Seen(lineage[i])]
  BY <1>1, <1>6, Zenon DEF History, Seen
<1>8. k = [i \in 1 .. n + 1 |-> Seen(lineage'[i])]
  BY <1>1, <1>6, Zenon DEF History, Seen
<1>9. h \in [1 .. n -> Seens]
  BY <1>2, <1>4, <1>5, <1>7 DEF Seen, Seens, Event
<1>10. k \in [1 .. n + 1 -> Seens]
  BY <1>5, <1>8 DEF Seen, Seens, Event
<1>11. \A i \in 1 .. n : k[i] = h[i]
  BY <1>2, <1>4, <1>7, <1>8
<1>12. /\ h \in Seq(Seens) /\ Len(h) = n /\ k = Append(h, k[n + 1])
       /\ n = 0 => h = <<>> /\ k = <<k[n + 1]>>
  BY <1>2, <1>9, <1>10, <1>11, SequenceExtends
<1>13. k[n + 1] = Seen(lineage'[n + 1]) /\ Len(lineage') = n + 1
  BY <1>1, <1>2, <1>8
<1> QED
  BY <1>1, <1>2, <1>6, <1>12, <1>13

(* A visible step is one of the register's.                                *)
LEMMA VisibleStep ==
  ASSUME OperatedInv, FreshOK, FirstOK, [Next]_vars, FirstOK', ~Invisible
  PROVE  Register!RegNext
<1> DEFINE e == lineage'[Len(lineage')]
<1>1. CommittedLen' = CommittedLen + 1 /\ Len(lineage') = CommittedLen + 1
  <2>1. CASE MarkCommitted
    <3>1. "COMMITTED" \notin files[job.tx]
      BY <2>1 DEF Invisible, WriteLineage, MarkCommitted
    <3> QED
      BY <2>1, <3>1, MarkCommits
  <2>2. CASE WriteLineage
    <3>1. /\ lineage = <<>> /\ lineage' = <<job.ev>> /\ job.ev.tx = Genesis
          /\ Genesis \in CommittedTx'
      BY <2>2, BareGenesis
    <3>2. PICK m, n : m = CommittedLen' /\ n = CommittedLen
      OBVIOUS
    <3>3. n = 0
      BY <3>1, <3>2, CommittedLenFact DEF OperatedInv, DurableInv
    <3>4. TypeOK'
      BY DurableNext DEF OperatedInv, DurableInv
    <3>5. m \in 0 .. 1 /\ (m < 1 => lineage'[m + 1].tx \notin CommittedTx')
      BY <3>1, <3>2, <3>4, CommittedLenNext
    <3>6. m = 1
      BY <3>1, <3>5
    <3> QED
      BY <3>1, <3>2, <3>3, <3>6
  <2> QED
    BY <2>1, <2>2 DEF Invisible
<1>2. PICK n : n = CommittedLen
  OBVIOUS
<1>3. n \in Nat /\ n <= Len(lineage) /\ DOMAIN lineage' = 1 .. n + 1 /\ lineage' \in Seq(Event)
  <2>1. n \in 0 .. Len(lineage) /\ Len(lineage) \in Nat
    BY <1>2, CommittedLenFact DEF OperatedInv, DurableInv, TypeOK
  <2>2. lineage' \in Seq(Event)
    BY DurableNext DEF OperatedInv, DurableInv, TypeOK
  <2> QED
    BY <1>1, <1>2, <2>1, <2>2
<1>4. e \in Event /\ e = lineage'[n + 1]
  BY <1>1, <1>2, <1>3
<1>5. Visible' \in [Rec -> Body \cup {None, Corrupt}]
  <2>1. record' \in Records
    BY DurableNext DEF OperatedInv, DurableInv, TypeOK
  <2> QED
    BY <2>1 DEF Visible, Resolved, Records
<1>6. /\ History \in Seq(Seens) /\ Len(History) = n
      /\ History' = Append(History, Seen(e))
      /\ n = 0 => History = <<>> /\ History' = <<Seen(lineage'[1])>>
  BY <1>1, <1>2, HistoryGrows
<1> HIDE DEF e
<1>7. CASE n = 0
  <2>1. e = lineage'[1] /\ lineage' # <<>>
    <3>1. n + 1 = 1
      BY <1>7
    <3>2. 1 \in DOMAIN lineage'
      BY <1>3, <3>1
    <3> QED
      BY <1>4, <3>1, <3>2
  <2>2. e.tx = Genesis /\ e.to = 0 /\ e.before = None /\ e.fp \in Fp
    BY <1>4, <2>1 DEF FirstOK, GenesisForm, Event
  <2>3. Seen(e) \in [tx : {Genesis}, to : {0}, before : {None}, fp : Fp]
    BY <2>2 DEF Seen
  <2> QED
    BY <1>5, <1>6, <1>7, <2>1, <2>3, Zenon
       DEF Register!RegNext, Register!Create, History, Visible
<1>8. CASE n > 0
  <2>1. Len(lineage) = n + 1 /\ lineage' = lineage
    <3>1. ~WriteLineage
      <4>1. lineage = <<>> => n = 0
        BY <1>2, CommittedLenFact DEF OperatedInv, DurableInv
      <4> QED
        BY <1>8, <4>1, BareGenesis
    <3>2. MarkCommitted /\ "COMMITTED" \notin files[job.tx]
      BY <3>1 DEF Invisible
    <3> QED
      BY <1>2, <3>2, MarkCommits
  <2>2. lineage[n] \in Event /\ e = lineage[n + 1] /\ n \in DOMAIN lineage
    BY <1>3, <1>4, <1>8, <2>1
  <2>3. Contiguous(e, StateOf(lineage[n]))
    <3>1. n + 1 \in 2 .. Len(lineage)
      BY <1>3, <1>8, <2>1
    <3>2. Contiguous(lineage[n + 1], StateOf(lineage[(n + 1) - 1]))
      BY <3>1 DEF OperatedInv, LineageVerifies, ChainHolds
    <3>3. (n + 1) - 1 = n
      BY <1>3
    <3> QED
      BY <2>2, <3>2, <3>3
  <2>4. /\ e.tx \in Tx \ {Genesis} /\ e.fp \in Fp
        /\ e.to = lineage[n].to + 1 /\ e.before = lineage[n].fp
    BY <1>4, <2>3 DEF Contiguous, StateOf, Event
  <2>5. \A i \in DOMAIN History : i \in DOMAIN lineage /\ i # n + 1 /\ History[i] = Seen(lineage[i])
    BY <1>2, <1>3, <2>1 DEF History, Seen
  <2>6. \A i \in DOMAIN History : History[i].tx # e.tx
    BY <1>3, <2>1, <2>2, <2>5 DEF Seen, OperatedInv, DurableInv, NoDuplicateEvents
  <2>7. History[n] = Seen(lineage[n]) /\ History # <<>>
    BY <1>3, <1>6, <1>8, <2>5
  <2>8. Seen(e) = [tx |-> e.tx, to |-> History[Len(History)].to + 1,
                   before |-> History[Len(History)].fp, fp |-> e.fp]
    BY <1>6, <2>4, <2>7 DEF Seen
  <2>9. \A r \in Rec : Visible[r] # None => Visible'[r] = Visible[r]
    BY ResolvedStays DEF Visible, OperatedInv
  <2>10. History' = Append(History, [tx |-> e.tx, to |-> History[Len(History)].to + 1,
                   before |-> History[Len(History)].fp, fp |-> e.fp])
    BY <1>6, <2>8, Zenon
  <2> QED
    BY <1>5, <2>4, <2>6, <2>7, <2>9, <2>10, Zenon
       DEF Register!RegNext, Register!Commit, Register!Head_, Register!Extends, History, Visible
<1> QED
  BY <1>3, <1>7, <1>8

(* Any other step leaves the register as it is.                            *)
LEMMA InvisibleStep ==
  ASSUME DurableInv, FreshOK, [Next]_vars, Invisible
  PROVE  UNCHANGED Register!regVars
<1>1. PICK n : n = CommittedLen /\ n = CommittedLen'
  BY CommittedLenSame
<1>2. \A i \in 1 .. n : lineage'[i] = lineage[i]
  BY <1>1, PrefixStays
<1>3. History = [i \in 1 .. n |-> Seen(lineage[i])]
  BY <1>1, Zenon DEF History, Seen
<1>4. History' = [i \in 1 .. n |-> Seen(lineage'[i])]
  BY <1>1, Zenon DEF History, Seen
<1>5. History' = History
  BY <1>2, <1>3, <1>4
<1>6. Visible' = Visible
  BY ResolvedSame DEF Visible
<1> QED
  BY <1>5, <1>6, Zenon DEF Register!regVars, History, Visible

(* The disk with its journals, locks, crashes and recoveries implements    *)
(* the register: a commit and what a read answers of its records become    *)
(* visible in one step.                                                    *)
THEOREM StoreImplementsRegister == OperatedSpec => ImplementsRegister
<1>1. Init => Register!RegInit
  <2> SUFFICES ASSUME Init PROVE Register!RegInit
    OBVIOUS
  <2>1. CommittedLen = 0
    BY DurableInit, CommittedLenFact DEF Init, DurableInv
  <2>2. History = <<>>
    BY <2>1 DEF History
  <2>3. Visible = [r \in Rec |-> None]
    BY DEF Init, Visible, Resolved, NoRecords
  <2> QED
    BY <2>2, <2>3, Zenon DEF Register!RegInit, History, Visible
<1>2. Init => FirstOK
  BY GenesisAssumption DEF Init, FirstOK, Unappended, Appended
<1>3. [OperatedNext]_vars => [Next]_vars
  BY DEF OperatedNext, OperatedCall, Next
<1>4. OperatedInv /\ FreshOK /\ [Next]_vars => FreshOK'
  BY FreshNext DEF OperatedInv
<1>5. OperatedInv /\ FreshOK /\ FirstOK /\ FirstOK' /\ [Next]_vars =>
        [Register!RegNext]_Register!regVars
  BY VisibleStep, InvisibleStep DEF OperatedInv
<1> QED
  BY <1>1, <1>2, <1>3, <1>4, <1>5, FreshInit, FirstNext, OperatedSafe, PTL
     DEF OperatedSpec, ImplementsRegister, Register!RegSpec
=============================================================================
