--------------------------- MODULE FileStateStore ---------------------------
(***************************************************************************)
(* store/file_store.py: the append-only-lineage filesystem State Store.    *)
(*                                                                         *)
(* The disk holds, per project, the lineage log (events/transitions.jsonl),*)
(* the materialized view (state/current.json), the promoted records        *)
(* (records/<kind>/<id>.json), one recovery journal directory per          *)
(* transaction (state/recovery/<tx>/) and the genesis receipt.  initialize,*)
(* commit and recover hold the one exclusive project lock (_lock) from     *)
(* their first read to their last write, so a single writer context (pc,   *)
(* job) stands for whichever process holds it; every durable write is a    *)
(* step of its own and Crash may fall between any two of them.             *)
(* load_current and read_current_consistent take no lock: each Reader      *)
(* interleaves its reads with the writer's steps.                          *)
(*                                                                         *)
(* A State is (revision, semantic fingerprint); an event carries its own   *)
(* after_state.  Journal names sort arbitrarily with respect to commit     *)
(* order (identities are content addresses), so recover picks journals in  *)
(* any order.  Tampering with the files from outside is not modelled.      *)
(***************************************************************************)
EXTENDS Naturals, Sequences, FiniteSets

CONSTANTS
    Tx,             \* transaction identities, Genesis among them
    Genesis,        \* GENESIS_TRANSACTION_ID
    Rec,            \* record identities: (kind, id) pairs
    Body,           \* canonical record bodies
    Fp,             \* semantic fingerprints
    Readers,        \* processes calling the unlocked read surfaces
    TornAppends,    \* may a crash leave half a line at the lineage's end?
    None,           \* the absent value: JSON null, a missing file
    Corrupt         \* the answer of a read that raises CorruptStoreError

ASSUME GenesisAssumption == Genesis \in Tx
ASSUME NoneAssumption == None \notin Tx \cup Rec \cup Body \cup Fp
ASSUME CorruptAssumption == Corrupt \notin Body \cup {None}
ASSUME TornAssumption == TornAppends \in BOOLEAN

VARIABLES
    lineage,    \* events/transitions.jsonl, complete lines only
    torn,       \* whether an incomplete line follows them
    files,      \* what each recovery journal directory contains
    jevent,     \* each journal's event.json
    manifest,   \* each journal's manifest.json, as a set
    staged,     \* each journal's records/ directory
    record,     \* the permanent record files
    current,    \* state/current.json
    receipt,    \* state/genesis_receipt.json
    pc,         \* the lock holder's next step; "idle" when the lock is free
    job,        \* the lock holder's local variables
    acked,      \* history: transactions some caller was told are committed
    rd          \* the unlocked readers' local variables

disk == <<lineage, torn, files, jevent, manifest, staged, record, current,
          receipt>>
journals == <<files, jevent, manifest, staged>>
vars == <<disk, pc, job, acked, rd>>

-----------------------------------------------------------------------------
(* Values. *)

Records == [Rec -> Body \cup {None}]
NoRecords == [r \in Rec |-> None]
Supplied(rs) == {r \in Rec : rs[r] # None}

Receipt == [mode : {"BARE", "WITH_RECORDS"}, members : SUBSET Rec]

(* An absent receipt is none of the receipts. *)
ASSUME ReceiptAssumption == None \notin Receipt

\* Seeded fault: the receipt's digest covers no manifest member.
ReceiptOfNothing(rs) ==
    [mode |-> IF Supplied(rs) = {} THEN "BARE" ELSE "WITH_RECORDS",
     members |-> {}]
(* The receipt of a genesis with records rs: mode and manifest membership, *)
(* the digest of which is its content-addressed identity.                  *)
ReceiptOf(rs) ==
    [mode |-> IF Supplied(rs) = {} THEN "BARE" ELSE "WITH_RECORDS",
     members |-> Supplied(rs)]

Event == [tx : Tx, to : Nat, before : Fp \cup {None}, fp : Fp,
          ref : Receipt \cup {None}]

State == [rev : Nat, fp : Fp]

\* Seeded fault: revision and fingerprint swapped.
StateOfSwapped(e) == [rev |-> e.fp, fp |-> e.to]
StateOf(e) == [rev |-> e.to, fp |-> e.fp]

(* build_state_transition: the successor event of State s. *)
SuccessorOf(s, t, f) ==
    [tx |-> t, to |-> s.rev + 1, before |-> s.fp, fp |-> f, ref |-> None]

GenesisEvent(f, rs) ==
    [tx |-> Genesis, to |-> 0, before |-> None, fp |-> f, ref |-> ReceiptOf(rs)]

(* _verify_event against the State before it. *)
Contiguous(e, s) == e.tx # Genesis /\ e.to = s.rev + 1 /\ e.before = s.fp

-----------------------------------------------------------------------------
(* What the read surfaces compute from the disk. *)

TxsOf(log) == {log[i].tx : i \in DOMAIN log}

(* _verify_genesis_journal: the journal agrees with the genesis receipt. *)
GenesisJournalAgrees ==
    /\ receipt # None
    /\ receipt.mode = "WITH_RECORDS"
    /\ jevent[Genesis].ref = receipt
    /\ "manifest" \in files[Genesis]
    /\ manifest[Genesis] = receipt.members

(* _genesis_transaction_committed *)
GenesisCommitted ==
    IF files[Genesis] # {}
    THEN "COMMITTED" \in files[Genesis]
    ELSE /\ receipt # None
         /\ receipt.mode = "BARE"
         /\ Genesis \in TxsOf(lineage)

(* _transaction_committed *)
CommittedTx ==
    {t \in Tx : IF t = Genesis THEN GenesisCommitted ELSE "COMMITTED" \in files[t]}
Committed(t) == t \in CommittedTx

(* How many events _committed_events returns: it stops at the first whose  *)
(* transaction is not durably COMMITTED.                                   *)
CommittedLen ==
    CHOOSE n \in 0 .. Len(lineage) :
        /\ \A i \in 1 .. n : Committed(lineage[i].tx)
        /\ n < Len(lineage) => ~Committed(lineage[n + 1].tx)

CommittedStates == {StateOf(lineage[i]) : i \in 1 .. CommittedLen}

(* The contradictions on which _genesis_transaction_committed raises.      *)
GenesisSound ==
    IF files[Genesis] # {}
    THEN "COMMITTED" \in files[Genesis] =>
            /\ GenesisJournalAgrees
            /\ \E i \in DOMAIN lineage : lineage[i] = jevent[Genesis]
    ELSE Genesis \in TxsOf(lineage) =>
            receipt # None /\ receipt.mode = "BARE"

(* Whether every event of the first n verifies against its predecessor. *)
ChainHolds(n) ==
    \A i \in 2 .. n : Contiguous(lineage[i], StateOf(lineage[i - 1]))

(* reconstruct returns, rather than raising on a torn log, an absent       *)
(* genesis or a non-contiguous transition.                                 *)
Reconstructs ==
    ~torn /\ GenesisSound /\ CommittedLen > 0 /\ ChainHolds(CommittedLen)
\* Seeded fault: the raw log's last event, committed or not (R9-F4).
ReconstructedRaw == StateOf(lineage[Len(lineage)])
Reconstructed == StateOf(lineage[CommittedLen])

(* _record_committed_by_any_transaction: the journals claiming r, and the  *)
(* bodies there are to compare.                                            *)
Claimants(r) == {t \in Tx : "manifest" \in files[t] /\ r \in manifest[t]}
Bodies(r) == ({record[r]} \cup {staged[t][r] : t \in Claimants(r)}) \ {None}

\* Seeded fault: a record is visible as soon as its file exists (R8-F4).
ResolvedFromFile(r) == record[r]
(* resolve_record answers with the file of a record some committed journal *)
(* claims, and raises when the bodies of its claimants diverge.            *)
Resolved(r) ==
    CASE record[r] = None \/ ~ \E t \in Claimants(r) : Committed(t) -> None
      [] OTHER -> IF Cardinality(Bodies(r)) > 1 THEN Corrupt ELSE record[r]

(* _has_pending_transaction *)
HasPending == \E t \in Tx : files[t] # {} /\ "COMMITTED" \notin files[t]

(* _has_unexplained_lineage_event *)
HasUnexplained == \E t \in TxsOf(lineage) \ {Genesis} : files[t] = {}

-----------------------------------------------------------------------------
(* The lock holder's steps.                                                *)

NoJob == [op |-> "recover", tx |-> Genesis, ev |-> None, recs |-> NoRecords,
          todo |-> {}]

Free == pc = "idle"

(* The call returns or raises: the lock is released. *)
Release == pc' = "idle" /\ job' = NoJob

Goto(next) == pc' = next /\ UNCHANGED job

Ack(t) == acked' = acked \cup {t}

AddFile(t, f) == files' = [files EXCEPT ![t] = @ \cup {f}]

\* Seeded fault: commit trusts the caller's view of the current State.
AcceptsAnything(base, ev) == TRUE
(* commit's compare-and-swap against the State the caller built its event  *)
(* on, and _verify_event.                                                  *)
Accepts(base, ev) == base = Reconstructed /\ Contiguous(ev, Reconstructed)

(* commit up to journal.mkdir(exist_ok=False), for a transaction the       *)
(* lineage does not name.  The caller loaded base at some earlier time.    *)
CommitBegin(t, base, f, rs) ==
    LET ev == SuccessorOf(base, t, f) IN
    /\ Free /\ Reconstructs
    /\ t \notin TxsOf(lineage)
    /\ Accepts(base, ev)
    /\ files[t] = {}
    /\ AddFile(t, "dir")
    /\ job' = [op |-> "commit", tx |-> t, ev |-> ev, recs |-> rs, todo |-> {}]
    /\ pc' = "WriteEvent"
    /\ UNCHANGED <<lineage, torn, jevent, manifest, staged, record, current,
                   receipt, acked, rd>>

(* commit's replay of a transaction the lineage already names: the event   *)
(* and the record manifest must be the ones it carries; current.json is    *)
(* rewritten from the prior event and its after_state returned.            *)
CommitReplay(e, rs) ==
    /\ Free /\ Reconstructs
    /\ e.tx # Genesis
    /\ \E i \in DOMAIN lineage : lineage[i] = e
    /\ \A r \in Supplied(rs) : Resolved(r) = rs[r]
    /\ Supplied(rs) = manifest[e.tx]
    /\ current' = StateOf(e)
    /\ Ack(e.tx)
    /\ UNCHANGED <<lineage, torn, journals, record, receipt, pc, job, rd>>

\* Seeded fault: initialize does not ask whether the project exists.
UninitializedOrNot == TRUE
(* AlreadyInitializedError otherwise: the lineage file does not exist. *)
Uninitialized == lineage = <<>> /\ ~torn

(* initialize up to its first write; journal.mkdir(exist_ok=True) admits a *)
(* directory an interrupted initialize left behind.                        *)
InitializeBegin(f, rs) ==
    LET bare == Supplied(rs) = {} IN
    /\ Free
    /\ Uninitialized
    /\ job' = [op |-> "initialize", tx |-> Genesis,
               ev |-> GenesisEvent(f, rs), recs |-> rs, todo |-> {}]
    /\ IF bare
       THEN pc' = "WriteReceipt" /\ UNCHANGED files
       ELSE pc' = "WriteEvent" /\ AddFile(Genesis, "dir")
    /\ UNCHANGED <<lineage, torn, jevent, manifest, staged, record, current,
                   receipt, acked, rd>>

(* event.json, and state.json, which nothing reads back. *)
WriteEvent ==
    /\ pc = "WriteEvent"
    /\ AddFile(job.tx, "event")
    /\ jevent' = [jevent EXCEPT ![job.tx] = job.ev]
    /\ Goto("StageRecords")
    /\ UNCHANGED <<lineage, torn, manifest, staged, record, current, receipt,
                   acked, rd>>

Conflicts(rs) == {r \in Supplied(rs) : record[r] \notin {None, rs[r]}}

\* Seeded fault: a commit appends before its COMMIT_INTENT is durable.
AfterStagingNoIntent == IF job.op = "initialize" THEN "WriteReceipt" ELSE "AppendLineage"
(* Only a genesis writes a receipt. *)
AfterStaging == IF job.op = "initialize" THEN "WriteReceipt" ELSE "WriteIntent"

\* Seeded fault: records are staged without a look at the permanent ones.
StageUnchecked ==
    /\ pc = "StageRecords"
    /\ staged' = [staged EXCEPT ![job.tx] = job.recs]
    /\ manifest' = [manifest EXCEPT ![job.tx] = Supplied(job.recs)]
    /\ AddFile(job.tx, "manifest")
    /\ Goto(AfterStaging)
    /\ UNCHANGED <<lineage, torn, jevent, record, current, receipt, acked, rd>>
(* _stage_records: a record already permanent with these bytes is claimed  *)
(* but not staged again; the manifest is written last.                     *)
StageRecords ==
    /\ pc = "StageRecords"
    /\ Conflicts(job.recs) = {}
    /\ staged' = [staged EXCEPT ![job.tx] =
                    [r \in Rec |-> IF job.recs[r] # None /\ record[r] = None
                                   THEN job.recs[r] ELSE @[r]]]
    /\ manifest' = [manifest EXCEPT ![job.tx] = Supplied(job.recs)]
    /\ AddFile(job.tx, "manifest")
    /\ Goto(AfterStaging)
    /\ UNCHANGED <<lineage, torn, jevent, record, current, receipt, acked, rd>>

(* RecordConflictError: raised with the journal directory already made.    *)
StageConflict ==
    /\ pc = "StageRecords"
    /\ Conflicts(job.recs) # {}
    /\ Release
    /\ UNCHANGED <<disk, acked, rd>>

WriteReceipt ==
    /\ pc = "WriteReceipt"
    /\ receipt' = job.ev.ref
    /\ Goto(IF Supplied(job.recs) = {} THEN "WriteLineage" ELSE "WriteIntent")
    /\ UNCHANGED <<lineage, torn, journals, record, current, acked, rd>>

WriteIntent ==
    /\ pc = "WriteIntent"
    /\ AddFile(job.tx, "COMMIT_INTENT")
    /\ Goto("AppendLineage")
    /\ UNCHANGED <<lineage, torn, jevent, manifest, staged, record, current,
                   receipt, acked, rd>>

(* _append *)
AppendLineage ==
    /\ pc = "AppendLineage"
    /\ lineage' = Append(lineage, job.ev)
    /\ Goto("PromoteRecords")
    /\ UNCHANGED <<torn, journals, record, current, receipt, acked, rd>>

(* A bare genesis writes its one-line lineage by atomic replacement. *)
WriteLineage ==
    /\ pc = "WriteLineage"
    /\ lineage' = <<job.ev>>
    /\ Goto("ReplaceCurrent")
    /\ UNCHANGED <<torn, journals, record, current, receipt, acked, rd>>

Promotable(r) == staged[job.tx][r] # None /\ record[r] = None

(* _promote_staged_records, one record file at a time. *)
PromoteRecord(r) ==
    /\ pc = "PromoteRecords"
    /\ Promotable(r)
    /\ record' = [record EXCEPT ![r] = staged[job.tx][r]]
    /\ UNCHANGED <<lineage, torn, journals, current, receipt, pc, job, acked,
                   rd>>

(* A staged body that differs from the permanent one: CorruptStoreError.   *)
PromoteDiverges ==
    /\ pc = "PromoteRecords"
    /\ \E r \in Rec : staged[job.tx][r] # None
                      /\ record[r] \notin {None, staged[job.tx][r]}
    /\ Release
    /\ UNCHANGED <<disk, acked, rd>>

\* Seeded fault: promotion may stop before its last file.
AllPromotedOrNot(t) == TRUE
AllPromoted(t) == \A r \in Rec : staged[t][r] \in {None, record[r]}

PromoteDone ==
    /\ pc = "PromoteRecords"
    /\ AllPromoted(job.tx)
    /\ Goto(IF job.op = "recover" THEN "MarkCommitted" ELSE "ReplaceCurrent")
    /\ UNCHANGED <<disk, acked, rd>>

\* Seeded fault: every call returns once the view is replaced.
EndsAtViewAlways == TRUE
(* A bare genesis has no journal to mark COMMITTED. *)
EndsAtView == job.op = "initialize" /\ Supplied(job.recs) = {}

(* current.json of commit and initialize. *)
ReplaceCurrent ==
    /\ pc = "ReplaceCurrent"
    /\ current' = StateOf(job.ev)
    /\ IF EndsAtView
       THEN Release /\ Ack(job.tx)
       ELSE Goto("MarkCommitted") /\ UNCHANGED acked
    /\ UNCHANGED <<lineage, torn, journals, record, receipt, rd>>

(* The COMMITTED marker, on which every read surface turns. *)
MarkCommitted ==
    /\ pc = "MarkCommitted"
    /\ AddFile(job.tx, "COMMITTED")
    /\ IF job.op = "recover"
       THEN /\ pc' = "RecoverNext"
            /\ job' = [job EXCEPT !.todo = @ \ {job.tx}]
            /\ UNCHANGED acked
       ELSE Release /\ Ack(job.tx)
    /\ UNCHANGED <<lineage, torn, jevent, manifest, staged, record, current,
                   receipt, rd>>

-----------------------------------------------------------------------------
(* recover.                                                                *)

\* Seeded fault: a transaction already in the lineage is passed over.
RecoverableUnappended(t) ==
    "COMMIT_INTENT" \in files[t] /\ t \notin TxsOf(lineage)
(* Every journal holding COMMIT_INTENT is visited, committed or not; one   *)
(* without it is passed over and stays as it is.                           *)
Recoverable(t) == "COMMIT_INTENT" \in files[t]

RecoverBegin ==
    /\ Free /\ ~torn
    /\ job' = [NoJob EXCEPT !.todo = {t \in Tx : Recoverable(t)}]
    /\ pc' = "RecoverNext"
    /\ UNCHANGED <<disk, acked, rd>>

(* An interrupted genesis is completed only if its receipt binding holds   *)
(* and its event, once appended, still is the journal's own.               *)
JournalTrusted(t) ==
    t = Genesis =>
        /\ GenesisJournalAgrees
        /\ \A i \in DOMAIN lineage :
              lineage[i].tx = Genesis => lineage[i] = jevent[Genesis]

ResumeAt(t) ==
    IF t \in TxsOf(lineage) THEN "PromoteRecords" ELSE "AppendLineage"

RecoverJournal(t) ==
    /\ pc = "RecoverNext"
    /\ t \in job.todo
    /\ JournalTrusted(t)
    /\ job' = [job EXCEPT !.tx = t, !.ev = jevent[t]]
    /\ pc' = ResumeAt(t)
    /\ UNCHANGED <<disk, acked, rd>>

RecoverDistrusts(t) ==
    /\ pc = "RecoverNext"
    /\ t \in job.todo
    /\ ~JournalTrusted(t)
    /\ Release
    /\ UNCHANGED <<disk, acked, rd>>

(* The view is rewritten from the lineage, or StateNotFoundError or        *)
(* RevisionError leaves it alone.                                          *)
RecoverFinish ==
    /\ pc = "RecoverNext"
    /\ job.todo = {}
    /\ current' = IF Reconstructs THEN Reconstructed ELSE current
    /\ Release
    /\ UNCHANGED <<lineage, torn, journals, record, receipt, acked, rd>>

-----------------------------------------------------------------------------
(* Crashes: the process dies (or an injected fault raises) between two     *)
(* durable writes, and flock releases its lock.                            *)

Crash ==
    /\ ~Free
    /\ Release
    /\ UNCHANGED <<disk, acked, rd>>

(* A crash strictly inside _append's write leaves half a line. *)
CrashMidAppend ==
    /\ TornAppends
    /\ pc = "AppendLineage"
    /\ torn' = TRUE
    /\ Release
    /\ UNCHANGED <<lineage, journals, record, current, receipt, acked, rd>>

-----------------------------------------------------------------------------
(* The unlocked readers: load_current and read_current_consistent.         *)

Reader == [pc : {"idle", "LoadCheck", "LoadWrite", "BootReconstruct",
                 "BootCheck", "returned", "raised"},
           snap : State \cup {None}]

IdleReader == [pc |-> "idle", snap |-> None]

ReadStep(p, next, s) ==
    /\ rd' = [rd EXCEPT ![p] = [pc |-> next, snap |-> s]]
    /\ UNCHANGED <<disk, pc, job, acked>>

(* load_current: reconstruct, then look at the view. *)
LoadReconstruct(p) ==
    /\ rd[p].pc = "idle"
    /\ Reconstructs
    /\ ReadStep(p, "LoadCheck", Reconstructed)

(* A present view equal to the committed one, or one revision ahead of it, *)
(* yields the committed State; any other view is reported as corruption.   *)
LoadCheck(p) ==
    LET s == rd[p].snap IN
    /\ rd[p].pc = "LoadCheck"
    /\ ReadStep(p, CASE current = None -> "LoadWrite"
                     [] current # None /\ (current = s \/ current.rev = s.rev + 1)
                           -> "returned"
                     [] OTHER -> "raised",
                s)

(* A missing view is materialized, without the lock. *)
LoadWrite(p) ==
    /\ rd[p].pc = "LoadWrite"
    /\ current' = rd[p].snap
    /\ rd' = [rd EXCEPT ![p].pc = "returned"]
    /\ UNCHANGED <<lineage, torn, journals, record, receipt, pc, job, acked>>

(* read_current_consistent: quiescence first, then the lineage, then the   *)
(* view, which may be absent but never contradict the lineage.             *)
BootBegin(p) ==
    /\ rd[p].pc = "idle"
    /\ ~torn
    /\ ReadStep(p, IF HasPending \/ HasUnexplained THEN "raised"
                   ELSE "BootReconstruct", None)

BootReconstruct(p) ==
    /\ rd[p].pc = "BootReconstruct"
    /\ IF Reconstructs THEN ReadStep(p, "BootCheck", Reconstructed)
                       ELSE ReadStep(p, "raised", None)

BootCheck(p) ==
    /\ rd[p].pc = "BootCheck"
    /\ ReadStep(p, IF current \in {None, rd[p].snap} THEN "returned"
                   ELSE "raised", rd[p].snap)

ReadDone(p) ==
    /\ rd[p].pc \in {"returned", "raised"}
    /\ ReadStep(p, "idle", None)

-----------------------------------------------------------------------------
Init ==
    /\ lineage = <<>> /\ torn = FALSE
    /\ files = [t \in Tx |-> {}]
    /\ jevent = [t \in Tx |-> None]
    /\ manifest = [t \in Tx |-> {}]
    /\ staged = [t \in Tx |-> NoRecords]
    /\ record = NoRecords
    /\ current = None /\ receipt = None
    /\ pc = "idle" /\ job = NoJob
    /\ acked = {}
    /\ rd = [p \in Readers |-> IdleReader]

(* Calls: what a caller may ask of a free Store.  A caller only ever holds *)
(* a State some read surface returned, hence a committed one.              *)
CallCommit ==
    \E t \in Tx \ {Genesis}, base \in CommittedStates, f \in Fp, rs \in Records :
        CommitBegin(t, base, f, rs)
CallReplay ==
    \E i \in DOMAIN lineage, rs \in Records : CommitReplay(lineage[i], rs)
CallInitialize == \E f \in Fp, rs \in Records : InitializeBegin(f, rs)

(* What the process inside the lock does next. *)
Advance ==
    \/ WriteEvent
    \/ StageRecords
    \/ StageConflict
    \/ WriteReceipt
    \/ WriteIntent
    \/ AppendLineage
    \/ WriteLineage
    \/ \E r \in Rec : PromoteRecord(r)
    \/ PromoteDiverges
    \/ PromoteDone
    \/ ReplaceCurrent
    \/ MarkCommitted
    \/ \E t \in Tx : RecoverJournal(t)
    \/ \E t \in Tx : RecoverDistrusts(t)
    \/ RecoverFinish

Read ==
    \E p \in Readers :
        \/ LoadReconstruct(p)
        \/ LoadCheck(p)
        \/ LoadWrite(p)
        \/ BootBegin(p)
        \/ BootReconstruct(p)
        \/ BootCheck(p)
        \/ ReadDone(p)

Next ==
    \/ CallCommit
    \/ CallReplay
    \/ CallInitialize
    \/ RecoverBegin
    \/ Advance
    \/ Crash
    \/ CrashMidAppend
    \/ Read

(* The Store under any sequence of calls, crashes and unlocked reads. *)
Spec == Init /\ [][Next]_vars

(* The Store as its operators drive it: after a crash, recover runs before *)
(* the next commit is let in.  The code does not enforce this.             *)
NothingInterrupted ==
    \A t \in Tx : "COMMIT_INTENT" \in files[t] => "COMMITTED" \in files[t]

(* binding/route.py, the one production caller of initialize, always       *)
(* supplies records: a retried genesis is of the kind it was.              *)
InKind == files[Genesis] # {} => Supplied(job'.recs) # {}

OperatedCall ==
    /\ CallCommit \/ CallReplay \/ (CallInitialize /\ InKind)
    /\ NothingInterrupted

OperatedNext ==
    \/ OperatedCall
    \/ RecoverBegin
    \/ Advance
    \/ Crash
    \/ CrashMidAppend
    \/ Read

OperatedSpec == Init /\ [][OperatedNext]_vars

(* The holder of the lock runs on, and the operator does run recover.      *)
FairSpec == OperatedSpec /\ WF_vars(Advance) /\ WF_vars(RecoverBegin)

-----------------------------------------------------------------------------
(* Properties.                                                             *)

JobType ==
    [op : {"commit", "initialize", "recover"}, tx : Tx,
     ev : Event \cup {None}, recs : Records, todo : SUBSET Tx]

JournalFile == {"dir", "event", "manifest", "COMMIT_INTENT", "COMMITTED"}

Step == {"idle", "WriteEvent", "StageRecords", "WriteReceipt", "WriteIntent",
         "AppendLineage", "WriteLineage", "PromoteRecords", "ReplaceCurrent",
         "MarkCommitted", "RecoverNext"}

(* Every variable has its type. *)
TypeOK ==
    /\ lineage \in Seq(Event) /\ torn \in BOOLEAN
    /\ files \in [Tx -> SUBSET JournalFile]
    /\ jevent \in [Tx -> Event \cup {None}]
    /\ manifest \in [Tx -> SUBSET Rec]
    /\ staged \in [Tx -> Records]
    /\ record \in Records
    /\ current \in State \cup {None}
    /\ receipt \in Receipt \cup {None}
    /\ pc \in Step /\ job \in JobType
    /\ acked \in SUBSET Tx
    /\ rd \in [Readers -> Reader]

(* The COMMITTED marker is a promise about the rest of the disk: the event *)
(* is in the lineage and every record the manifest claims is permanent,    *)
(* with the staged bytes, whatever crashes and recoveries came before.     *)
CommittedIsDurable ==
    \A t \in Tx : "COMMITTED" \in files[t] =>
        /\ \E i \in DOMAIN lineage : lineage[i] = jevent[t]
        /\ \A r \in manifest[t] : record[r] # None
        /\ \A r \in Rec : staged[t][r] \in {None, record[r]}

(* A transaction is appended once, however often it is retried, crashed    *)
(* over and recovered.                                                     *)
NoDuplicateEvents ==
    \A i, j \in DOMAIN lineage : lineage[i].tx = lineage[j].tx => i = j

(* What load_current or read_current_consistent hands to its caller is a   *)
(* State the committed lineage passed through, at any interleaving.        *)
LoadedIsCommitted ==
    \A p \in Readers : rd[p].pc = "returned" => rd[p].snap \in CommittedStates

(* The committed lineage every read surface is built on only ever grows at *)
(* its end: no crash, retry or recovery takes back or reorders an event.   *)
CommittedViewMonotone ==
    [][/\ CommittedLen <= CommittedLen'
       /\ \A i \in 1 .. CommittedLen : lineage'[i] = lineage[i]]_vars

(* What resolve_record answered of a record it answers for good: the body  *)
(* it returned never changes, nor turns into a CorruptStoreError because   *)
(* of what a later transaction stages, nor is a refusal ever cured.        *)
ResolvedImmutable ==
    [][\A r \in Rec : Resolved(r) # None => Resolved(r)' = Resolved(r)]_vars

(* _committed_events: "every earlier entry was necessarily committed       *)
(* before the next commit began".                                          *)
OnlyTrailingUncommitted ==
    \A i \in DOMAIN lineage : i < Len(lineage) => Committed(lineage[i].tx)

(* The whole lineage, not only its committed prefix, is one chain: a later *)
(* recover never makes reconstruct raise "non-contiguous transition".      *)
LineageVerifies == ChainHolds(Len(lineage))

(* The lineage never breaks, whatever recover completes and in whatever    *)
(* order: no event twice, none behind an uncommitted one, one chain.       *)
LineageSound == NoDuplicateEvents /\ OnlyTrailingUncommitted /\ LineageVerifies

(* What a caller was told is committed is in the committed lineage, after  *)
(* every later crash and recovery.                                         *)
AckedStaysCommitted ==
    \A t \in acked : Committed(t) /\ \E i \in 1 .. CommittedLen : lineage[i].tx = t

(* Once a project exists its State can always be reconstructed (C-005:     *)
(* the previous canonical State is retained).                              *)
StoreReadable == Genesis \in acked => Reconstructs

(* An interrupted transaction whose COMMIT_INTENT is durable is committed  *)
(* once the crashes stop (a call may still end by raising).                *)
IntentCompletes ==
    <>[][Crash \/ CrashMidAppend => Advance]_vars =>
        \A t \in Tx : "COMMIT_INTENT" \in files[t] ~> Committed(t)

(* The disk with its journals, locks and crashes implements the register:  *)
(* a commit and the answers to its records' reads become visible in one    *)
(* step, MarkCommitted.                                                    *)
Register ==
    INSTANCE StateRegister WITH
        history <- [i \in 1 .. CommittedLen |->
                      [tx |-> lineage[i].tx, to |-> lineage[i].to,
                       before |-> lineage[i].before, fp |-> lineage[i].fp]],
        visible <- [r \in Rec |-> Resolved(r)]

ImplementsRegister == Register!RegSpec
=============================================================================
