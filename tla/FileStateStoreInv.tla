------------------------- MODULE FileStateStoreInv -------------------------
(* Inductive invariants of FileStateStore: what the safety properties need *)
(* to be preserved by every step.  DurableInv holds of the Store under any *)
(* calls and crashes, OperatedInv of the Store whose operators recover it  *)
(* before the next commit.                                                 *)
EXTENDS FileStateStore

(* Steps that handle one event, before and after it is in the lineage. *)
Unappended == {"WriteEvent", "StageRecords", "WriteReceipt", "WriteIntent",
               "AppendLineage", "WriteLineage"}
Appended == {"PromoteRecords", "ReplaceCurrent", "MarkCommitted"}

(* Steps taken once the journal holds COMMIT_INTENT. *)
Intended == {"AppendLineage"} \cup Appended

JournalsOK ==
    \A t \in Tx :
        /\ "event" \in files[t] => jevent[t] \in Event /\ jevent[t].tx = t
        /\ "COMMIT_INTENT" \in files[t] => "event" \in files[t]
        /\ "COMMITTED" \in files[t] => "COMMIT_INTENT" \in files[t]
        /\ \A r \in manifest[t] : staged[t][r] # None \/ record[r] # None
        /\ \A i \in DOMAIN lineage :
              "event" \in files[t] /\ t # Genesis /\ lineage[i].tx = t =>
                  lineage[i] = jevent[t]

(* The lock holder and the disk agree on how far its transaction is. *)
JobOK ==
    /\ pc \in Unappended \cup Appended => job.ev \in Event /\ job.ev.tx = job.tx
    /\ pc \in Unappended => job.tx \notin TxsOf(lineage)
    /\ pc \in Appended => \E i \in DOMAIN lineage : lineage[i] = job.ev
    /\ pc \in {"StageRecords", "WriteIntent"} \cup Intended /\ ~EndsAtView =>
          "event" \in files[job.tx] /\ jevent[job.tx] = job.ev
    /\ pc \in Intended /\ ~EndsAtView => "COMMIT_INTENT" \in files[job.tx]
    /\ pc \in {"ReplaceCurrent", "MarkCommitted"} /\ ~EndsAtView =>
          AllPromoted(job.tx)

(* Which call each step belongs to. *)
CallOK ==
    /\ job.op = "initialize" => job.tx = Genesis
    /\ pc \in {"WriteReceipt", "WriteLineage"} => job.op = "initialize"
    /\ pc = "WriteLineage" => EndsAtView
    /\ pc \in {"WriteEvent", "StageRecords", "WriteIntent", "AppendLineage",
               "PromoteRecords", "MarkCommitted"} => ~EndsAtView
    /\ pc = "WriteReceipt" /\ ~EndsAtView =>
          "event" \in files[job.tx] /\ jevent[job.tx] = job.ev
    /\ pc \in Unappended /\ job.op = "initialize" => lineage = <<>>
    /\ job.op = "recover" =>
          pc \in {"idle", "RecoverNext", "AppendLineage", "PromoteRecords",
                  "MarkCommitted"}
    /\ pc = "RecoverNext" => job.op = "recover"
    /\ \A t \in job.todo : "COMMIT_INTENT" \in files[t]

DurableInv ==
    TypeOK /\ JournalsOK /\ JobOK /\ CallOK /\ CommittedIsDurable
        /\ NoDuplicateEvents

(* A journal without a manifest has staged nothing: a transaction that     *)
(* comes later claims a permanent record without a body of its own.        *)
FreshOK ==
    /\ \A t \in Tx : "manifest" \notin files[t] => staged[t] = NoRecords
    /\ pc \in {"WriteEvent", "StageRecords"} /\ job.op # "initialize" =>
          "manifest" \notin files[job.tx]

-----------------------------------------------------------------------------
(* Of the Store whose operators recover it.                                *)

(* Transactions a crash left between COMMIT_INTENT and COMMITTED.          *)
Interrupted == {t \in Tx : "COMMIT_INTENT" \in files[t] /\ "COMMITTED" \notin files[t]}

LastEvent == lineage[Len(lineage)]

(* Event e may be the lineage's next. *)
Extending(e) ==
    IF e.tx = Genesis THEN lineage = <<>>
                      ELSE lineage # <<>> /\ Contiguous(e, StateOf(LastEvent))

(* There is one at most, its event is the last or may still be appended,   *)
(* and every other event is committed.                                     *)
InterruptedOK ==
    /\ \A t, u \in Interrupted : t = u
    /\ \A t \in Interrupted : t \notin TxsOf(lineage) => Extending(jevent[t])
    /\ \A i \in DOMAIN lineage :
          \/ Committed(lineage[i].tx)
          \/ i = Len(lineage) /\ lineage[i].tx \in Interrupted

(* commit and initialize run on a Store with nothing interrupted but by    *)
(* themselves.                                                             *)
AloneOK ==
    /\ job.op # "recover" => Interrupted \subseteq {job.tx}
    /\ pc \in Unappended \ {"AppendLineage"} => Interrupted = {}
    /\ job.op = "commit" => job.tx # Genesis
    /\ pc \in Unappended => Extending(job.ev)

(* What binds the genesis under way to its receipt. *)
BindingOK ==
    /\ job.op = "initialize" => job.ev.ref = ReceiptOf(job.recs)
    /\ EndsAtView => files[Genesis] = {}
    /\ \/ pc = "WriteReceipt" /\ ~EndsAtView
       \/ pc = "WriteIntent" /\ job.op = "initialize"
       => "manifest" \in files[Genesis] /\ manifest[Genesis] = Supplied(job.recs)
    /\ \/ pc = "WriteIntent" /\ job.op = "initialize"
       \/ pc \in {"WriteLineage", "ReplaceCurrent"} /\ EndsAtView
       => receipt = job.ev.ref

(* What binds the genesis there is to its receipt. *)
GenesisOK ==
    /\ "COMMIT_INTENT" \in files[Genesis] => GenesisJournalAgrees
    /\ Genesis \in TxsOf(lineage) /\ files[Genesis] = {} =>
          receipt # None /\ receipt.mode = "BARE"

AckedOK == \A t \in acked : Committed(t) /\ t \in TxsOf(lineage)

OperatedInv ==
    /\ DurableInv
    /\ InterruptedOK /\ AloneOK /\ BindingOK /\ GenesisOK /\ AckedOK /\ LineageVerifies
    /\ torn => TornAppends
=============================================================================
