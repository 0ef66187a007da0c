------------------------- MODULE CoordinationLedger -------------------------
(***************************************************************************)
(* store/file_store.py: the coordination ledger, the Store's second lane.  *)
(*                                                                         *)
(* coordination/ledger.jsonl is the authority; the files under             *)
(* coordination/records/ are a cache that each call heals.  Every call     *)
(* holds the project lock from its first read to its last write, so one    *)
(* writer context (pc, job) stands for whichever process holds it.  A line *)
(* is written in two halves, then fsynced; Crash, the death of a process,  *)
(* may fall between any two steps and keeps what was written, PowerFail    *)
(* keeps only what was fsynced for certain.  What a caller expects its     *)
(* chain's tip to be was read outside the lock and may be anything.        *)
(* Tampering with the files is not modelled, nor is the loss of a          *)
(* directory that no one fsynced.                                          *)
(***************************************************************************)
EXTENDS ChainLog

CONSTANTS
    Malformed,  \* a complete line that does not parse
    PowerLoss   \* may the machine, not only a process, stop?

ASSUME PowerAssumption == PowerLoss \in BOOLEAN
ASSUME MalformedAssumption == Malformed \notin Entry

VARIABLES
    ledger,     \* ledger.jsonl: its complete lines
    fragments,  \* how many half-written lines follow them, unseparated
    durable,    \* how many complete lines an fsync has covered
    cache,      \* the materialized files, records/<kind>/<id>.json
    pc,         \* the lock holder's next step; "idle" when the lock is free
    job,        \* the call the lock holder runs and the entry it handles
    told        \* history: the entries some caller was handed

vars == <<ledger, fragments, durable, cache, pc, job, told>>

NoJob == [op |-> "recover", entry |-> None]

Free == pc = "idle"

(* The call returns or raises: the lock is released. *)
Release == pc' = "idle" /\ job' = NoJob

Goto(next) == pc' = next /\ UNCHANGED job

-----------------------------------------------------------------------------
(* commit_coordination_record_at_tip.                                      *)

\* Seeded fault: a torn tail is left where it is.
HealNothing == UNCHANGED <<fragments, durable>>
(* _heal_coordination_ledger_tail: truncate a torn tail and fsync; a clean *)
(* ledger is left alone, and not fsynced.                                  *)
Heal ==
    /\ fragments' = 0
    /\ durable' = IF fragments = 0 THEN durable ELSE Len(ledger)

Unpublished(e) == Match(ledger, e.key) = {}

\* Seeded fault: the tip the caller resolved outside the lock is trusted.
AtAnyTip(e) == TRUE
AtTip(e) == TipIs(ledger, Len(ledger), e.chain, e.after)

\* Seeded fault: the record file is written before the ledger line.
FirstStepCache == "Materialize"
FirstStep == "AppendHalf"

CommitBegin(e) ==
    /\ Free
    /\ Heal
    /\ Unpublished(e) /\ AtTip(e)
    /\ job' = [op |-> "commit", entry |-> e] /\ pc' = FirstStep
    /\ UNCHANGED <<ledger, cache, told>>

(* The identity is published with the same body, whatever tip the caller   *)
(* expected: the published entry is materialized and returned.             *)
CommitReplay(e) ==
    /\ Free
    /\ Heal
    /\ \E i \in Match(ledger, e.key) :
          /\ Match(ledger, e.key) = {i}
          /\ ledger[i].body = e.body
          /\ job' = [op |-> "commit", entry |-> ledger[i]]
    /\ pc' = "Materialize"
    /\ UNCHANGED <<ledger, cache, told>>

(* RecordConflictError, CoordinationTipConflictError or, for an identity   *)
(* published twice, CorruptStoreError: the tail is healed all the same.    *)
CommitRefused(e) ==
    /\ Free
    /\ Heal
    /\ \/ Unpublished(e) /\ ~AtTip(e)
       \/ \E i, j \in Match(ledger, e.key) : i # j \/ ledger[i].body # e.body
    /\ UNCHANGED <<ledger, cache, pc, job, told>>

(* _commit_coordination_ledger_line, in two writes. *)
AppendHalf ==
    /\ pc = "AppendHalf"
    /\ fragments' = fragments + 1
    /\ Goto("AppendRest")
    /\ UNCHANGED <<ledger, durable, cache, told>>

(* The newline ends whatever stands on the last line. *)
AppendRest ==
    /\ pc = "AppendRest"
    /\ ledger' = Append(ledger, IF fragments = 1 THEN job.entry ELSE Malformed)
    /\ fragments' = 0
    /\ Goto("Sync")
    /\ UNCHANGED <<durable, cache, told>>

(* fsync of the file, then of its directory. *)
Sync ==
    /\ pc = "Sync"
    /\ durable' = Len(ledger)
    /\ Goto("Materialize")
    /\ UNCHANGED <<ledger, fragments, cache, told>>

-----------------------------------------------------------------------------
(* _materialize_coordination_record and the return of its caller.          *)

(* A missing file is written, and fsynced, by atomic replacement; a file   *)
(* that holds the entry's bytes is left as it is.                          *)
Materialize ==
    /\ pc = "Materialize"
    /\ cache[job.entry.key] \in {None, job.entry.body}
    /\ cache' = [cache EXCEPT ![job.entry.key] = job.entry.body]
    /\ Goto("Return")
    /\ UNCHANGED <<ledger, fragments, durable, told>>

(* CorruptStoreError: the file diverges from its own ledger entry. *)
MaterializeDiverges ==
    /\ pc = "Materialize"
    /\ cache[job.entry.key] \notin {None, job.entry.body}
    /\ Release
    /\ UNCHANGED <<ledger, fragments, durable, cache, told>>

Return ==
    /\ pc = "Return"
    /\ IF job.op = "recover"
       THEN Goto("RecoverNext") /\ UNCHANGED told
       ELSE Release /\ told' = told \cup {job.entry}
    /\ UNCHANGED <<ledger, fragments, durable, cache>>

-----------------------------------------------------------------------------
(* resolve_coordination_record: a torn tail is not read, and not healed.   *)
(* An identity without a line resolves to None or, if a file is there all  *)
(* the same, to CorruptStoreError; neither changes anything.               *)
Resolve(k) ==
    /\ Free
    /\ \E i \in Match(ledger, k) :
          /\ Match(ledger, k) = {i}
          /\ job' = [op |-> "resolve", entry |-> ledger[i]]
    /\ pc' = "Materialize"
    /\ UNCHANGED <<ledger, fragments, durable, cache, told>>

(* recover_coordination_ledger: the tail, then every missing file in the   *)
(* ledger's order.                                                         *)
RecoverBegin ==
    /\ Free
    /\ Heal
    /\ IF \A i, j \in DOMAIN ledger : ledger[i].key = ledger[j].key => i = j
       THEN pc' = "RecoverNext" /\ job' = NoJob
       ELSE UNCHANGED <<pc, job>>
    /\ UNCHANGED <<ledger, cache, told>>

Unmaterialized == {i \in DOMAIN ledger : cache[ledger[i].key] = None}

RecoverNext ==
    /\ pc = "RecoverNext"
    /\ \E i \in Unmaterialized :
          /\ \A j \in Unmaterialized : i <= j
          /\ job' = [op |-> "recover", entry |-> ledger[i]]
    /\ pc' = "Materialize"
    /\ UNCHANGED <<ledger, fragments, durable, cache, told>>

RecoverEnd ==
    /\ pc = "RecoverNext"
    /\ Unmaterialized = {}
    /\ Release
    /\ UNCHANGED <<ledger, fragments, durable, cache, told>>

-----------------------------------------------------------------------------
(* The process dies; a half-written line stays. *)
Crash ==
    /\ ~Free
    /\ Release
    /\ UNCHANGED <<ledger, fragments, durable, cache, told>>

(* The machine stops: any part of what no fsync covered may be gone. *)
PowerFail ==
    /\ PowerLoss
    /\ \E n \in durable .. Len(ledger) :
          /\ ledger' = SubSeq(ledger, 1, n)
          /\ fragments' \in IF n < Len(ledger) \/ fragments > 0 THEN {0, 1} ELSE {0}
    /\ Release
    /\ UNCHANGED <<durable, cache, told>>

-----------------------------------------------------------------------------
Init ==
    /\ ledger = <<>> /\ fragments = 0 /\ durable = 0
    /\ cache = [k \in Key |-> None]
    /\ pc = "idle" /\ job = NoJob
    /\ told = {}

Call ==
    \/ \E e \in Entry : CommitBegin(e) \/ CommitReplay(e) \/ CommitRefused(e)
    \/ \E k \in Key : Resolve(k)
    \/ RecoverBegin

Advance ==
    \/ AppendHalf
    \/ AppendRest
    \/ Sync
    \/ Materialize
    \/ MaterializeDiverges
    \/ Return
    \/ RecoverNext
    \/ RecoverEnd

Next == Call \/ Advance \/ Crash \/ PowerFail

Spec == Init /\ [][Next]_vars

-----------------------------------------------------------------------------
(* Properties.                                                             *)

Step == {"idle", "AppendHalf", "AppendRest", "Sync", "Materialize", "Return",
         "RecoverNext"}

JobType == [op : {"commit", "resolve", "recover"}, entry : Entry \cup {None}]

(* Every variable has its type; in particular every complete line parses,  *)
(* a torn one never having been appended to.                               *)
TypeOK ==
    /\ ledger \in Seq(Entry)
    /\ fragments \in {0, 1} /\ durable \in 0 .. Len(ledger)
    /\ cache \in [Key -> Body \cup {None}]
    /\ pc \in Step /\ job \in JobType
    /\ told \in SUBSET Entry

(* P84-R4-F2: "at most one publication fact per immutable record           *)
(* identity", after any crashes and replays.                               *)
NoDuplicateKeys ==
    \A i, j \in DOMAIN ledger : ledger[i].key = ledger[j].key => i = j

(* P84-R3-F1: every record stands directly behind the one its writer took  *)
(* for the tip of its chain; no two writers extend one tip, and no failure *)
(* takes a record out of the middle of a chain.                            *)
ChainLinear ==
    \A n \in DOMAIN ledger :
        TipIs(ledger, n - 1, ledger[n].chain, ledger[n].after)

(* "an orphan correct commit logic also never produces": a materialized    *)
(* file has a ledger line, and holds its body.                             *)
CacheBacked ==
    \A k \in Key : cache[k] # None =>
        \E i \in Match(ledger, k) : ledger[i].body = cache[k]

(* The ledger with its torn tails, crashes and healed caches implements    *)
(* the register: AppendRest publishes, Return answers.                     *)
Register == INSTANCE ChainRegister WITH published <- ledger, answered <- told

ImplementsChainRegister == Register!RegSpec
=============================================================================
