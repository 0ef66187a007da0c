--------------------- MODULE CoordinationLedger_proofs ----------------------
(***************************************************************************)
(* The coordination ledger, for every set of identities, chains and        *)
(* bodies.  LedgerInv is inductive under crashes and power failures alike; *)
(* without power failures the ledger implements ChainRegister, and no      *)
(* cached file is without its ledger line.                                 *)
(***************************************************************************)
EXTENDS CoordinationLedger, SequenceTheorems, TLAPS

Published(e) == \E i \in DOMAIN ledger : ledger[i] = e

(* What the lock holder found out when it took the lock still holds. *)
JobOK ==
    /\ pc \in {"AppendHalf", "AppendRest"} =>
          job.entry \in Entry /\ Unpublished(job.entry) /\ AtTip(job.entry)
    /\ pc = "AppendHalf" => fragments = 0
    /\ pc = "AppendRest" => fragments = 1
    /\ pc \in {"Sync", "Materialize", "Return"} => Published(job.entry)

LedgerInv == TypeOK /\ NoDuplicateKeys /\ ChainLinear /\ JobOK

(* Appending an unpublished entry at the tip keeps the shape of the log. *)
LEMMA AppendKeeps ==
  ASSUME ledger \in Seq(Entry), NoDuplicateKeys, ChainLinear,
         NEW e \in Entry, Unpublished(e), AtTip(e),
         ledger' = Append(ledger, e)
  PROVE  /\ ledger' \in Seq(Entry) /\ Len(ledger') = Len(ledger) + 1
         /\ NoDuplicateKeys' /\ ChainLinear' /\ Published(e)'
         /\ \A i \in DOMAIN ledger : i \in DOMAIN ledger' /\ ledger'[i] = ledger[i]
<1> DEFINE m == Len(ledger)
<1>1. /\ ledger' \in Seq(Entry) /\ m \in Nat /\ Len(ledger') = m + 1
      /\ DOMAIN ledger = 1 .. m /\ DOMAIN ledger' = 1 .. m + 1
      /\ ledger'[m + 1] = e
      /\ \A i \in 1 .. m : ledger'[i] = ledger[i]
  BY AppendProperties
<1>2. NoDuplicateKeys'
  BY <1>1 DEF NoDuplicateKeys, Unpublished, Match
<1>3. \A n \in 0 .. m : \A c, k :
         TipIs(ledger', n, c, k) <=> TipIs(ledger, n, c, k)
  <2> TAKE n \in 0 .. m
  <2> TAKE c, k
  <2>1. \A i \in 1 .. n : ledger'[i] = ledger[i]
    BY <1>1
  <2>2. {i \in 1 .. n : ledger'[i].chain = c} = {i \in 1 .. n : ledger[i].chain = c}
    BY <2>1
  <2> QED
    BY <2>1, <2>2 DEF TipIs
<1>4. ChainLinear'
  <2> SUFFICES ASSUME NEW n \in 1 .. m + 1
               PROVE  TipIs(ledger', n - 1, ledger'[n].chain, ledger'[n].after)
    BY <1>1 DEF ChainLinear
  <2>1. CASE n = m + 1
    BY <2>1, <1>1, <1>3 DEF AtTip
  <2>2. CASE n \in 1 .. m
    BY <2>2, <1>1, <1>3 DEF ChainLinear
  <2> QED
    BY <1>1, <2>1, <2>2
<1> QED
  BY <1>1, <1>2, <1>4 DEF Published

(* A prefix of a well-formed log is well-formed. *)
LEMMA PrefixKeeps ==
  ASSUME ledger \in Seq(Entry), NoDuplicateKeys, ChainLinear,
         NEW n \in 0 .. Len(ledger), ledger' = SubSeq(ledger, 1, n)
  PROVE  ledger' \in Seq(Entry) /\ Len(ledger') = n /\ NoDuplicateKeys' /\ ChainLinear'
<1>1. /\ ledger' \in Seq(Entry) /\ Len(ledger) \in Nat /\ Len(ledger') = n
      /\ DOMAIN ledger = 1 .. Len(ledger) /\ DOMAIN ledger' = 1 .. n
      /\ \A i \in 1 .. n : ledger'[i] = ledger[i]
  BY SubSeqProperties
<1>2. NoDuplicateKeys'
  BY <1>1 DEF NoDuplicateKeys
<1>3. ASSUME NEW k \in 1 .. n
      PROVE  TipIs(ledger', k - 1, ledger'[k].chain, ledger'[k].after)
  <2>1. TipIs(ledger, k - 1, ledger[k].chain, ledger[k].after)
    BY <1>1 DEF ChainLinear
  <2>2. \A i \in 1 .. k - 1 : ledger'[i] = ledger[i]
    BY <1>1
  <2>3. {i \in 1 .. k - 1 : ledger'[i].chain = ledger[k].chain}
          = {i \in 1 .. k - 1 : ledger[i].chain = ledger[k].chain}
    BY <2>2
  <2>4. ledger'[k] = ledger[k]
    BY <1>1
  <2> QED
    BY <2>1, <2>2, <2>3, <2>4 DEF TipIs
<1> QED
  BY <1>1, <1>2, <1>3 DEF ChainLinear

(* A step that leaves the lines alone leaves their shape alone. *)
LEMMA SameLines ==
  ASSUME LedgerInv, UNCHANGED ledger
  PROVE  /\ ledger' \in Seq(Entry)
         /\ \A e : Unpublished(e)' <=> Unpublished(e)
         /\ \A e : AtTip(e)' <=> AtTip(e)
         /\ \A e : Published(e)' <=> Published(e)
         /\ TypeOK' /\ JobOK' => LedgerInv'
BY DEF LedgerInv, TypeOK, NoDuplicateKeys, ChainLinear, Unpublished, AtTip, Published

(* Heal truncates to complete lines and fsyncs them, or does nothing. *)
LEMMA HealType ==
  ASSUME TypeOK, Heal
  PROVE  fragments' = 0 /\ durable' \in 0 .. Len(ledger)
<1>1. Len(ledger) \in Nat
  BY DEF TypeOK
<1> QED
  BY <1>1 DEF TypeOK, Heal

(* The calls take the lock, heal the tail or not, and look at the ledger. *)
LEMMA CallKeeps == ASSUME LedgerInv, Call PROVE LedgerInv'
<1> USE DEF Free
<1>1. CASE \E e \in Entry : CommitBegin(e)
  <2>1. PICK e \in Entry : CommitBegin(e)
    BY <1>1
  <2>2. fragments' = 0 /\ durable' \in 0 .. Len(ledger)
    BY <2>1, HealType DEF CommitBegin, LedgerInv
  <2>3. UNCHANGED ledger /\ job'.entry = e /\ pc' = "AppendHalf"
    BY <2>1 DEF CommitBegin, FirstStep
  <2>4. TypeOK'
    BY <2>1, <2>2, <2>3 DEF CommitBegin, LedgerInv, TypeOK, Step, JobType, FirstStep
  <2>5. JobOK'
    BY <2>1, <2>2, <2>3, SameLines DEF CommitBegin, JobOK
  <2> QED
    BY <2>3, <2>4, <2>5, SameLines
<1>2. CASE \E e \in Entry : CommitReplay(e)
  <2>1. PICK e \in Entry : CommitReplay(e)
    BY <1>2
  <2>2. fragments' = 0 /\ durable' \in 0 .. Len(ledger)
    BY <2>1, HealType DEF CommitReplay, LedgerInv
  <2>3. PICK i \in DOMAIN ledger : job' = [op |-> "commit", entry |-> ledger[i]]
    BY <2>1 DEF CommitReplay, Match
  <2>4. UNCHANGED ledger /\ pc' = "Materialize"
    BY <2>1 DEF CommitReplay
  <2>5. TypeOK'
    BY <2>1, <2>2, <2>3, <2>4 DEF CommitReplay, LedgerInv, TypeOK, Step, JobType
  <2>6. JobOK'
    BY <2>3, <2>4 DEF JobOK, Published
  <2> QED
    BY <2>4, <2>5, <2>6, SameLines
<1>3. CASE \E e \in Entry : CommitRefused(e)
  <2>1. PICK e \in Entry : CommitRefused(e)
    BY <1>3
  <2>2. fragments' = 0 /\ durable' \in 0 .. Len(ledger)
    BY <2>1, HealType DEF CommitRefused, LedgerInv
  <2>3. TypeOK'
    BY <2>1, <2>2 DEF CommitRefused, LedgerInv, TypeOK
  <2>4. JobOK'
    BY <2>1 DEF CommitRefused, JobOK
  <2> QED
    BY <2>1, <2>3, <2>4, SameLines DEF CommitRefused
<1>4. CASE \E k \in Key : Resolve(k)
  <2>1. PICK k \in Key : Resolve(k)
    BY <1>4
  <2>2. PICK i \in DOMAIN ledger : job' = [op |-> "resolve", entry |-> ledger[i]]
    BY <2>1 DEF Resolve, Match
  <2>3. UNCHANGED <<ledger, fragments, durable, cache, told>> /\ pc' = "Materialize"
    BY <2>1 DEF Resolve
  <2>4. TypeOK'
    BY <2>2, <2>3 DEF LedgerInv, TypeOK, Step, JobType
  <2>5. JobOK'
    BY <2>2, <2>3 DEF JobOK, Published
  <2> QED
    BY <2>3, <2>4, <2>5, SameLines
<1>5. CASE RecoverBegin
  <2>1. fragments' = 0 /\ durable' \in 0 .. Len(ledger)
    BY <1>5, HealType DEF RecoverBegin, LedgerInv
  <2>2. UNCHANGED <<ledger, cache, told>> /\ pc' \in {"idle", "RecoverNext"}
    BY <1>5 DEF RecoverBegin
  <2>3. job' \in JobType
    BY <1>5 DEF RecoverBegin, NoJob, JobType, LedgerInv, TypeOK
  <2>4. TypeOK'
    BY <2>1, <2>2, <2>3 DEF LedgerInv, TypeOK, Step
  <2>5. JobOK'
    BY <2>2 DEF JobOK
  <2> QED
    BY <2>2, <2>4, <2>5, SameLines
<1> QED
  BY <1>1, <1>2, <1>3, <1>4, <1>5 DEF Call

(* The append, whose two halves no other call can come between. *)
LEMMA AppendRestKeeps ==
  ASSUME LedgerInv, AppendRest
  PROVE  LedgerInv'
<1>1. /\ job.entry \in Entry /\ Unpublished(job.entry) /\ AtTip(job.entry)
      /\ ledger' = Append(ledger, job.entry)
  BY DEF AppendRest, LedgerInv, JobOK
<1>2. /\ ledger' \in Seq(Entry) /\ Len(ledger') = Len(ledger) + 1
      /\ NoDuplicateKeys' /\ ChainLinear' /\ Published(job.entry)'
  <2>1. ledger \in Seq(Entry) /\ NoDuplicateKeys /\ ChainLinear
    BY DEF LedgerInv, TypeOK
  <2>2. PICK e \in Entry : e = job.entry
    BY <1>1
  <2>3. Unpublished(e) /\ AtTip(e) /\ ledger' = Append(ledger, e)
    BY <1>1, <2>2
  <2>4. /\ ledger' \in Seq(Entry) /\ Len(ledger') = Len(ledger) + 1
        /\ NoDuplicateKeys' /\ ChainLinear' /\ \E i \in DOMAIN ledger' : ledger'[i] = e
    BY <2>1, <2>3, AppendKeeps DEF Published
  <2>5. job' = job
    BY DEF AppendRest, Goto
  <2> QED
    BY <2>2, <2>4, <2>5 DEF Published
<1>3. Len(ledger) \in Nat
  BY DEF LedgerInv, TypeOK
<1>4. TypeOK'
  BY <1>2, <1>3 DEF AppendRest, Goto, LedgerInv, TypeOK, Step
<1>5. JobOK'
  BY <1>2 DEF AppendRest, Goto, JobOK, Published
<1> QED
  BY <1>2, <1>4, <1>5 DEF LedgerInv

(* Every other step under the lock leaves the lines alone. *)
LEMMA AdvanceKeeps ==
  ASSUME LedgerInv, Advance, ~AppendRest
  PROVE  LedgerInv'
<1>1. UNCHANGED ledger
  BY DEF Advance, AppendHalf, AppendRest, Sync, Materialize, MaterializeDiverges,
         Return, RecoverNext, RecoverEnd
<1>2. TypeOK' /\ JobOK'
  <2>1. CASE AppendHalf
    BY <2>1, SameLines DEF AppendHalf, Goto, LedgerInv, TypeOK, JobOK, Step
  <2>2. CASE Sync
    <3>1. Len(ledger) \in 0 .. Len(ledger)
      BY DEF LedgerInv, TypeOK
    <3> QED
      BY <2>2, <3>1, SameLines DEF Sync, Goto, LedgerInv, TypeOK, JobOK, Step
  <2>3. CASE Materialize
    <3>1. job.entry \in Entry
      BY <2>3 DEF Materialize, LedgerInv, TypeOK, JobOK, Published
    <3>2. cache' \in [Key -> Body \cup {None}]
      BY <2>3, <3>1 DEF Materialize, LedgerInv, TypeOK, Entry
    <3> QED
      BY <2>3, <3>2, SameLines DEF Materialize, Goto, LedgerInv, TypeOK, JobOK, Step
  <2>4. CASE MaterializeDiverges \/ RecoverEnd
    BY <2>4 DEF MaterializeDiverges, RecoverEnd, Release, NoJob, LedgerInv, TypeOK,
                JobOK, JobType, Step
  <2>5. CASE Return
    <3>1. job.entry \in Entry
      BY <2>5 DEF Return, LedgerInv, TypeOK, JobOK, Published
    <3>2. pc' \in {"idle", "RecoverNext"} /\ job' \in JobType /\ told' \in SUBSET Entry
      BY <2>5, <3>1 DEF Return, Goto, Release, NoJob, JobType, LedgerInv, TypeOK
    <3> QED
      BY <2>5, <3>2 DEF Return, LedgerInv, TypeOK, JobOK, Step
  <2>6. CASE RecoverNext
    <3>1. PICK i \in DOMAIN ledger : job' = [op |-> "recover", entry |-> ledger[i]]
      BY <2>6 DEF RecoverNext, Unmaterialized
    <3> QED
      BY <2>6, <3>1, <1>1 DEF RecoverNext, LedgerInv, TypeOK, JobOK, JobType, Step, Published
  <2> QED
    BY <2>1, <2>2, <2>3, <2>4, <2>5, <2>6 DEF Advance
<1> QED
  BY <1>1, <1>2, SameLines

(* A stopped machine leaves a prefix of the lines, fsynced ones included. *)
LEMMA PowerFailKeeps == ASSUME LedgerInv, PowerFail PROVE LedgerInv'
<1>1. PICK n \in durable .. Len(ledger) :
         /\ ledger' = SubSeq(ledger, 1, n)
         /\ fragments' \in IF n < Len(ledger) \/ fragments > 0 THEN {0, 1} ELSE {0}
  BY DEF PowerFail
<1>2. Len(ledger) \in Nat /\ durable \in 0 .. n /\ n \in 0 .. Len(ledger)
  BY <1>1 DEF LedgerInv, TypeOK
<1>3. ledger' \in Seq(Entry) /\ Len(ledger') = n /\ NoDuplicateKeys' /\ ChainLinear'
  BY <1>1, <1>2, PrefixKeeps DEF LedgerInv, TypeOK
<1>4. TypeOK'
  BY <1>1, <1>2, <1>3 DEF PowerFail, Release, NoJob, LedgerInv, TypeOK, JobType, Step
<1>5. JobOK'
  BY DEF PowerFail, Release, JobOK
<1> QED
  BY <1>3, <1>4, <1>5 DEF LedgerInv

(* The empty ledger satisfies the invariant. *)
LEMMA LedgerInit == Init => LedgerInv
<1> SUFFICES ASSUME Init PROVE LedgerInv
  OBVIOUS
<1>1. ledger = <<>> /\ ledger \in Seq(Entry) /\ Len(ledger) = 0 /\ DOMAIN ledger = {}
  BY DEF Init
<1>2. TypeOK
  BY <1>1 DEF Init, TypeOK, NoJob, JobType, Step
<1>3. NoDuplicateKeys /\ ChainLinear
  BY <1>1 DEF NoDuplicateKeys, ChainLinear
<1> QED
  BY <1>2, <1>3 DEF LedgerInv, JobOK, Init

(* Every step, a crash included, preserves the invariant. *)
LEMMA LedgerNext == LedgerInv /\ [Next]_vars => LedgerInv'
<1> SUFFICES ASSUME LedgerInv, [Next]_vars PROVE LedgerInv'
  OBVIOUS
<1>1. CASE Crash \/ UNCHANGED vars
  <2>1. UNCHANGED ledger
    BY <1>1 DEF Crash, vars
  <2>2. TypeOK' /\ JobOK'
    BY <1>1, <2>1, SameLines
       DEF Crash, vars, Release, NoJob, LedgerInv, TypeOK, JobOK, JobType, Step
  <2> QED
    BY <2>1, <2>2, SameLines
<1> QED
  BY <1>1, CallKeeps, AppendRestKeeps, AdvanceKeeps, PowerFailKeeps DEF Next

(* Under any calls, crashes and power failures: no identity is published   *)
(* twice, every chain is linear, and no line is malformed.                 *)
THEOREM LedgerSafe == Spec => [](TypeOK /\ NoDuplicateKeys /\ ChainLinear)
<1>1. Spec => []LedgerInv
  BY LedgerInit, LedgerNext, PTL DEF Spec
<1>2. LedgerInv => TypeOK /\ NoDuplicateKeys /\ ChainLinear
  BY DEF LedgerInv
<1> QED
  BY <1>1, <1>2, PTL

(* Every variable of the ledger has its type, torn lines and power         *)
(* failures included.                                                      *)
THEOREM LedgerTyped == Spec => []TypeOK
<1>1. LedgerInv => TypeOK
  BY DEF LedgerInv
<1> QED
  BY <1>1, LedgerInit, LedgerNext, PTL DEF Spec

(* Without power failures nothing is taken out of the ledger again: every  *)
(* materialized file is backed by its line.                                *)
LEMMA BackedNext ==
  ASSUME ~PowerLoss
  PROVE  LedgerInv /\ CacheBacked /\ [Next]_vars => CacheBacked'
<1> SUFFICES ASSUME LedgerInv, CacheBacked, [Next]_vars PROVE CacheBacked'
  OBVIOUS
<1>1. CASE Materialize
  <2>1. PICK i \in DOMAIN ledger : ledger[i] = job.entry
    BY <1>1 DEF Materialize, LedgerInv, JobOK, Published
  <2>2. cache \in [Key -> Body \cup {None}]
    BY DEF LedgerInv, TypeOK
  <2>3. ASSUME NEW k \in Key, cache'[k] # None
        PROVE  \E j \in Match(ledger, k) : ledger[j].body = cache'[k]
    BY <1>1, <2>1, <2>2, <2>3 DEF Materialize, CacheBacked, Match
  <2> QED
    BY <1>1, <2>3 DEF Materialize, CacheBacked
<1>2. CASE AppendRest
  <2>1. /\ job.entry \in Entry /\ Unpublished(job.entry) /\ AtTip(job.entry)
        /\ ledger' = Append(ledger, job.entry) /\ UNCHANGED cache
    BY <1>2 DEF AppendRest, LedgerInv, JobOK
  <2>2. ledger \in Seq(Entry) /\ NoDuplicateKeys /\ ChainLinear
    BY DEF LedgerInv, TypeOK
  <2>3. \A i \in DOMAIN ledger : i \in DOMAIN ledger' /\ ledger'[i] = ledger[i]
    BY <2>1, <2>2, AppendKeeps
  <2> QED
    BY <2>1, <2>3 DEF CacheBacked, Match
<1>3. CASE UNCHANGED <<ledger, cache>>
  BY <1>3 DEF CacheBacked, Match
<1>4. Next \/ UNCHANGED vars => Materialize \/ AppendRest \/ UNCHANGED <<ledger, cache>>
  BY DEF Next, Call, Advance, CommitBegin, CommitReplay, CommitRefused, Resolve, RecoverBegin,
         AppendHalf, Sync, MaterializeDiverges, Return, RecoverNext, RecoverEnd, Crash,
         PowerFail, vars
<1> QED
  BY <1>1, <1>2, <1>3, <1>4

(* Where only processes fail, no file of the cache is an orphan and none   *)
(* diverges from its ledger line.                                          *)
THEOREM CacheTrusted ==
  ASSUME ~PowerLoss
  PROVE  Spec => []CacheBacked
<1>1. Init => CacheBacked
  BY DEF Init, CacheBacked
<1>2. LedgerInv /\ CacheBacked /\ [Next]_vars => CacheBacked'
  BY BackedNext
<1> QED
  BY <1>1, <1>2, LedgerInit, LedgerNext, PTL DEF Spec

(* Where only processes fail, the ledger implements the register: records  *)
(* are published once, at the tip, for good, and only published records    *)
(* are handed out.                                                         *)
THEOREM LedgerImplementsRegister ==
  ASSUME ~PowerLoss
  PROVE  Spec => ImplementsChainRegister
<1>1. Init => Register!RegInit
  BY DEF Init, Register!RegInit
<1>2. LedgerInv /\ [Next]_vars => [Register!RegNext]_Register!regVars
  <2> SUFFICES ASSUME LedgerInv, [Next]_vars, ~UNCHANGED <<ledger, told>>
               PROVE  Register!RegNext
    BY DEF Register!regVars
  <2>1. AppendRest \/ Return
    BY DEF Next, Call, Advance, CommitBegin, CommitReplay, CommitRefused, Resolve,
           RecoverBegin, AppendHalf, Sync, Materialize, MaterializeDiverges, RecoverNext,
           RecoverEnd, Crash, PowerFail, vars
  <2>2. CASE AppendRest
    <3>1. /\ job.entry \in Entry /\ Unpublished(job.entry) /\ AtTip(job.entry)
          /\ ledger' = Append(ledger, job.entry) /\ UNCHANGED told
      BY <2>2 DEF AppendRest, LedgerInv, JobOK
    <3> QED
      BY <3>1 DEF Register!RegNext, Register!Publish, Register!Match, Match, Unpublished,
                  AtTip, Register!TipIs, TipIs, Register!Entry, Entry
  <2>3. CASE Return
    <3>1. PICK i \in DOMAIN ledger : ledger[i] = job.entry
      BY <2>3 DEF Return, LedgerInv, JobOK, Published
    <3> QED
      BY <2>3, <3>1 DEF Return, Register!RegNext, Register!Answer
  <2> QED
    BY <2>1, <2>2, <2>3
<1> QED
  BY <1>1, <1>2, LedgerInit, LedgerNext, PTL
     DEF Spec, ImplementsChainRegister, Register!RegSpec
=============================================================================
